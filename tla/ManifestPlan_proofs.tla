-------------------------- MODULE ManifestPlan_proofs --------------------------
(***************************************************************************)
(* Proofs about ManifestPlan: for any files, sizes, pages and limits,      *)
(* markManifestFiles chooses as its docstring says (WellChosen), the       *)
(* manifest names every file (NothingLeftOut), and planning the same       *)
(* directory again comes to the same plan and finds nothing to do          *)
(* (SamePlan, QuietUnlessForced).  The manifest stays below its limit, but *)
(* for the index page and the activelink (LimitKept).                      *)
(*                                                                         *)
(* The first two have invariants of a usual kind.  The next compare two    *)
(* runs of the loop.  Trace says what the loop counted with at each file;  *)
(* Built, that such a trace exists of the run that goes on; Repeats, that  *)
(* this run follows the trace of the last one; and OnePlan, that a trace   *)
(* leaves one choice of files to take back.  LimitKept relates what the    *)
(* loop counts with to a sum over the files it took in.                    *)
(***************************************************************************)
EXTENDS ManifestPlan, FiniteSetTheorems, WellFoundedInduction, TLAPS

\* What is left to look at has a record, and only the loop of markManifestFiles
\* has something left.
LoopInv ==
  /\ left \subseteq files
  /\ left # {} => pc = "choose"

PlanTypes == TypeOK /\ LoopInv

\* A planning starts with nothing left and nothing forced; every handler keeps
\* the types.
LEMMA InitTypes == Init => PlanTypes
<1> SUFFICES ASSUME Init PROVE PlanTypes
  OBVIOUS
<1>1. size \in [disk -> Nat] /\ mentioned \subseteq Names
  BY PlanAssumption DEF Init
<1>2. NoPlan \in [Names -> Targets]
  BY DEF NoPlan, Targets
<1>3. named.inside = {} /\ named.redirects = {}
  BY DEF Init
<1> QED
  BY <1>1, <1>2, <1>3 DEF Init, PlanTypes, TypeOK, LoopInv

\* The sizes and names stay what they are when the user edits.
LEMMA EditTypes ==
  ASSUME PlanTypes, NEW f \in Names, NEW s \in Sizes, Edit(f, s)
  PROVE  PlanTypes'
<1>1. size' \in [disk' -> Nat]
  <2>1. \A g \in disk' : (IF g = f THEN s ELSE size[g]) \in Nat
    BY PlanAssumption DEF PlanTypes, TypeOK, Edit
  <2> QED
    BY <2>1 DEF Edit
<1>2. mentioned' \subseteq Names
  BY PlanAssumption DEF PlanTypes, TypeOK, Edit
<1>3. plan' \in [Names -> Targets]
  BY DEF Edit, NoPlan, Targets
<1> QED
  BY <1>1, <1>2, <1>3 DEF PlanTypes, TypeOK, LoopInv, Edit, recVars, planVars

LEMMA DeleteTypes ==
  ASSUME PlanTypes, NEW f \in Names, Delete(f)
  PROVE  PlanTypes'
<1>1. size' \in [disk' -> Nat]
  BY DEF PlanTypes, TypeOK, Delete
<1>2. plan' \in [Names -> Targets]
  BY DEF Delete, NoPlan, Targets
<1> QED
  BY <1>1, <1>2 DEF PlanTypes, TypeOK, LoopInv, Delete, recVars, planVars

\* scan makes the records those of the directory.
LEMMA ScanTypes ==
  ASSUME PlanTypes, Scan
  PROVE  PlanTypes'
<1>1. target' \in [Names -> Targets]
  BY DEF PlanTypes, TypeOK, Scan, Targets
<1>2. needToUpdate' \in BOOLEAN
  BY DEF Scan
<1>3. uri' \subseteq files' /\ changed' \subseteq files' /\ inserted' \subseteq uri'
  BY DEF PlanTypes, TypeOK, Scan
<1> QED
  BY <1>1, <1>2, <1>3 DEF PlanTypes, TypeOK, LoopInv, Scan, dirVars, planVars

\* The counting starts with sizes of files that are there.
LEMMA MarkTypes ==
  ASSUME PlanTypes, MarkSpecial
  PROVE  PlanTypes'
<1>1. target' \in [Names -> Targets]
  <2>1. PICK fits \in BOOLEAN :
          target' = [f \in Names |-> IF f = Index \/ (f = Activelink /\ fits)
                                     THEN "manifest" ELSE target[f]]
    BY DEF MarkSpecial
  <2> QED
    BY <2>1 DEF PlanTypes, TypeOK, Targets
<1>2. /\ Index \in disk
      /\ Activelink \in files => Activelink \in disk
  BY DEF PlanTypes, TypeOK, MarkSpecial
<1>3. totalsize' \in Nat /\ maxsize' \in Nat
  <2>1. PICK fits \in BOOLEAN :
          /\ fits => Activelink \in files
          /\ totalsize' = IF fits THEN size[Activelink] ELSE MetadataSize + size[Index]
          /\ maxsize' = IF fits THEN MaxManifestSize + RedirectSize + RedirectSize
                                ELSE MaxManifestSize + RedirectSize
    <3> DEFINE fits == /\ Activelink \in files
                       /\ size[Activelink] + (MetadataSize + size[Index])
                            + RedirectSize * Cardinality(files)
                            <= (MaxManifestSize + RedirectSize) + RedirectSize
    <3>1. fits \in BOOLEAN
      OBVIOUS
    <3> QED
      BY <3>1 DEF MarkSpecial
  <2>2. size[Index] \in Nat /\ (fits => size[Activelink] \in Nat)
    BY <1>2, <2>1 DEF PlanTypes, TypeOK
  <2>3. MetadataSize \in Nat /\ RedirectSize \in Nat /\ MaxManifestSize \in Nat
    BY PlanAssumption
  <2> QED
    BY <2>1, <2>2, <2>3
<1> QED
  BY <1>1, <1>3 DEF PlanTypes, TypeOK, LoopInv, MarkSpecial, dirVars

LEMMA ConsiderTypes ==
  ASSUME PlanTypes, NEW f \in Names, Consider(f)
  PROVE  PlanTypes'
<1>1. f \in files /\ f \in disk
  BY DEF PlanTypes, TypeOK, LoopInv, Consider, IsNext
<1>2. target' \in [Names -> Targets]
  BY DEF PlanTypes, TypeOK, Consider, Targets
<1>3. totalsize' \in Nat /\ maxsize' \in Nat
  BY <1>1, PlanAssumption DEF PlanTypes, TypeOK, Consider
<1>4. changed' \subseteq files /\ needToUpdate' \in BOOLEAN
  BY <1>1 DEF PlanTypes, TypeOK, Consider
<1> QED
  BY <1>2, <1>3, <1>4 DEF PlanTypes, TypeOK, LoopInv, Consider, dirVars

LEMMA TakeBackTypes ==
  ASSUME PlanTypes, NEW f \in Names, TakeBack(f)
  PROVE  PlanTypes'
<1>1. f \in disk
  BY DEF PlanTypes, TypeOK, TakeBack, Separate
<1>2. target' \in [Names -> Targets]
  BY DEF PlanTypes, TypeOK, TakeBack, Targets
<1>3. totalsize' \in Nat
  BY <1>1 DEF PlanTypes, TypeOK, TakeBack
<1> QED
  BY <1>2, <1>3 DEF PlanTypes, TypeOK, LoopInv, TakeBack, dirVars

LEMMA NoUpdateTypes ==
  ASSUME PlanTypes, NoUpdate
  PROVE  PlanTypes'
  BY DEF PlanTypes, TypeOK, LoopInv, NoUpdate, Planned, Done, dirVars

LEMMA UploadTypes ==
  ASSUME PlanTypes, Upload
  PROVE  PlanTypes'
  BY DEF PlanTypes, TypeOK, LoopInv, Upload, Planned, dirVars, planVars

LEMMA ManifestTypes ==
  ASSUME PlanTypes, MakeManifest
  PROVE  PlanTypes'
<1>1. /\ named'.inside \subseteq Names
      /\ named'.redirects \subseteq Names
  BY DEF PlanTypes, TypeOK, MakeManifest, Inside, Separate
<1> QED
  BY <1>1 DEF PlanTypes, TypeOK, LoopInv, MakeManifest, Done, dirVars

LEMMA StutterTypes ==
  ASSUME PlanTypes, UNCHANGED vars
  PROVE  PlanTypes'
  BY DEF PlanTypes, TypeOK, LoopInv, vars, dirVars, recVars, planVars

\* The records, sizes and targets keep their types, and the loop looks at
\* records only.
THEOREM PlanTypeCorrect == Spec => [](TypeOK /\ LoopInv)
<1>1. PlanTypes /\ [Next]_vars => PlanTypes'
  <2> SUFFICES ASSUME PlanTypes, [Next]_vars PROVE PlanTypes'
    OBVIOUS
  <2>1. ASSUME NEW f \in Names, NEW s \in Sizes, Edit(f, s) PROVE PlanTypes'
    BY <2>1, EditTypes
  <2>2. ASSUME NEW f \in Names, Delete(f) PROVE PlanTypes'
    BY <2>2, DeleteTypes
  <2>3. ASSUME NEW f \in Names, Consider(f) PROVE PlanTypes'
    BY <2>3, ConsiderTypes
  <2>4. ASSUME NEW f \in Names, TakeBack(f) PROVE PlanTypes'
    BY <2>4, TakeBackTypes
  <2> QED
    BY <2>1, <2>2, <2>3, <2>4, ScanTypes, MarkTypes, NoUpdateTypes, UploadTypes,
       ManifestTypes, StutterTypes DEF Next
<1> QED
  BY InitTypes, <1>1, PTL DEF Spec, PlanTypes

\* The loop goes through the files class by class, the smallest first: no two
\* files are at the same place.
LEMMA Orders ==
  ASSUME PlanTypes, NEW f \in disk, NEW g \in disk
  PROVE  /\ Class(f) \in 1..4
         /\ f # g => Smaller(f, g) \/ Smaller(g, f)
         /\ f # g => Before(f, g) \/ Before(g, f)
         /\ ~ (Smaller(f, g) /\ Smaller(g, f))
         /\ ~ (Before(f, g) /\ Before(g, f))
<1>1. f \in Nat /\ g \in Nat /\ size[f] \in Nat /\ size[g] \in Nat
  BY PlanAssumption DEF PlanTypes, TypeOK
<1>2. Class(f) \in 1..4 /\ Class(g) \in 1..4
  BY DEF Class
<1>3. /\ f # g => Smaller(f, g) \/ Smaller(g, f)
      /\ ~ (Smaller(f, g) /\ Smaller(g, f))
  BY <1>1 DEF Smaller
<1> HIDE DEF Smaller
<1> QED
  BY <1>2, <1>3 DEF Before

LEMMA OrdersOn ==
  ASSUME PlanTypes, NEW f \in disk, NEW g \in disk, NEW h \in disk,
         Before(f, g), Before(g, h)
  PROVE  Before(f, h)
<1>1. /\ f \in Nat /\ g \in Nat /\ h \in Nat
      /\ size[f] \in Nat /\ size[g] \in Nat /\ size[h] \in Nat
  BY PlanAssumption DEF PlanTypes, TypeOK
<1>2. Class(f) \in 1..4 /\ Class(g) \in 1..4 /\ Class(h) \in 1..4
  BY Orders
<1>3. Smaller(f, g) /\ Smaller(g, h) => Smaller(f, h)
  BY <1>1 DEF Smaller
<1> QED
  BY <1>2, <1>3 DEF Before

\* A file that is no smaller than one that has no room has no room either.
LEMMA NoRoom ==
  ASSUME PlanTypes, NEW f \in disk, NEW g \in disk, Smaller(g, f), ~ Fits(g)
  PROVE  ~ Fits(f)
<1>1. size[f] \in Nat /\ size[g] \in Nat /\ totalsize \in Nat /\ maxsize \in Nat
  BY DEF PlanTypes, TypeOK
<1>2. size[g] <= size[f]
  BY <1>1 DEF Smaller
<1>3. IsFiniteSet(files)
  BY PlanAssumption, FS_Subset DEF PlanTypes, TypeOK
<1>4. Cardinality(files) \in Nat
  BY <1>3, FS_CardinalityType
<1>5. RedirectSize \in Nat
  BY PlanAssumption
<1>6. PICK room \in Nat : \A h : Fits(h) <=> size[h] + totalsize + room <= maxsize + RedirectSize
  BY <1>4, <1>5 DEF Fits
<1>7. ~ (size[g] + totalsize + room <= maxsize + RedirectSize)
  BY <1>6
<1>8. ~ (size[f] + totalsize + room <= maxsize + RedirectSize)
  BY <1>1, <1>2, <1>5, <1>7
<1> QED
  BY <1>6, <1>8

--------------------------------------------------------------------------------
\* Files have been looked at in their order.
LoopOrder == \A f \in files \ left, g \in left : Before(f, g)

\* The index page and the activelink are in once they were looked at.
SpecialIn == \A f \in (files \ left) \cap Special : f \in Inside

\* Where a file was left out, none of its class that is still to come will fit.
RoomGone ==
  \A g \in Separate \ left : (\E f \in left : Class(f) = Class(g)) => ~ Fits(g)

\* Of the files looked at, those in the manifest are smaller than those of their
\* class that are not.
SmallestIn ==
  \A f \in (Inside \ left) \ Special, g \in Separate \ left :
    Class(f) = Class(g) => Smaller(f, g)

\* Files are taken back at the end only, no more than needed, the smallest first.
TakenBack ==
  forced # {} =>
    /\ left = {} /\ forced \subseteq Inside
    /\ Cardinality(Separate) >= MaxNumberSeparate
    /\ \A f \in forced, g \in Separate : Smaller(f, g)

ChooseInv ==
  pc = "choose" => LoopOrder /\ SpecialIn /\ RoomGone /\ SmallestIn /\ TakenBack

\* What has been left out because it did not fit was larger than what is in.
LEMMA ChooseConsider ==
  ASSUME PlanTypes, ChooseInv, NEW f \in Names, Consider(f)
  PROVE  ChooseInv'
<1>1. /\ pc = "choose" /\ f \in left /\ f \in files /\ left \subseteq files
      /\ files = disk /\ left # {}
      /\ \A g \in left \ {f} : Before(f, g)
  BY DEF Consider, IsNext, PlanTypes, TypeOK, LoopInv
<1>2. LoopOrder /\ SpecialIn /\ RoomGone /\ SmallestIn /\ TakenBack
  BY <1>1 DEF ChooseInv
<1>3. /\ left' = left \ {f} /\ files' = files /\ size' = size /\ mentioned' = mentioned
      /\ forced' = forced
      /\ \A g \in Names \ {f} : target'[g] = target[g]
  BY DEF Consider, dirVars, PlanTypes, TypeOK
<1>4. \A g, h : /\ Class(g)' = Class(g)
                /\ Smaller(g, h)' = Smaller(g, h)
                /\ Before(g, h)' = Before(g, h)
  BY <1>3 DEF Before, Smaller, Class
<1>5. LoopOrder'
  BY <1>1, <1>2, <1>3, <1>4 DEF LoopOrder
<1>6. files \subseteq Names
  BY DEF PlanTypes, TypeOK
<1>7. f \in Special => target'[f] = "manifest"
  BY <1>6 DEF Consider, PlanTypes, TypeOK
<1>8. SpecialIn'
  BY <1>1, <1>2, <1>3, <1>6, <1>7 DEF SpecialIn, Inside
<1>9. forced = {}
  BY <1>1, <1>2 DEF TakenBack
<1>10. TakenBack'
  BY <1>3, <1>9 DEF TakenBack
<1>11. \A g \in files \ {f} : (g \in Inside' <=> g \in Inside)
                              /\ (g \in Separate' <=> g \in Separate)
  BY <1>3, <1>6 DEF Inside, Separate
<1>12. CASE target'[f] = "manifest"
  <2>1. f \in Inside' /\ f \notin Separate'
    BY <1>1, <1>3, <1>12 DEF Inside, Separate
  <2>2. f \in Special \/ Fits(f)
    BY <1>1, <1>6, <1>12 DEF Consider, PlanTypes, TypeOK
  <2>3. \A g \in Separate \ left : Class(g) = Class(f) => Smaller(g, f) /\ ~ Fits(g)
    <3> SUFFICES ASSUME NEW g \in Separate \ left, Class(g) = Class(f)
                 PROVE  Smaller(g, f) /\ ~ Fits(g)
      OBVIOUS
    <3>1. ~ Fits(g)
      BY <1>1, <1>2 DEF RoomGone
    <3>2. Before(g, f) /\ g \in disk
      BY <1>1, <1>2 DEF LoopOrder, Separate
    <3>3. Class(f) \in 1..4
      BY <1>1, Orders
    <3> QED
      BY <3>1, <3>2, <3>3 DEF Before
  <2>4. \A g \in Separate \ left : Class(g) = Class(f) => f \in Special
    BY <1>1, <2>2, <2>3, NoRoom DEF Separate
  <2>5. SmallestIn'
    BY <1>1, <1>2, <1>3, <1>4, <1>11, <2>1, <2>4 DEF SmallestIn, Inside, Separate
  <2>6. RoomGone'
    <3> SUFFICES ASSUME NEW g \in Separate' \ left', NEW h \in left', Class(h) = Class(g)
                 PROVE  ~ Fits(g)'
      BY <1>3, <1>4 DEF RoomGone
    <3>1. g \in Separate \ left /\ h \in left \ {f} /\ g \in disk /\ h \in disk
      BY <1>1, <1>3, <1>11, <2>1 DEF Separate
    <3>2. CASE f \in Special
      <4>1. totalsize' = totalsize /\ maxsize' = maxsize
        BY <3>2 DEF Consider
      <4>2. ~ Fits(g)
        BY <1>2, <3>1 DEF RoomGone
      <4> QED
        BY <1>3, <4>1, <4>2 DEF Fits
    <3>3. CASE f \notin Special
      <4>1. Class(g) # Class(f)
        BY <2>4, <3>1, <3>3
      <4>2. Before(g, f) /\ Before(f, h)
        BY <1>1, <1>2, <3>1 DEF LoopOrder, Separate
      <4>3. Class(g) \in 1..4 /\ Class(f) \in 1..4 /\ Class(h) \in 1..4
        BY <1>1, <3>1, Orders
      <4> QED
        BY <4>1, <4>2, <4>3 DEF Before
    <3> QED
      BY <3>2, <3>3
  <2> QED
    BY <1>5, <1>8, <1>10, <2>5, <2>6 DEF ChooseInv
<1>13. CASE target'[f] # "manifest"
  <2>1. /\ f \notin Inside' /\ f \in Separate' /\ ~ Fits(f) /\ f \notin Special
        /\ totalsize' = totalsize /\ maxsize' = maxsize
    <3>1. target'[f] = "manifest" \/ (~ Fits(f) /\ f \notin Special
                                      /\ totalsize' = totalsize /\ maxsize' = maxsize)
      BY <1>1, <1>6 DEF Consider, PlanTypes, TypeOK
    <3> QED
      BY <1>1, <1>3, <1>13, <3>1 DEF Inside, Separate
  <2>2. \A g : Fits(g)' = Fits(g)
    BY <1>3, <2>1 DEF Fits
  <2>3. RoomGone'
    <3> SUFFICES ASSUME NEW g \in Separate' \ left', NEW h \in left', Class(h) = Class(g)
                 PROVE  ~ Fits(g)
      BY <1>3, <1>4, <2>2 DEF RoomGone
    <3>1. g = f \/ (g \in Separate \ left /\ h \in left)
      BY <1>3, <1>11 DEF Separate
    <3> QED
      BY <1>2, <2>1, <3>1 DEF RoomGone
  <2>4. \A g \in Inside \ left : Class(g) = Class(f) => Smaller(g, f)
    <3> SUFFICES ASSUME NEW g \in Inside \ left, Class(g) = Class(f)
                 PROVE  Smaller(g, f)
      OBVIOUS
    <3>1. Before(g, f)
      BY <1>1, <1>2 DEF LoopOrder, Inside
    <3>2. Class(f) \in 1..4
      BY <1>1, Orders
    <3> QED
      BY <3>1, <3>2 DEF Before
  <2>5. SmallestIn'
    BY <1>1, <1>2, <1>3, <1>4, <1>11, <2>1, <2>4 DEF SmallestIn, Inside, Separate
  <2> QED
    BY <1>5, <1>8, <1>10, <2>3, <2>5 DEF ChooseInv
<1> QED
  BY <1>12, <1>13

\* The smallest separate file goes, one at a time.
LEMMA ChooseTakeBack ==
  ASSUME PlanTypes, ChooseInv, NEW f \in Names, TakeBack(f)
  PROVE  ChooseInv'
<1>1. /\ pc = "choose" /\ left = {} /\ files = disk /\ f \in Separate
      /\ \A g \in Separate \ {f} : Smaller(f, g)
      /\ left' = {} /\ files' = files /\ size' = size /\ mentioned' = mentioned
      /\ forced' = forced \cup {f} /\ target' = [target EXCEPT ![f] = "manifest"]
      /\ Cardinality(Separate) > MaxNumberSeparate
  BY DEF TakeBack, TooMany, dirVars, PlanTypes, TypeOK
<1>2. SpecialIn /\ SmallestIn /\ TakenBack
  BY <1>1 DEF ChooseInv
<1>3. \A g, h : Class(g)' = Class(g) /\ Smaller(g, h)' = Smaller(g, h)
  BY <1>1 DEF Smaller, Class
<1>4. Inside' = Inside \cup {f} /\ Separate' = Separate \ {f}
  BY <1>1 DEF Inside, Separate, PlanTypes, TypeOK
<1>5. LoopOrder' /\ RoomGone'
  BY <1>1 DEF LoopOrder, RoomGone
<1>6. SpecialIn'
  BY <1>1, <1>2, <1>4 DEF SpecialIn
<1>7. SmallestIn'
  BY <1>1, <1>2, <1>3, <1>4 DEF SmallestIn
<1>8. Cardinality(Separate') >= MaxNumberSeparate
  <2>1. IsFiniteSet(Separate)
    BY PlanAssumption, FS_Subset DEF Separate, PlanTypes, TypeOK
  <2>2. Cardinality(Separate') = Cardinality(Separate) - 1 /\ Cardinality(Separate) \in Nat
    BY <1>1, <1>4, <2>1, FS_RemoveElement, FS_CardinalityType
  <2> QED
    BY <1>1, <2>2, PlanAssumption
<1>9. TakenBack'
  BY <1>1, <1>2, <1>3, <1>4, <1>8 DEF TakenBack
<1> QED
  BY <1>5, <1>6, <1>7, <1>9 DEF ChooseInv

\* Nothing has been looked at yet.
LEMMA ChooseMark ==
  ASSUME PlanTypes, MarkSpecial
  PROVE  ChooseInv'
<1>1. left' = files' /\ forced' = {}
  BY DEF MarkSpecial
<1> QED
  BY <1>1 DEF ChooseInv, LoopOrder, SpecialIn, RoomGone, SmallestIn, TakenBack, Inside, Separate

LEMMA ChooseStutter ==
  ASSUME ChooseInv, UNCHANGED vars
  PROVE  ChooseInv'
<1>1. \A g, h : /\ Class(g)' = Class(g)
                /\ Smaller(g, h)' = Smaller(g, h)
                /\ Fits(g)' = Fits(g)
  BY DEF Smaller, Class, Fits, vars, dirVars, recVars, planVars
<1>2. Inside' = Inside /\ Separate' = Separate
  BY DEF Inside, Separate, vars, recVars
<1> QED
  BY <1>1, <1>2 DEF ChooseInv, LoopOrder, Before, SpecialIn, RoomGone, SmallestIn,
     TakenBack, vars, recVars, planVars

LEMMA ChooseNext ==
  ASSUME PlanTypes, ChooseInv, [Next]_vars
  PROVE  ChooseInv'
<1>1. \A f \in Names, s \in Sizes : Edit(f, s) => pc' # "choose"
  BY DEF Edit
<1>2. \A f \in Names : Delete(f) => pc' # "choose"
  BY DEF Delete
<1>3. Scan \/ NoUpdate \/ Upload \/ MakeManifest => pc' # "choose"
  BY DEF Scan, NoUpdate, Upload, MakeManifest, Done
<1> QED
  BY <1>1, <1>2, <1>3, ChooseConsider, ChooseTakeBack, ChooseMark, ChooseStutter
  DEF Next, ChooseInv

\* markManifestFiles exceeds the size limit only to have few enough redirects:
\* then it takes the smallest files back, none without need, and a file that is
\* in comes before any of its class that is not.
THEOREM FilesWellChosen == Spec => []WellChosen
<1>1. PlanTypes /\ ChooseInv => WellChosen
  <2> SUFFICES ASSUME PlanTypes, ChooseInv, Planned PROVE WellChosen
    BY DEF WellChosen
  <2>1. SmallestIn /\ TakenBack /\ left = {} /\ ~ TooMany
    BY DEF ChooseInv, Planned
  <2>2. IsFiniteSet(Separate)
    BY PlanAssumption, FS_Subset DEF Separate, PlanTypes, TypeOK
  <2>3. Cardinality(Separate) \in Nat
    BY <2>2, FS_CardinalityType
  <2>4. forced # {} => Cardinality(Separate) = MaxNumberSeparate
    BY <2>1, <2>3, PlanAssumption DEF TakenBack, TooMany
  <2> QED
    BY <2>1, <2>4 DEF WellChosen, SmallestIn, TakenBack
<1>2. Init => ChooseInv
  BY DEF Init, ChooseInv
<1>3. PlanTypes /\ ChooseInv /\ [Next]_vars => ChooseInv'
  BY ChooseNext
<1> QED
  BY PlanTypeCorrect, <1>1, <1>2, <1>3, PTL DEF Spec, PlanTypes

--------------------------------------------------------------------------------
\* A file outside the manifest that has no CHK will get one, and an update will
\* be made for it.
ChangedInv ==
  pc \in {"mark", "choose"} =>
    /\ Separate \ uri \subseteq changed
    /\ changed # {} => needToUpdate

\* When the manifest is made, every separate file has its CHK, and the index page
\* is not separate.
UploadInv == pc = "upload" => Separate \subseteq uri /\ Index \in Inside

\* What has a CHK was inserted, except for the pages gensitemapuri and
\* genindexuri gave one.
InsertedInv == uri \subseteq inserted \cup {Index, Sitemap}

\* The last manifest names what has a record, until there is a reason for a new one.
NamedInv ==
  pc = "idle" \/ ~ needToUpdate =>
    /\ named.inside \cup named.redirects = files
    /\ named.redirects \ {Sitemap} \subseteq inserted

RecordInv == ChangedInv /\ UploadInv /\ InsertedInv /\ NamedInv

LEMMA RecordScan ==
  ASSUME PlanTypes, RecordInv, Scan
  PROVE  RecordInv'
<1>1. /\ pc = "idle" /\ pc' = "mark" /\ files' = disk
      /\ uri' = uri \cap disk /\ inserted' = inserted \cap disk
      /\ changed' = (changed \cap disk) \cup (disk \ files) \cup (disk \ (Inside \cup uri))
      /\ needToUpdate' = (~ files \subseteq disk \/ changed' # {})
      /\ named' = named
      /\ \A f \in disk : target'[f] = target[f]
  BY DEF Scan, PlanTypes, TypeOK
<1>2. ChangedInv'
  BY <1>1 DEF ChangedInv, Separate, Inside
<1>3. NamedInv'
  <2> SUFFICES ASSUME ~ needToUpdate'
               PROVE  /\ named.inside \cup named.redirects = disk
                      /\ named.redirects \ {Sitemap} \subseteq inserted \cap disk
    BY <1>1 DEF NamedInv
  <2>1. disk = files
    BY <1>1
  <2> QED
    BY <1>1, <2>1 DEF RecordInv, NamedInv
<1>4. UploadInv' /\ InsertedInv'
  BY <1>1 DEF UploadInv, RecordInv, InsertedInv
<1> QED
  BY <1>2, <1>3, <1>4 DEF RecordInv

\* Marking the index page and the activelink leaves fewer files separate.
LEMMA RecordMark ==
  ASSUME PlanTypes, RecordInv, MarkSpecial
  PROVE  RecordInv'
<1>1. PICK fits \in BOOLEAN :
        target' = [f \in Names |-> IF f = Index \/ (f = Activelink /\ fits)
                                   THEN "manifest" ELSE target[f]]
  BY DEF MarkSpecial
<1>2. /\ pc = "mark" /\ pc' = "choose" /\ files \subseteq Names
      /\ UNCHANGED <<files, uri, changed, needToUpdate, named, inserted>>
  BY DEF MarkSpecial, PlanTypes, TypeOK
<1>3. Separate' \subseteq Separate
  BY <1>1, <1>2 DEF Separate, Inside
<1> QED
  BY <1>2, <1>3 DEF RecordInv, ChangedInv, UploadInv, InsertedInv, NamedInv

\* A file that leaves the manifest without a CHK is marked as changed, and that
\* is a reason for an update.
LEMMA RecordConsider ==
  ASSUME PlanTypes, RecordInv, NEW f \in Names, Consider(f)
  PROVE  RecordInv'
<1>1. /\ pc = "choose" /\ pc' = "choose" /\ f \in files /\ files \subseteq Names
      /\ UNCHANGED <<files, uri, named, inserted>>
      /\ \A g \in files \ {f} : target'[g] = target[g]
      /\ needToUpdate \in BOOLEAN
  BY DEF Consider, IsNext, PlanTypes, TypeOK, LoopInv
<1>2. \/ /\ target'[f] = "manifest"
         /\ UNCHANGED <<changed, needToUpdate>>
      \/ /\ target'[f] = "separate"
         /\ f \in Inside \ uri
         /\ changed' = changed \cup {f} /\ needToUpdate' = TRUE
      \/ /\ target'[f] = "separate" /\ f \notin Inside \ uri
         /\ UNCHANGED <<changed, needToUpdate>>
  BY DEF Consider, PlanTypes, TypeOK
<1>3. ChangedInv'
  BY <1>1, <1>2 DEF RecordInv, ChangedInv, Separate, Inside
<1>4. NamedInv'
  BY <1>1, <1>2 DEF RecordInv, NamedInv
<1> QED
  BY <1>1, <1>3, <1>4 DEF RecordInv, UploadInv, InsertedInv

LEMMA RecordTakeBack ==
  ASSUME PlanTypes, RecordInv, NEW f \in Names, TakeBack(f)
  PROVE  RecordInv'
<1>1. /\ pc = "choose" /\ files \subseteq Names
      /\ UNCHANGED <<files, uri, changed, needToUpdate, named, inserted, pc>>
      /\ target' = [target EXCEPT ![f] = "manifest"]
  BY DEF TakeBack, PlanTypes, TypeOK
<1>2. Separate' \subseteq Separate
  BY <1>1 DEF Separate, Inside, PlanTypes, TypeOK
<1> QED
  BY <1>1, <1>2 DEF RecordInv, ChangedInv, UploadInv, InsertedInv, NamedInv

\* The pages and the changed separate files get their CHKs.
LEMMA RecordUpload ==
  ASSUME PlanTypes, ChooseInv, RecordInv, Upload
  PROVE  RecordInv'
<1>1. /\ pc = "choose" /\ pc' = "upload" /\ left = {} /\ needToUpdate
      /\ UNCHANGED <<files, target, named, needToUpdate>>
      /\ uri' = uri \cup ({Index, Sitemap} \cap files) \cup (changed \ Inside)
      /\ inserted' = inserted \cup (changed \ Inside)
  BY DEF Upload, Planned
<1>2. Inside' = Inside /\ Separate' = Separate
  BY <1>1 DEF Inside, Separate
<1>3. Separate \subseteq uri'
  BY <1>1 DEF RecordInv, ChangedInv, Separate
<1>4. Index \in Inside
  BY <1>1 DEF ChooseInv, SpecialIn, Special, PlanTypes, TypeOK
<1> QED
  BY <1>1, <1>2, <1>3, <1>4 DEF RecordInv, ChangedInv, UploadInv, InsertedInv, NamedInv

\* makeManifest leaves nothing out.
LEMMA RecordManifest ==
  ASSUME PlanTypes, RecordInv, MakeManifest
  PROVE  RecordInv'
<1>1. /\ pc = "upload" /\ pc' = "idle"
      /\ UNCHANGED <<files, target, uri, inserted>>
      /\ named'.inside = Inside /\ named'.redirects = Separate \cap uri
  BY DEF MakeManifest, Done
<1>2. Separate \subseteq uri /\ Index \notin Separate
  BY <1>1 DEF RecordInv, UploadInv, Separate
<1>3. NamedInv'
  BY <1>1, <1>2 DEF RecordInv, NamedInv, InsertedInv, Separate, Inside
<1> QED
  BY <1>1, <1>3 DEF RecordInv, ChangedInv, UploadInv, InsertedInv

LEMMA RecordNext ==
  ASSUME PlanTypes, ChooseInv, RecordInv, [Next]_vars
  PROVE  RecordInv'
<1>1. ASSUME NEW f \in Names, NEW s \in Sizes, Edit(f, s) PROVE RecordInv'
  BY <1>1 DEF Edit, RecordInv, ChangedInv, UploadInv, InsertedInv, NamedInv
<1>2. ASSUME NEW f \in Names, Delete(f) PROVE RecordInv'
  BY <1>2 DEF Delete, recVars, RecordInv, ChangedInv, UploadInv, InsertedInv, NamedInv
<1>3. ASSUME NEW f \in Names, Consider(f) \/ TakeBack(f) PROVE RecordInv'
  BY <1>3, RecordConsider, RecordTakeBack
<1>4. CASE NoUpdate
  BY <1>4 DEF NoUpdate, Planned, Done, RecordInv, ChangedInv, UploadInv, InsertedInv, NamedInv
<1>5. CASE UNCHANGED vars
  BY <1>5 DEF vars, recVars, RecordInv, ChangedInv, UploadInv, InsertedInv, NamedInv,
              Separate, Inside
<1> QED
  BY <1>1, <1>2, <1>3, <1>4, <1>5, RecordScan, RecordMark, RecordUpload, RecordManifest
  DEF Next

LEMMA RecordsHold == Spec => [](PlanTypes /\ ChooseInv /\ RecordInv)
<1>1. Init => ChooseInv /\ RecordInv
  BY DEF Init, ChooseInv, RecordInv, ChangedInv, UploadInv, InsertedInv, NamedInv
<1>2. PlanTypes /\ ChooseInv /\ [Next]_vars => ChooseInv'
  BY ChooseNext
<1>3. PlanTypes /\ ChooseInv /\ RecordInv /\ [Next]_vars => RecordInv'
  BY RecordNext
<1> QED
  BY PlanTypeCorrect, <1>1, <1>2, <1>3, PTL DEF Spec, PlanTypes

\* Whatever files went in and out of manifests before, makeManifest names every
\* file of the scan, and its redirects lead to what was inserted.
THEOREM NothingIsLeftOut == Spec => []NothingLeftOut
<1>1. RecordInv => NothingLeftOut
  BY DEF RecordInv, NamedInv, NothingLeftOut
<1> QED
  BY <1>1, RecordsHold, PTL

--------------------------------------------------------------------------------
\* What the loop counts with.
Now == [tot |-> totalsize, max |-> maxsize]

\* Where it starts,
ActivelinkFits ==
  /\ Activelink \in files
  /\ size[Activelink] + (MetadataSize + size[Index]) + RedirectSize * Cardinality(files)
       <= (MaxManifestSize + RedirectSize) + RedirectSize

Start ==
  IF ActivelinkFits
  THEN [tot |-> size[Activelink], max |-> MaxManifestSize + RedirectSize + RedirectSize]
  ELSE [tot |-> MetadataSize + size[Index], max |-> MaxManifestSize + RedirectSize]

\* which files have room,
Room(c, f) == size[f] + c.tot + RedirectSize * Cardinality(files) <= c.max + RedirectSize

\* and how it goes on.
After(c, f) ==
  IF f \notin Special /\ Room(c, f)
  THEN [tot |-> c.tot + size[f], max |-> c.max + RedirectSize]
  ELSE c

First(f) == \A g \in files \ {f} : Before(f, g)

\* The file after f in the order of the loop.
Follows(f, g) ==
  /\ Before(f, g)
  /\ \A h \in files : ~ (Before(f, h) /\ Before(h, g))

\* s[f] is what the loop counted with when it came to f.
Trace(C, s) ==
  /\ s = [f \in C |-> s[f]]
  /\ \A f \in C : First(f) => s[f] = Start
  /\ \A f, g \in C : Follows(f, g) => s[g] = After(s[f], f)

\* The loop took f in.
Chosen(s, f) == f \in Special \/ Room(s[f], f)

\* The files a plan leaves separate.
Out(t) == {f \in files : t[f] = "separate"}

\* t is what the loop and the files taken back after it come to.
Final(t, s) ==
  /\ t \in [Names -> Targets]
  /\ \A f \in Names \ files : t[f] = "none"
  /\ \A f \in files : t[f] \in {"manifest", "separate"}
  /\ \A f \in Out(t) : ~ Chosen(s, f)
  /\ Cardinality(Out(t)) <= MaxNumberSeparate
  /\ \A f \in files \ Out(t) :
       ~ Chosen(s, f) => /\ Cardinality(Out(t)) = MaxNumberSeparate
                         /\ \A g \in Out(t) : Smaller(f, g)

\* If there are two choices of what to take back from the same files, one is part
\* of the other, and then none is smaller.
LEMMA SameOut ==
  ASSUME PlanTypes, files = disk, NEW t, NEW u, NEW s, Final(t, s), Final(u, s)
  PROVE  Out(t) \subseteq Out(u)
<1> DEFINE T == Out(t)
           U == Out(u)
<1>1. /\ T \subseteq files /\ U \subseteq files
      /\ \A f \in T \cup U : ~ Chosen(s, f)
      /\ Cardinality(T) <= MaxNumberSeparate /\ Cardinality(U) <= MaxNumberSeparate
      /\ \A f \in files \ T : ~ Chosen(s, f) =>
            Cardinality(T) = MaxNumberSeparate /\ \A g \in T : Smaller(f, g)
      /\ \A f \in files \ U : ~ Chosen(s, f) =>
            Cardinality(U) = MaxNumberSeparate /\ \A g \in U : Smaller(f, g)
  BY DEF Final, Out
<1> HIDE DEF T, U
<1> SUFFICES ASSUME NEW x \in T, x \notin U PROVE FALSE
  BY DEF T, U
<1>2. Cardinality(U) = MaxNumberSeparate /\ \A g \in U : Smaller(x, g)
  BY <1>1
<1>3. ASSUME NEW y \in U, y \notin T PROVE FALSE
  <2>1. Smaller(y, x) /\ Smaller(x, y)
    BY <1>1, <1>2, <1>3
  <2>2. x \in disk /\ y \in disk
    BY <1>1, <1>3
  <2> QED
    BY <2>1, <2>2, Orders
<1>4. U \subseteq T /\ IsFiniteSet(T)
  BY <1>1, <1>3, PlanAssumption, FS_Subset DEF PlanTypes, TypeOK
<1>5. Cardinality(U) <= Cardinality(T) /\ (Cardinality(T) = Cardinality(U) => T = U)
      /\ Cardinality(T) \in Nat
  <2>1. U \in SUBSET T
    BY <1>4
  <2> QED
    BY <1>4, <2>1, FS_Subset, FS_CardinalityType
<1> QED
  BY <1>1, <1>2, <1>5, PlanAssumption

LEMMA OnePlan ==
  ASSUME PlanTypes, files = disk, NEW t, NEW u, NEW s, Final(t, s), Final(u, s)
  PROVE  t = u
<1>1. Out(t) \subseteq Out(u) /\ Out(u) \subseteq Out(t)
  BY SameOut
<1>2. ASSUME NEW f \in Names PROVE t[f] = u[f]
  BY <1>1 DEF Final, Out
<1>3. t = [f \in Names |-> t[f]] /\ u = [f \in Names |-> u[f]]
  BY DEF Final
<1> QED
  BY <1>2, <1>3

\* What the files are and in which order they come depends on the directory only.
LEMMA TraceStays ==
  ASSUME UNCHANGED <<dirVars, files>>
  PROVE  /\ \A f, g : Before(f, g)' = Before(f, g)
         /\ \A f, g : Smaller(f, g)' = Smaller(f, g)
         /\ \A C, s : Trace(C, s)' <=> Trace(C, s)
         /\ \A t, s : Final(t, s)' <=> Final(t, s)
         /\ \A s, f : Chosen(s, f)' <=> Chosen(s, f)
         /\ \A c, f : After(c, f)' = After(c, f)
         /\ \A f, g : Follows(f, g)' <=> Follows(f, g)
         /\ Start' = Start
<1>1. \A f, g : /\ Before(f, g)' = Before(f, g)
                /\ Smaller(f, g)' = Smaller(f, g)
  BY DEF Before, Smaller, Class, dirVars
<1>2. \A c, f : Room(c, f)' <=> Room(c, f)
  BY DEF Room, dirVars
<1>3. \A c, f : After(c, f)' = After(c, f)
  BY <1>2 DEF After, dirVars
<1>4. Start' = Start
  BY DEF Start, ActivelinkFits, dirVars
<1>5. \A f, g : (First(f)' <=> First(f)) /\ (Follows(f, g)' <=> Follows(f, g))
  BY <1>1 DEF First, Follows
<1>6. \A C, s : Trace(C, s)' <=> Trace(C, s)
  BY <1>3, <1>4, <1>5 DEF Trace
<1>7. \A s, f : Chosen(s, f)' <=> Chosen(s, f)
  BY <1>2 DEF Chosen
<1>8. \A t, s : Final(t, s)' <=> Final(t, s)
  <2>1. \A t : Out(t)' = Out(t)
    BY DEF Out
  <2> QED
    BY <1>1, <1>7, <2>1 DEF Final
<1> QED
  BY <1>1, <1>3, <1>4, <1>5, <1>6, <1>7, <1>8

--------------------------------------------------------------------------------
\* Files without a record have no target.
NoneOutside == \A f \in Names \ files : target[f] = "none"

\* What has been chosen so far, and taken back.
ByTrace(s) ==
  /\ \A f \in files \ left :
       target[f] = IF Chosen(s, f) \/ f \in forced THEN "manifest" ELSE "separate"
  /\ \A f \in forced : ~ Chosen(s, f)

\* The loop so far: where it is, and what it has chosen.
Built(s) ==
  /\ Trace(files \ left, s) /\ ByTrace(s)
  /\ left # {} =>
       /\ left = files => Now = Start
       /\ \A f \in files \ left :
            (\A g \in (files \ left) \ {f} : Before(g, f)) => Now = After(s[f], f)

BuiltInv ==
  /\ pc = "choose" => \E s : Built(s)
  /\ pc = "upload" => \E s : Trace(files, s) /\ Final(target, s)

\* The loop does what it did the last time, which chose as s says and ended with
\* the plan t; only for files that were taken back then an update is needed.
Repeats(t, s) ==
  /\ Trace(files, s) /\ Final(t, s)
  /\ pc = "choose" => ByTrace(s) /\ \A f : IsNext(f) => Now = s[f]
  /\ \A f \in files : (pc = "choose" => f \in left) => target[f] = t[f]
  /\ needToUpdate => \E f \in files : ~ Chosen(s, f) /\ t[f] = "manifest"

\* The last plan is kept until the user edits something.
KeptInv ==
  plan # NoPlan =>
    /\ pc = "idle" =>
         /\ target = plan /\ files = disk /\ changed = {} /\ Separate \subseteq uri
         /\ \E s : Trace(files, s) /\ Final(plan, s)
    /\ pc \in {"mark", "choose"} => \E s : Repeats(plan, s)

RepeatInv == NoneOutside /\ BuiltInv /\ KeptInv

\* When the loop is through, the targets are those of its trace.
LEMMA PlanFinal ==
  ASSUME PlanTypes, ChooseInv, NoneOutside, Planned, NEW s, ByTrace(s)
  PROVE  Final(target, s)
<1>1. /\ pc = "choose" /\ left = {} /\ ~ TooMany /\ TakenBack /\ files = disk
  BY DEF Planned, ChooseInv, PlanTypes, TypeOK
<1>2. \A f \in files : target[f] = IF Chosen(s, f) \/ f \in forced THEN "manifest" ELSE "separate"
  BY <1>1 DEF ByTrace
<1>3. Out(target) = Separate
  BY <1>2 DEF Out, Separate, Inside
<1>4. IsFiniteSet(Separate)
  BY PlanAssumption, FS_Subset DEF Separate, PlanTypes, TypeOK
<1>5. Cardinality(Separate) \in Nat
  BY <1>4, FS_CardinalityType
<1>6. Cardinality(Separate) <= MaxNumberSeparate
  BY <1>1, <1>5, PlanAssumption DEF TooMany
<1>7. \A f \in files \ Separate : ~ Chosen(s, f) => f \in forced
  BY <1>2 DEF Separate, Inside
<1>8. forced # {} => /\ Cardinality(Separate) = MaxNumberSeparate
                     /\ \A f \in forced, g \in Separate : Smaller(f, g)
  BY <1>1, <1>5, <1>6, PlanAssumption DEF TakenBack
<1>9. \A f \in Separate : ~ Chosen(s, f)
  BY <1>2 DEF Separate, Inside
<1>10. target \in [Names -> Targets] /\ \A f \in Names \ files : target[f] = "none"
  BY DEF PlanTypes, TypeOK, NoneOutside
<1> QED
  BY <1>2, <1>3, <1>6, <1>7, <1>8, <1>9, <1>10 DEF Final

\* One more file is looked at.
LEMMA CountOn ==
  ASSUME PlanTypes, NEW f \in Names, Consider(f)
  PROVE  /\ Now' = After(Now, f)
         /\ target'[f] = IF f \in Special \/ Room(Now, f) THEN "manifest" ELSE "separate"
         /\ \A g \in Names \ {f} : target'[g] = target[g]
<1>1. Fits(f) <=> Room(Now, f)
  BY DEF Fits, Room, Now
<1>2. Now.tot = totalsize /\ Now.max = maxsize
  BY DEF Now
<1>3. Now' = After(Now, f)
  BY <1>1, <1>2 DEF Consider, Now, After
<1>4. target'[f] = IF f \in Special \/ Room(Now, f) THEN "manifest" ELSE "separate"
  BY <1>1 DEF Consider, PlanTypes, TypeOK
<1> QED
  BY <1>3, <1>4 DEF Consider, PlanTypes, TypeOK

LEMMA BuiltConsider ==
  ASSUME PlanTypes, ChooseInv, NEW f \in Names, Consider(f), NEW s, Built(s)
  PROVE  \E r : Built(r)'
<1> DEFINE C == files \ left
           D == C \cup {f}
<1>0. PICK r : r = [g \in D |-> IF g = f THEN Now ELSE s[g]]
  OBVIOUS
<1>1. /\ f \in left /\ left \subseteq files /\ files = disk /\ forced' = forced
      /\ left' = left \ {f} /\ UNCHANGED <<dirVars, files>> /\ f \notin C
      /\ \A g \in left \ {f} : Before(f, g)
      /\ forced = {} /\ files \subseteq Names
  BY DEF Consider, IsNext, PlanTypes, TypeOK, LoopInv, ChooseInv, TakenBack
<1>2. files' \ left' = D
  BY <1>1
<1>3. \A g \in C : Before(g, f)
  BY <1>1 DEF ChooseInv, LoopOrder, Consider
<1>4. \A g \in D, h \in D : ~ (Before(g, h) /\ Before(h, g))
  BY <1>1, Orders
<1>5. r[f] = Now /\ \A g \in C : r[g] = s[g]
  BY <1>0, <1>1
<1>6. r = [g \in D |-> r[g]]
  BY <1>0
<1>7. \A g \in D : First(g) => r[g] = Start
  <2> SUFFICES ASSUME NEW g \in D, First(g) PROVE r[g] = Start
    OBVIOUS
  <2>1. CASE g \in C
    BY <1>5, <2>1 DEF Built, Trace
  <2>2. CASE g = f
    <3>1. C = {}
      BY <1>1, <1>3, <1>4, <2>2 DEF First
    <3>2. left = files /\ left # {}
      BY <1>1, <3>1
    <3> QED
      BY <1>5, <2>2, <3>2 DEF Built
  <2> QED
    BY <2>1, <2>2
<1>8. \A g \in D, h \in D : Follows(g, h) => r[h] = After(r[g], g)
  <2> SUFFICES ASSUME NEW g \in D, NEW h \in D, Follows(g, h) PROVE r[h] = After(r[g], g)
    OBVIOUS
  <2>1. CASE g \in C /\ h \in C
    BY <1>5, <2>1 DEF Built, Trace
  <2>2. g # f
    BY <1>3, <1>4 DEF Follows
  <2>3. CASE g \in C /\ h = f
    <3>1. ASSUME NEW k \in C \ {g} PROVE Before(k, g)
      BY <1>1, <1>3, <2>3, Orders DEF Follows
    <3> QED
      BY <1>1, <1>5, <2>3, <3>1 DEF Built
  <2> QED
    BY <2>1, <2>2, <2>3
<1>9. Trace(D, r)
  BY <1>6, <1>7, <1>8 DEF Trace
<1>10. Now' = After(Now, f)
  BY CountOn
<1>11. \A g \in D : (\A h \in D \ {g} : Before(h, g)) => Now' = After(r[g], g)
  <2> SUFFICES ASSUME NEW g \in D, \A h \in D \ {g} : Before(h, g)
               PROVE  Now' = After(r[g], g)
    OBVIOUS
  <2>1. g = f
    BY <1>3, <1>4
  <2> QED
    BY <1>5, <1>10, <2>1
<1>12. \A g \in D : target'[g] = IF Chosen(r, g) THEN "manifest" ELSE "separate"
  <2> SUFFICES ASSUME NEW g \in D
               PROVE  target'[g] = IF Chosen(r, g) THEN "manifest" ELSE "separate"
    OBVIOUS
  <2>1. CASE g = f
    BY <1>5, <2>1, CountOn DEF Chosen
  <2>2. CASE g \in C
    <3>1. target'[g] = target[g]
      BY <1>1, <2>2, CountOn
    <3>2. Chosen(r, g) <=> Chosen(s, g)
      BY <1>5, <2>2 DEF Chosen
    <3> QED
      BY <1>1, <2>2, <3>1, <3>2 DEF Built, ByTrace
  <2> QED
    BY <2>1, <2>2
<1>13. ByTrace(r)'
  BY <1>1, <1>2, <1>12, TraceStays DEF ByTrace
<1>14. Trace(files \ left, r)'
  BY <1>1, <1>2, <1>9, TraceStays
<1>15. left' # files'
  BY <1>1
<1>16. \A g \in (files \ left)' : (\A h \in (files \ left)' \ {g} : Before(h, g)') => Now' = After(r[g], g)'
  BY <1>1, <1>2, <1>11, TraceStays
<1> QED
  BY <1>13, <1>14, <1>15, <1>16 DEF Built

\* The loop starts as MarkSpecial leaves it.
LEMMA MarkStarts ==
  ASSUME PlanTypes, MarkSpecial
  PROVE  /\ Now' = Start
         /\ left' = files /\ forced' = {} /\ UNCHANGED <<dirVars, files>>
         /\ \A f \in files : target'[f] = IF f = Index \/ (f = Activelink /\ ActivelinkFits)
                                          THEN "manifest" ELSE target[f]
         /\ \A f \in Names \ files : target'[f] = target[f]
<1>1. /\ totalsize' = IF ActivelinkFits THEN size[Activelink] ELSE MetadataSize + size[Index]
      /\ maxsize' = IF ActivelinkFits THEN MaxManifestSize + RedirectSize + RedirectSize
                                      ELSE MaxManifestSize + RedirectSize
      /\ target' = [f \in Names |-> IF f = Index \/ (f = Activelink /\ ActivelinkFits)
                                    THEN "manifest" ELSE target[f]]
  BY DEF MarkSpecial, ActivelinkFits
<1>2. Now' = Start
  BY <1>1 DEF Now, Start
<1>3. ActivelinkFits => Activelink \in files
  BY DEF ActivelinkFits
<1>4. Index \in files /\ files \subseteq Names
  BY DEF MarkSpecial, PlanTypes, TypeOK
<1> QED
  BY <1>1, <1>2, <1>3, <1>4 DEF MarkSpecial

LEMMA BuiltMark ==
  ASSUME PlanTypes, MarkSpecial
  PROVE  \E r : Built(r)'
<1> DEFINE r == [g \in {} |-> Start]
<1>1. Trace({}, r)
  BY DEF Trace
<1>2. /\ left' = files' /\ forced' = {} /\ Now' = Start' /\ UNCHANGED <<dirVars, files>>
      /\ files' \ left' = {}
  BY MarkStarts, TraceStays
<1>3. Trace(files \ left, r)'
  BY <1>1, <1>2, TraceStays
<1>4. ByTrace(r)'
  BY <1>2 DEF ByTrace
<1>5. Built(r)'
  BY <1>2, <1>3, <1>4 DEF Built
<1> QED
  BY <1>5

LEMMA BuiltTakeBack ==
  ASSUME PlanTypes, NEW f \in Names, TakeBack(f), NEW s, Built(s)
  PROVE  Built(s)'
<1>1. /\ left = {} /\ left' = {} /\ forced' = forced \cup {f}
      /\ UNCHANGED <<dirVars, files>> /\ f \in files
      /\ target' = [target EXCEPT ![f] = "manifest"]
      /\ target[f] # "manifest" /\ target \in [Names -> Targets]
  BY DEF TakeBack, Separate, Inside, PlanTypes, TypeOK
<1>2. ~ Chosen(s, f)
  BY <1>1 DEF Built, ByTrace
<1>3. /\ \A g \in files :
           target'[g] = IF Chosen(s, g) \/ g \in forced' THEN "manifest" ELSE "separate"
      /\ \A g \in forced' : ~ Chosen(s, g)
  <2> USE DEF PlanTypes, TypeOK
  <2>1. \A g \in files \ {f} : target'[g] = target[g]
    BY <1>1
  <2>2. target'[f] = "manifest"
    BY <1>1
  <2> QED
    BY <1>1, <1>2, <2>1, <2>2 DEF Built, ByTrace
<1>4. ByTrace(s)'
  BY <1>1, <1>3, TraceStays DEF ByTrace
<1>5. Trace(files \ left, s)'
  BY <1>1, TraceStays DEF Built
<1> QED
  BY <1>1, <1>4, <1>5 DEF Built

LEMMA BuiltNext ==
  ASSUME PlanTypes, ChooseInv, NoneOutside, BuiltInv, [Next]_vars
  PROVE  BuiltInv'
<1>1. ASSUME NEW f \in Names, NEW s \in Sizes, Edit(f, s) PROVE BuiltInv'
  BY <1>1 DEF Edit, BuiltInv
<1>2. ASSUME NEW f \in Names, Delete(f) PROVE BuiltInv'
  BY <1>2 DEF Delete, BuiltInv
<1>3. ASSUME NEW f \in Names, Consider(f) PROVE BuiltInv'
  <2>1. PICK s : Built(s)
    BY <1>3 DEF Consider, BuiltInv
  <2>2. \E r : Built(r)'
    BY <1>3, <2>1, BuiltConsider
  <2> QED
    BY <1>3, <2>2 DEF Consider, BuiltInv
<1>4. ASSUME NEW f \in Names, TakeBack(f) PROVE BuiltInv'
  <2>1. PICK s : Built(s)
    BY <1>4 DEF TakeBack, BuiltInv
  <2>2. Built(s)'
    BY <1>4, <2>1, BuiltTakeBack
  <2> QED
    BY <1>4, <2>2 DEF TakeBack, BuiltInv
<1>5. CASE MarkSpecial
  <2>1. \E r : Built(r)'
    BY <1>5, BuiltMark
  <2> QED
    BY <1>5, <2>1 DEF MarkSpecial, BuiltInv
<1>6. CASE Upload
  <2>1. PICK s : Built(s)
    BY <1>6 DEF Upload, Planned, BuiltInv
  <2>2. left = {} /\ files \ left = files
    BY <1>6 DEF Upload, Planned
  <2>3. Trace(files, s) /\ Final(target, s)
    BY <1>6, <2>1, <2>2, PlanFinal DEF Upload, Built
  <2>4. UNCHANGED <<dirVars, files, target>> /\ pc' = "upload"
    BY <1>6 DEF Upload
  <2>5. Trace(files, s)' /\ Final(target, s)'
    BY <2>3, <2>4, TraceStays
  <2> QED
    BY <2>4, <2>5 DEF BuiltInv
<1>7. CASE UNCHANGED vars
  <2>1. /\ UNCHANGED <<dirVars, files>>
        /\ UNCHANGED <<target, left, forced, totalsize, maxsize, pc>>
    BY <1>7 DEF vars, recVars, planVars
  <2>2. Now' = Now
    BY <2>1 DEF Now
  <2>3. \A s : (ByTrace(s)' <=> ByTrace(s))
    BY <2>1, TraceStays DEF ByTrace
  <2>4. \A s : Trace(files \ left, s)' <=> Trace(files \ left, s)
    BY <2>1, TraceStays
  <2>5. \A s : Built(s)' <=> Built(s)
    BY <2>1, <2>2, <2>3, <2>4, TraceStays DEF Built
  <2>6. \A s : (Trace(files, s)' <=> Trace(files, s)) /\ (Final(target, s)' <=> Final(target, s))
    BY <2>1, TraceStays
  <2> QED
    BY <2>1, <2>5, <2>6 DEF BuiltInv
<1>8. Scan \/ NoUpdate \/ MakeManifest => BuiltInv'
  BY DEF Scan, NoUpdate, MakeManifest, Done, BuiltInv
<1> QED
  BY <1>1, <1>2, <1>3, <1>4, <1>5, <1>6, <1>7, <1>8 DEF Next

LEMMA OutsideNext ==
  ASSUME PlanTypes, NoneOutside, [Next]_vars
  PROVE  NoneOutside'
<1>1. ASSUME NEW f \in Names, NEW s \in Sizes, Edit(f, s) PROVE NoneOutside'
  BY <1>1 DEF Edit, NoneOutside
<1>2. ASSUME NEW f \in Names, Delete(f) PROVE NoneOutside'
  BY <1>2 DEF Delete, recVars, NoneOutside
<1>3. ASSUME NEW f \in Names, Consider(f) PROVE NoneOutside'
  <2>1. f \in files /\ files' = files /\ \A g \in Names \ {f} : target'[g] = target[g]
    BY <1>3 DEF Consider, IsNext, PlanTypes, TypeOK, LoopInv
  <2> QED
    BY <2>1 DEF NoneOutside
<1>4. ASSUME NEW f \in Names, TakeBack(f) PROVE NoneOutside'
  <2>1. f \in files /\ files' = files /\ \A g \in Names \ {f} : target'[g] = target[g]
    BY <1>4 DEF TakeBack, Separate, PlanTypes, TypeOK
  <2> QED
    BY <2>1 DEF NoneOutside
<1>5. CASE MarkSpecial
  BY <1>5, MarkStarts DEF NoneOutside
<1>6. CASE Scan
  BY <1>6 DEF Scan, NoneOutside
<1>7. CASE NoUpdate \/ Upload \/ MakeManifest \/ UNCHANGED vars
  BY <1>7 DEF NoUpdate, Upload, MakeManifest, vars, recVars, NoneOutside
<1> QED
  BY <1>1, <1>2, <1>3, <1>4, <1>5, <1>6, <1>7 DEF Next

--------------------------------------------------------------------------------
\* scan finds nothing to update where nothing was edited since the last plan.
LEMMA KeptScan ==
  ASSUME PlanTypes, KeptInv, Scan
  PROVE  KeptInv'
<1> SUFFICES ASSUME plan # NoPlan PROVE \E s : Repeats(plan, s)'
  BY DEF Scan, KeptInv
<1>1. /\ target = plan /\ files = disk /\ changed = {} /\ Separate \subseteq uri
      /\ pc' = "mark" /\ UNCHANGED <<dirVars, files, plan>>
      /\ \A f \in files : target'[f] = target[f]
      /\ needToUpdate' = (~ files \subseteq disk \/ changed' # {})
      /\ changed' = (changed \cap disk) \cup (disk \ files) \cup (disk \ (Inside \cup uri))
  BY DEF Scan, KeptInv, PlanTypes, TypeOK
<1>2. PICK s : Trace(files, s) /\ Final(plan, s)
  BY DEF Scan, KeptInv
<1>3. ~ needToUpdate'
  BY <1>1 DEF Separate
<1>4. Trace(files, s)' /\ Final(plan, s)'
  BY <1>1, <1>2, TraceStays
<1>5. Repeats(plan, s)'
  BY <1>1, <1>3, <1>4 DEF Repeats
<1> QED
  BY <1>5

LEMMA KeptMark ==
  ASSUME PlanTypes, KeptInv, MarkSpecial
  PROVE  KeptInv'
<1> SUFFICES ASSUME plan # NoPlan PROVE \E s : Repeats(plan, s)'
  BY DEF MarkSpecial, KeptInv
<1>1. PICK s : Repeats(plan, s)
  BY DEF MarkSpecial, KeptInv
<1>2. /\ pc = "mark" /\ pc' = "choose" /\ UNCHANGED <<plan, needToUpdate>>
  BY DEF MarkSpecial
<1>3. /\ Now' = Start /\ left' = files /\ forced' = {} /\ UNCHANGED <<dirVars, files>>
      /\ \A f \in files : target'[f] = IF f = Index \/ (f = Activelink /\ ActivelinkFits)
                                       THEN "manifest" ELSE target[f]
  BY MarkStarts
<1>4. \A f \in files : target'[f] = plan[f]
  <2>1. \A f \in files : target[f] = plan[f]
    BY <1>1, <1>2 DEF Repeats
  <2>2. \A f \in files \cap Special : plan[f] = "manifest"
    BY <1>1 DEF Repeats, Final, Chosen, Out
  <2> QED
    BY <1>3, <2>1, <2>2 DEF Special
<1>5. \A f : IsNext(f)' => Now' = s[f]
  BY <1>1, <1>3, TraceStays DEF IsNext, Repeats, Trace, First
<1>6. ByTrace(s)'
  BY <1>3 DEF ByTrace
<1>7. Trace(files, s)' /\ Final(plan, s)'
  BY <1>1, <1>2, <1>3, TraceStays DEF Repeats
<1>8. needToUpdate' => \E f \in files' : ~ Chosen(s, f)' /\ plan'[f] = "manifest"
  BY <1>1, <1>2, <1>3, TraceStays DEF Repeats
<1>9. Repeats(plan, s)'
  BY <1>2, <1>3, <1>4, <1>5, <1>6, <1>7, <1>8 DEF Repeats
<1> QED
  BY <1>9

\* The loop comes to the same files with the same counts.
LEMMA KeptConsider ==
  ASSUME PlanTypes, ChooseInv, KeptInv, NEW f \in Names, Consider(f)
  PROVE  KeptInv'
<1> SUFFICES ASSUME plan # NoPlan PROVE \E s : Repeats(plan, s)'
  BY DEF Consider, KeptInv
<1>1. PICK s : Repeats(plan, s)
  BY DEF Consider, KeptInv
<1>2. /\ pc = "choose" /\ pc' = "choose" /\ IsNext(f) /\ f \in left
      /\ left \subseteq files /\ files = disk /\ forced' = forced /\ forced = {}
      /\ left' = left \ {f} /\ UNCHANGED <<dirVars, files, plan>>
      /\ \A g \in left \ {f} : Before(f, g)
      /\ \A g \in files \ left : Before(g, f)
      /\ files \subseteq Names
  BY DEF Consider, IsNext, PlanTypes, TypeOK, LoopInv, ChooseInv, TakenBack, LoopOrder
<1>3. Now = s[f]
  BY <1>1, <1>2 DEF Repeats
<1>4. /\ Now' = After(s[f], f)
      /\ target'[f] = IF Chosen(s, f) THEN "manifest" ELSE "separate"
      /\ \A g \in Names \ {f} : target'[g] = target[g]
  BY <1>3, CountOn DEF Chosen
<1>5. \A g : IsNext(g)' => Now' = s[g]
  <2> SUFFICES ASSUME NEW g, IsNext(g)' PROVE Now' = s[g]
    OBVIOUS
  <2>1. g \in left /\ g # f /\ g \in files /\ \A h \in left' \ {g} : Before(g, h)
    BY <1>2, TraceStays DEF IsNext
  <2>2. ASSUME NEW h \in files, Before(f, h), Before(h, g) PROVE FALSE
    BY <1>2, <2>1, <2>2, Orders
  <2>3. Follows(f, g)
    BY <1>2, <2>1, <2>2 DEF Follows
  <2>4. s[g] = After(s[f], f)
    BY <1>1, <1>2, <2>1, <2>3 DEF Repeats, Trace
  <2> QED
    BY <1>4, <2>4
<1>6. \A g \in files' \ left' : target'[g] = IF Chosen(s, g) THEN "manifest" ELSE "separate"
  BY <1>1, <1>2, <1>4 DEF Repeats, ByTrace
<1>7. ByTrace(s)'
  BY <1>2, <1>6, TraceStays DEF ByTrace
<1>8. \A g \in files' : g \in left' => target'[g] = plan'[g]
  BY <1>1, <1>2, <1>4 DEF Repeats
<1>9. needToUpdate' => \E g \in files' : ~ Chosen(s, g)' /\ plan'[g] = "manifest"
  <2>1. CASE needToUpdate' = needToUpdate
    BY <1>1, <1>2, <2>1, TraceStays DEF Repeats
  <2>2. CASE needToUpdate' # needToUpdate
    <3>1. f \in Inside /\ target'[f] = "separate"
      BY <2>2 DEF Consider, PlanTypes, TypeOK
    <3>2. plan[f] = "manifest" /\ ~ Chosen(s, f)
      BY <1>1, <1>2, <1>4, <3>1 DEF Repeats, Inside
    <3> QED
      BY <1>2, <3>2, TraceStays
  <2> QED
    BY <2>1, <2>2
<1>10. Trace(files, s)' /\ Final(plan, s)'
  BY <1>1, <1>2, TraceStays DEF Repeats
<1>11. Repeats(plan, s)'
  BY <1>2, <1>5, <1>7, <1>8, <1>9, <1>10 DEF Repeats
<1> QED
  BY <1>11

LEMMA KeptTakeBack ==
  ASSUME PlanTypes, KeptInv, NEW f \in Names, TakeBack(f)
  PROVE  KeptInv'
<1> SUFFICES ASSUME plan # NoPlan PROVE \E s : Repeats(plan, s)'
  BY DEF TakeBack, KeptInv
<1>1. PICK s : Repeats(plan, s)
  BY DEF TakeBack, KeptInv
<1>2. /\ pc = "choose" /\ pc' = "choose" /\ left = {} /\ left' = {}
      /\ forced' = forced \cup {f} /\ f \in files /\ files \subseteq Names
      /\ UNCHANGED <<dirVars, files, plan, needToUpdate>>
      /\ target' = [target EXCEPT ![f] = "manifest"]
      /\ target[f] # "manifest" /\ target \in [Names -> Targets]
  BY DEF TakeBack, Separate, Inside, PlanTypes, TypeOK
<1>3. ~ Chosen(s, f)
  BY <1>1, <1>2 DEF Repeats, ByTrace
<1>4. /\ \A g \in files :
           target'[g] = IF Chosen(s, g) \/ g \in forced' THEN "manifest" ELSE "separate"
      /\ \A g \in forced' : ~ Chosen(s, g)
  <2>1. \A g \in files \ {f} : target'[g] = target[g]
    BY <1>2
  <2>2. target'[f] = "manifest"
    BY <1>2
  <2> QED
    BY <1>1, <1>2, <1>3, <2>1, <2>2 DEF Repeats, ByTrace
<1>5. ByTrace(s)'
  BY <1>2, <1>4, TraceStays DEF ByTrace
<1>6. Trace(files, s)' /\ Final(plan, s)'
  BY <1>1, <1>2, TraceStays DEF Repeats
<1>7. needToUpdate' => \E g \in files' : ~ Chosen(s, g)' /\ plan'[g] = "manifest"
  BY <1>1, <1>2, TraceStays DEF Repeats
<1>8. Repeats(plan, s)'
  BY <1>2, <1>5, <1>6, <1>7 DEF Repeats, IsNext
<1> QED
  BY <1>8

\* A run that inserts nothing leaves its plan, as one that inserts a manifest does.
LEMMA KeptNoUpdate ==
  ASSUME PlanTypes, ChooseInv, RecordInv, NoneOutside, BuiltInv, NoUpdate
  PROVE  KeptInv'
<1>1. /\ pc = "choose" /\ left = {} /\ files = disk /\ Planned /\ ~ needToUpdate
      /\ UNCHANGED <<dirVars, files, target, uri, changed>>
      /\ pc' = "idle" /\ plan' = target
  BY DEF NoUpdate, Planned, Done, PlanTypes, TypeOK
<1>2. changed = {} /\ Separate \subseteq uri
  BY <1>1 DEF RecordInv, ChangedInv
<1>3. PICK s : Built(s)
  BY <1>1 DEF BuiltInv
<1>4. Trace(files, s) /\ Final(target, s)
  <2>1. files \ left = files
    BY <1>1
  <2> QED
    BY <1>1, <1>3, <2>1, PlanFinal DEF Built
<1>5. Trace(files, s)' /\ Final(plan, s)'
  BY <1>1, <1>4, TraceStays
<1>6. files' = disk' /\ Separate' \subseteq uri'
  BY <1>1, <1>2 DEF dirVars, Separate, Inside
<1> QED
  BY <1>1, <1>2, <1>5, <1>6 DEF KeptInv

LEMMA KeptManifest ==
  ASSUME PlanTypes, RecordInv, BuiltInv, MakeManifest
  PROVE  KeptInv'
<1>1. /\ pc = "upload" /\ files = disk
      /\ UNCHANGED <<dirVars, files, target, uri>>
      /\ changed' = changed \ (Inside \cup uri \cup {Index, Sitemap})
      /\ pc' = "idle" /\ plan' = target
  BY DEF MakeManifest, Done, PlanTypes, TypeOK
<1>2. Separate \subseteq uri
  BY <1>1 DEF RecordInv, UploadInv
<1>3. changed' = {}
  BY <1>1, <1>2 DEF Separate, PlanTypes, TypeOK
<1>4. PICK s : Trace(files, s) /\ Final(target, s)
  BY <1>1 DEF BuiltInv
<1>5. Trace(files, s)' /\ Final(plan, s)'
  BY <1>1, <1>4, TraceStays
<1>6. files' = disk' /\ Separate' \subseteq uri'
  BY <1>1, <1>2 DEF dirVars, Separate, Inside
<1> QED
  BY <1>1, <1>3, <1>5, <1>6 DEF KeptInv

LEMMA KeptStutter ==
  ASSUME KeptInv, UNCHANGED vars
  PROVE  KeptInv'
<1>1. /\ UNCHANGED <<dirVars, files>> /\ disk' = disk
      /\ UNCHANGED <<target, uri, changed, needToUpdate, left, forced, totalsize, maxsize, pc, plan>>
  BY DEF vars, dirVars, recVars, planVars
<1>2. Separate' = Separate /\ Now' = Now
  BY <1>1 DEF Separate, Inside, Now
<1>3. \A s : /\ Trace(files, s)' <=> Trace(files, s)
             /\ Final(plan, s)' <=> Final(plan, s)
             /\ ByTrace(s)' <=> ByTrace(s)
  BY <1>1, TraceStays DEF ByTrace
<1>4. \A f : IsNext(f)' <=> IsNext(f)
  BY <1>1, TraceStays DEF IsNext
<1>5. \A s : Repeats(plan, s)' <=> Repeats(plan, s)
  BY <1>1, <1>2, <1>3, <1>4, TraceStays DEF Repeats
<1> QED
  BY <1>1, <1>2, <1>3, <1>5 DEF KeptInv

LEMMA RepeatNext ==
  ASSUME PlanTypes, ChooseInv, RecordInv, RepeatInv, [Next]_vars
  PROVE  RepeatInv'
<1> USE DEF RepeatInv
<1>1. ASSUME NEW f \in Names, NEW s \in Sizes, Edit(f, s) PROVE KeptInv'
  BY <1>1 DEF Edit, KeptInv, NoPlan
<1>2. ASSUME NEW f \in Names, Delete(f) PROVE KeptInv'
  BY <1>2 DEF Delete, KeptInv, NoPlan
<1>3. ASSUME NEW f \in Names, Consider(f) \/ TakeBack(f) PROVE KeptInv'
  BY <1>3, KeptConsider, KeptTakeBack
<1>4. ASSUME Upload PROVE KeptInv'
  <2>1. pc' = "upload"
    BY <1>4 DEF Upload
  <2> QED
    BY <2>1 DEF KeptInv
<1>5. KeptInv'
  BY <1>1, <1>2, <1>3, <1>4, KeptScan, KeptMark, KeptNoUpdate, KeptManifest, KeptStutter
  DEF Next
<1> QED
  BY <1>5, OutsideNext, BuiltNext

LEMMA RepeatHolds == Spec => [](PlanTypes /\ ChooseInv /\ RecordInv /\ RepeatInv)
<1>1. Init => RepeatInv
  BY DEF Init, RepeatInv, NoneOutside, BuiltInv, KeptInv, NoPlan
<1>2. PlanTypes /\ ChooseInv /\ RecordInv /\ RepeatInv /\ [Next]_vars => RepeatInv'
  BY RepeatNext
<1> QED
  BY RecordsHold, <1>1, <1>2, PTL DEF Spec

\* markManifestFiles decides by what is in the directory, not by what the records
\* say: planned again without an edit, every file gets the target it had.
THEOREM PlansRepeat == Spec => []SamePlan
<1>1. PlanTypes /\ ChooseInv /\ RepeatInv => SamePlan
  <2> SUFFICES ASSUME PlanTypes, ChooseInv, RepeatInv, Planned, plan # NoPlan
               PROVE  target = plan
    BY DEF SamePlan
  <2>1. PICK s : Repeats(plan, s)
    BY DEF RepeatInv, KeptInv, Planned
  <2>2. ByTrace(s) /\ Final(plan, s) /\ files = disk
    BY <2>1 DEF Repeats, Planned, PlanTypes, TypeOK
  <2>3. Final(target, s)
    BY <2>2, PlanFinal DEF RepeatInv
  <2> QED
    BY <2>2, <2>3, OnePlan
<1> QED
  BY <1>1, RepeatHolds, PTL

\* "bail if site is already up to date": insert finds nothing to do in a directory
\* it has planned before, unless the plan has files that were taken back for want
\* of redirects; these the loop leaves out first each time.
THEOREM QuietRuns == Spec => []QuietUnlessForced
<1>1. PlanTypes /\ ChooseInv /\ RepeatInv => QuietUnlessForced
  <2> SUFFICES ASSUME PlanTypes, ChooseInv, RepeatInv, Planned, plan # NoPlan, needToUpdate
               PROVE  forced # {}
    BY DEF QuietUnlessForced
  <2>1. PICK s : Repeats(plan, s)
    BY DEF RepeatInv, KeptInv, Planned
  <2>2. ByTrace(s) /\ Final(plan, s) /\ files = disk /\ left = {}
    BY <2>1 DEF Repeats, Planned, PlanTypes, TypeOK
  <2>3. Final(target, s)
    BY <2>2, PlanFinal DEF RepeatInv
  <2>4. target = plan
    BY <2>2, <2>3, OnePlan
  <2>5. PICK f \in files : ~ Chosen(s, f) /\ plan[f] = "manifest"
    BY <2>1 DEF Repeats
  <2> QED
    BY <2>2, <2>4, <2>5 DEF ByTrace
<1> QED
  BY <1>1, RepeatHolds, PTL

--------------------------------------------------------------------------------
\* A sum over a set takes one element after the other.
Some(S) == CHOOSE x \in S : TRUE

IsSum(w, S, g) == g = [s \in SUBSET S |-> IF s = {} THEN 0
                                      ELSE w[Some(s)] + g[s \ {Some(s)}]]

LEMMA SumDef ==
  ASSUME NEW w, NEW S
  PROVE  SumOf(w, S) = (CHOOSE g : IsSum(w, S, g))[S]
  BY DEF SumOf, MapThenSumSet, MapThenFoldSet, IsSum, Some

\* Of sets that are parts of a finite one, some has no other as a part.  This is
\* induction over finite sets, as a fact about their ordering.
LEMMA Smallest ==
  ASSUME NEW U, IsFiniteSet(U), NEW B, B \subseteq SUBSET U, B # {}
  PROVE  \E T \in B : \A V \in SUBSET T : V # T => V \notin B
<1>1. FiniteSubsetsOf(U) = SUBSET U
  BY FS_FiniteSubsetsOfFinite
<1>2. IsWellFoundedOn(StrictSubsetOrdering(U), SUBSET U)
  BY <1>1, FS_StrictSubsetOrderingWellFounded
<1>3. PICK T \in B : \A V \in B : <<V, T>> \notin StrictSubsetOrdering(U)
  BY <1>2, WFMin, Zenon
<1> QED
  BY <1>3 DEF StrictSubsetOrdering

Weights(w, U) == IsFiniteSet(U) /\ \A f \in U : w[f] \in Nat

\* The sum of the sizes of a set of files is that of one of them and of the rest,
LEMMA SumStep ==
  ASSUME NEW w, NEW U, Weights(w, U)
  PROVE  \A S \in SUBSET U : 
            /\ SumOf(w, S) \in Nat
            /\ SumOf(w, S) = IF S = {} THEN 0 ELSE w[Some(S)] + SumOf(w, S \ {Some(S)})
<1> DEFINE Step(s) == IF s = {} THEN 0 ELSE w[Some(s)] + SumOf(w, s \ {Some(s)})
           Good(S) == SumOf(w, S) \in Nat /\ SumOf(w, S) = Step(S)
           B == {S \in SUBSET U : ~ Good(S)}
<1>1. \A S : S # {} => Some(S) \in S
  BY DEF Some
<1>2. SUFFICES ASSUME B # {} PROVE FALSE
  OBVIOUS
<1>3. PICK S \in B : \A V \in SUBSET S : V # S => V \notin B
  <2>1. B \subseteq SUBSET U /\ IsFiniteSet(U)
    BY DEF Weights
  <2> HIDE DEF B
  <2> QED
    BY <1>2, <2>1, Smallest
<1>4. \A V \in SUBSET S : V # S => Good(V)
  BY <1>3
<1>5. \A s \in SUBSET S : s # {} => /\ s \ {Some(s)} \in SUBSET S /\ s \ {Some(s)} # S
                                    /\ w[Some(s)] \in Nat
  BY <1>1, <1>3 DEF Weights
<1> HIDE DEF B
<1> DEFINE h == [s \in SUBSET S |-> Step(s)]
<1>6. IsSum(w, S, h)
  <2>1. \A s \in SUBSET S : s # {} => h[s \ {Some(s)}] = SumOf(w, s \ {Some(s)})
    BY <1>4, <1>5
  <2> QED
    BY <2>1 DEF IsSum
<1> DEFINE g == CHOOSE k : IsSum(w, S, k)
<1>7. IsSum(w, S, g)
  BY <1>6
<1>8. SumOf(w, S) = g[S]
  BY SumDef
<1> HIDE DEF g, h
<1>9. \A s \in SUBSET S : g[s] = IF s = {} THEN 0 ELSE w[Some(s)] + g[s \ {Some(s)}]
  BY <1>7 DEF IsSum
<1>10. \A T \in SUBSET S : T # S => g[T] = SumOf(w, T)
  <2> DEFINE C == {T \in SUBSET S : T # S /\ g[T] # SumOf(w, T)}
  <2>1. SUFFICES ASSUME C # {} PROVE FALSE
    OBVIOUS
  <2>2. C \subseteq SUBSET U
    BY <1>3 DEF B
  <2>3. PICK T \in C : \A V \in SUBSET T : V # T => V \notin C
    <3>1. IsFiniteSet(U)
      BY DEF Weights
    <3> HIDE DEF C
    <3> QED
      BY <2>1, <2>2, <3>1, Smallest
  <2>4. T # {} => g[T \ {Some(T)}] = SumOf(w, T \ {Some(T)})
    BY <1>1, <1>5, <2>3
  <2>5. g[T] = Step(T)
    BY <1>9, <2>3, <2>4
  <2> QED
    BY <1>4, <2>3, <2>5
<1>11. g[S] = Step(S)
  BY <1>5, <1>9, <1>10
<1>12. Step(S) \in Nat
  <2>1. S # {} => SumOf(w, S \ {Some(S)}) \in Nat /\ w[Some(S)] \in Nat
    BY <1>4, <1>5
  <2> QED
    BY <2>1
<1> QED
  BY <1>3, <1>8, <1>11, <1>12 DEF B

\* whichever this one is: what Consider adds to the total may be any file.
LEMMA SumWithout ==
  ASSUME NEW w, NEW U, Weights(w, U)
  PROVE  \A S \in SUBSET U : \A x \in S : SumOf(w, S) = w[x] + SumOf(w, S \ {x})
<1> DEFINE B == {S \in SUBSET U : \E x \in S : SumOf(w, S) # w[x] + SumOf(w, S \ {x})}
<1>1. SUFFICES ASSUME B # {} PROVE FALSE
  OBVIOUS
<1>2. PICK S \in B : \A V \in SUBSET S : V # S => V \notin B
  <2>1. B \subseteq SUBSET U /\ IsFiniteSet(U)
    BY DEF Weights
  <2> HIDE DEF B
  <2> QED
    BY <1>1, <2>1, Smallest
<1>3. PICK x \in S : SumOf(w, S) # w[x] + SumOf(w, S \ {x})
  BY <1>2
<1>4. PICK c \in S : SumOf(w, S) = w[c] + SumOf(w, S \ {c})
  BY <1>3, SumStep DEF Some
<1>5. x # c
  BY <1>3, <1>4
<1>6. (S \ {x}) \ {c} = (S \ {c}) \ {x}
  OBVIOUS
<1>7. SumOf(w, S \ {c}) = w[x] + SumOf(w, (S \ {x}) \ {c})
  <2>1. SumOf(w, S \ {c}) = w[x] + SumOf(w, (S \ {c}) \ {x})
    BY <1>2, <1>5
  <2> QED
    BY <1>6, <2>1
<1>8. SumOf(w, S \ {x}) = w[c] + SumOf(w, (S \ {x}) \ {c})
  BY <1>2, <1>5
<1>9. SumOf(w, (S \ {x}) \ {c}) \in Nat /\ w[x] \in Nat /\ w[c] \in Nat
  BY <1>2, SumStep DEF Weights
<1> QED
  BY <1>3, <1>4, <1>7, <1>8, <1>9

\* Files in the manifest that the loop chose for their size.
TakenIn == (Inside \ left) \ Special

\* The total is where it started and the files taken in since; there is room for
\* one redirect more with each of them, and after each the total and a redirect for
\* each file were within the limit.
CountInv ==
  pc = "choose" /\ forced = {} =>
    /\ totalsize = Start.tot + SumOf(size, TakenIn)
    /\ maxsize = Start.max + RedirectSize * Cardinality(TakenIn)
    /\ TakenIn # {} => totalsize + RedirectSize * Cardinality(files) <= maxsize

\* What is counted are numbers.
LEMMA Sized ==
  ASSUME PlanTypes, files = disk
  PROVE  /\ Weights(size, files) /\ IsFiniteSet(TakenIn) /\ TakenIn \subseteq files
         /\ Cardinality(TakenIn) \in Nat /\ Cardinality(files) \in Nat
         /\ SumOf(size, TakenIn) \in Nat
         /\ Start.tot \in Nat /\ Start.max \in Nat
<1>1. Weights(size, files)
  BY PlanAssumption, FS_Subset DEF Weights, PlanTypes, TypeOK
<1>2. TakenIn \subseteq files
  BY DEF TakenIn, Inside
<1>3. IsFiniteSet(files) /\ IsFiniteSet(TakenIn)
  BY <1>1, <1>2, FS_Subset DEF Weights
<1>4. Cardinality(TakenIn) \in Nat /\ Cardinality(files) \in Nat
  BY <1>3, FS_CardinalityType
<1>5. SumOf(size, TakenIn) \in Nat
  BY <1>1, <1>2, SumStep
<1>6. Index \in files
  BY DEF PlanTypes, TypeOK
<1>7. Activelink \in files => size[Activelink] \in Nat
  BY DEF PlanTypes, TypeOK
<1>8. size[Index] \in Nat /\ {RedirectSize, MetadataSize, MaxManifestSize} \subseteq Nat
  BY <1>6, PlanAssumption DEF PlanTypes, TypeOK
<1>9. ActivelinkFits => Activelink \in files
  BY DEF ActivelinkFits
<1>10. Start.tot \in Nat /\ Start.max \in Nat
  BY <1>7, <1>8, <1>9 DEF Start
<1> QED
  BY <1>1, <1>2, <1>3, <1>4, <1>5, <1>10

\* A file that fits adds its size to the total and the redirect it saves to the
\* limit.
LEMMA CountConsider ==
  ASSUME PlanTypes, CountInv, NEW f \in Names, Consider(f)
  PROVE  CountInv'
<1>1. /\ pc = "choose" /\ f \in left /\ f \in files /\ left \subseteq files /\ files = disk
  BY DEF Consider, IsNext, PlanTypes, TypeOK, LoopInv
<1>2. /\ left' = left \ {f} /\ files' = files /\ size' = size /\ forced' = forced
      /\ \A g \in Names \ {f} : target'[g] = target[g]
      /\ files \subseteq Names
  BY DEF Consider, dirVars, PlanTypes, TypeOK
<1> SUFFICES ASSUME forced = {}
             PROVE  /\ totalsize' = (Start.tot + SumOf(size, TakenIn))'
                    /\ maxsize' = (Start.max + RedirectSize * Cardinality(TakenIn))'
                    /\ TakenIn' # {} => (totalsize + RedirectSize * Cardinality(files) <= maxsize)'
  BY <1>2 DEF CountInv
<1>3. /\ totalsize = Start.tot + SumOf(size, TakenIn)
      /\ maxsize = Start.max + RedirectSize * Cardinality(TakenIn)
      /\ TakenIn # {} => totalsize + RedirectSize * Cardinality(files) <= maxsize
  BY <1>1 DEF CountInv
<1>4. Start' = Start
  BY <1>2 DEF Start, ActivelinkFits
<1>6. SumOf(size, TakenIn)' = SumOf(size, TakenIn')
  BY <1>2
<1>7. \A g \in files \ {f} : g \in TakenIn' <=> g \in TakenIn
  BY <1>2 DEF TakenIn, Inside
<1>8. f \notin TakenIn /\ TakenIn \subseteq files /\ TakenIn' \subseteq files
  BY <1>1, <1>2 DEF TakenIn, Inside
<1>9. f \in TakenIn' <=> f \notin Special /\ target'[f] = "manifest"
  BY <1>1, <1>2 DEF TakenIn, Inside
<1>10. CASE f \notin Special /\ Fits(f)
  <2>1. totalsize' = totalsize + size[f] /\ maxsize' = maxsize + RedirectSize
        /\ target'[f] = "manifest"
    BY <1>10 DEF Consider, PlanTypes, TypeOK
  <2>2. TakenIn' = TakenIn \cup {f}
    BY <1>7, <1>8, <1>9, <1>10, <2>1
  <2>3. Cardinality(TakenIn') = Cardinality(TakenIn) + 1
    BY <1>1, <1>8, <2>2, Sized, FS_AddElement
  <2>4. SumOf(size, TakenIn') = size[f] + SumOf(size, TakenIn)
    <3>1. TakenIn' \ {f} = TakenIn /\ f \in TakenIn' /\ TakenIn' \in SUBSET files
      BY <1>1, <1>8, <2>2
    <3> QED
      BY <1>1, <3>1, Sized, SumWithout
  <2>5. size[f] + totalsize + RedirectSize * Cardinality(files) <= maxsize + RedirectSize
    BY <1>10 DEF Fits
  <2>6. RedirectSize * (Cardinality(TakenIn) + 1)
          = RedirectSize * Cardinality(TakenIn) + RedirectSize
    BY <1>1, Sized, PlanAssumption
  <2>7. /\ size[f] \in Nat /\ totalsize \in Nat /\ maxsize \in Nat
        /\ RedirectSize \in Nat /\ RedirectSize * Cardinality(files) \in Nat
        /\ RedirectSize * Cardinality(TakenIn) \in Nat
        /\ Start.tot \in Nat /\ Start.max \in Nat /\ SumOf(size, TakenIn) \in Nat
    BY <1>1, Sized, PlanAssumption DEF PlanTypes, TypeOK
  <2>8. totalsize' = (Start.tot + SumOf(size, TakenIn))'
    BY <1>3, <1>4, <1>6, <2>1, <2>4, <2>7
  <2>9. maxsize' = (Start.max + RedirectSize * Cardinality(TakenIn))'
    BY <1>3, <1>4, <2>1, <2>3, <2>6, <2>7
  <2>10. totalsize' + RedirectSize * Cardinality(files) <= maxsize'
    BY <2>1, <2>5, <2>7
  <2> QED
    BY <1>2, <2>8, <2>9, <2>10
<1>11. CASE ~ (f \notin Special /\ Fits(f))
  <2>1. totalsize' = totalsize /\ maxsize' = maxsize
        /\ (f \in Special \/ target'[f] = "separate")
    BY <1>11 DEF Consider, PlanTypes, TypeOK
  <2>2. TakenIn' = TakenIn
    BY <1>7, <1>8, <1>9, <2>1
  <2> QED
    BY <1>2, <1>3, <1>4, <1>6, <2>1, <2>2
<1> QED
  BY <1>10, <1>11

\* Nothing is taken in when the loop starts.
LEMMA CountMark ==
  ASSUME PlanTypes, MarkSpecial
  PROVE  CountInv'
<1>1. /\ Now' = Start /\ left' = files /\ UNCHANGED <<dirVars, files>>
      /\ files = disk
  BY MarkStarts DEF MarkSpecial, PlanTypes, TypeOK
<1>2. TakenIn' = {}
  BY <1>1 DEF TakenIn, Inside
<1>3. Start' = Start
  BY <1>1 DEF Start, ActivelinkFits, dirVars
<1>4. SumOf(size, TakenIn)' = 0
  <2>1. SumOf(size, TakenIn)' = SumOf(size, {})
    BY <1>1, <1>2 DEF dirVars
  <2>2. {} \in SUBSET files
    OBVIOUS
  <2> QED
    BY <1>1, <2>1, <2>2, Sized, SumStep
<1>5. Cardinality(TakenIn)' = 0
  BY <1>2, FS_EmptySet
<1>6. totalsize' = Start.tot /\ maxsize' = Start.max
  BY <1>1 DEF Now
<1>7. Start.tot \in Nat /\ Start.max \in Nat /\ RedirectSize \in Nat
  BY <1>1, Sized, PlanAssumption
<1> QED
  BY <1>2, <1>3, <1>4, <1>5, <1>6, <1>7 DEF CountInv

LEMMA CountStutter ==
  ASSUME CountInv, UNCHANGED vars
  PROVE  CountInv'
<1>1. TakenIn' = TakenIn /\ Start' = Start
  BY DEF TakenIn, Inside, Start, ActivelinkFits, vars, dirVars, recVars, planVars
<1>2. SumOf(size, TakenIn)' = SumOf(size, TakenIn)
  BY <1>1 DEF vars, dirVars
<1> QED
  BY <1>1, <1>2 DEF CountInv, vars, recVars, planVars

LEMMA CountNext ==
  ASSUME PlanTypes, CountInv, [Next]_vars
  PROVE  CountInv'
<1>1. \A f \in Names, s \in Sizes : Edit(f, s) => pc' # "choose"
  BY DEF Edit
<1>2. \A f \in Names : Delete(f) => pc' # "choose"
  BY DEF Delete
<1>3. Scan \/ NoUpdate \/ Upload \/ MakeManifest => pc' # "choose"
  BY DEF Scan, NoUpdate, Upload, MakeManifest, Done
<1>4. \A f \in Names : TakeBack(f) => forced' # {}
  BY DEF TakeBack
<1> QED
  BY <1>1, <1>2, <1>3, <1>4, CountConsider, CountMark, CountStutter DEF Next, CountInv

\* markManifestFiles stays below maxManifestSizeBytes, except by the index page and
\* the activelink.
THEOREM LimitIsKept == Spec => []LimitKept
<1>1. PlanTypes /\ ChooseInv /\ CountInv => LimitKept
  <2> SUFFICES ASSUME PlanTypes, ChooseInv, CountInv, Planned, forced = {},
                      ~ Inside \subseteq Special
               PROVE  \/ Estimate <= MaxManifestSize
                      \/ /\ Activelink \in files
                         /\ Estimate <= MaxManifestSize + MetadataSize
                                          + size[Index] + size[Activelink]
    BY DEF LimitKept
  <2> DEFINE n == Cardinality(files)
             k == Cardinality(TakenIn)
             sum == SumOf(size, TakenIn)
  <2>1. /\ left = {} /\ files = disk /\ Index \in files /\ SpecialIn
        /\ Index # Activelink
    BY PlanAssumption DEF Planned, ChooseInv, PlanTypes, TypeOK
  <2>2. TakenIn = Inside \ Special /\ TakenIn # {}
    BY <2>1 DEF TakenIn
  <2>3. sum + Start.tot + RedirectSize * n <= Start.max + RedirectSize * k
    BY <2>1, <2>2, Sized DEF CountInv, Planned
  <2>4. /\ n \in Nat /\ k \in Nat /\ sum \in Nat /\ size[Index] \in Nat
        /\ RedirectSize \in Nat /\ MetadataSize \in Nat /\ MaxManifestSize \in Nat
        /\ Activelink \in files => size[Activelink] \in Nat
    BY <2>1, Sized, PlanAssumption DEF PlanTypes, TypeOK
  <2>5. SumOf(size, TakenIn \cup {Index}) = size[Index] + sum
    <3>1. (TakenIn \cup {Index}) \ {Index} = TakenIn
      BY <2>2 DEF Special
    <3>2. TakenIn \cup {Index} \in SUBSET files
      BY <2>1, <2>2 DEF Inside
    <3> QED
      BY <2>1, <3>1, <3>2, Sized, SumWithout
  <2>6. Cardinality(TakenIn \cup {Index}) = k + 1
    BY <2>1, <2>2, Sized, FS_AddElement DEF Special
  <2>7. IsFiniteSet(files) /\ Inside \subseteq files
    BY <2>1, Sized DEF Weights, Inside
  <2>8. /\ Cardinality(Separate) \in Nat
        /\ Cardinality(Inside) + Cardinality(Separate) = n
    <3>1. IsFiniteSet(Inside) /\ IsFiniteSet(Separate)
      BY <2>7, FS_Subset DEF Separate
    <3>2. Inside \cup Separate = files /\ Inside \cap Separate = {}
      BY <2>7 DEF Separate
    <3>3. n = Cardinality(Inside) + Cardinality(Separate) - Cardinality(Inside \cap Separate)
      BY <3>1, <3>2, FS_Union
    <3>4. Cardinality(Inside \cap Separate) = 0
      BY <3>2, FS_EmptySet
    <3>5. Cardinality(Inside) \in Nat /\ Cardinality(Separate) \in Nat
      BY <3>1, FS_CardinalityType
    <3> QED
      BY <3>3, <3>4, <3>5
  <2> HIDE DEF n, k, sum
  <2>9. CASE Activelink \notin files
    <3>1. Inside = TakenIn \cup {Index}
      BY <2>1, <2>2, <2>7, <2>9 DEF SpecialIn, Special
    <3>2. /\ Start.tot = MetadataSize + size[Index]
          /\ Start.max = MaxManifestSize + RedirectSize
      BY <2>9 DEF Start, ActivelinkFits
    <3>3. RedirectSize * n = RedirectSize * k + RedirectSize
                               + RedirectSize * Cardinality(Separate)
      BY <2>4, <2>6, <2>8, <3>1
    <3>4. /\ RedirectSize * k \in Nat
          /\ RedirectSize * Cardinality(Separate) \in Nat
      BY <2>4, <2>8
    <3> QED
      BY <2>3, <2>4, <2>5, <3>1, <3>2, <3>3, <3>4 DEF Estimate
  <2>10. CASE Activelink \in files
    <3>1. Inside = (TakenIn \cup {Index}) \cup {Activelink}
      BY <2>1, <2>2, <2>7, <2>10 DEF SpecialIn, Special
    <3>2. Activelink \notin TakenIn \cup {Index}
      BY <2>1, <2>2 DEF Special
    <3>3. SumOf(size, Inside) = size[Activelink] + size[Index] + sum
      <4>1. Inside \ {Activelink} = TakenIn \cup {Index}
        BY <3>1, <3>2
      <4>2. SumOf(size, Inside) = size[Activelink] + SumOf(size, TakenIn \cup {Index})
        BY <2>1, <2>7, <3>1, <4>1, Sized, SumWithout
      <4> QED
        BY <2>4, <2>5, <2>10, <4>2
    <3>4. Cardinality(Inside) = k + 2
      <4>1. IsFiniteSet(TakenIn \cup {Index})
        BY <2>7, <3>1, FS_Subset
      <4>2. Cardinality(Inside) = Cardinality(TakenIn \cup {Index}) + 1
        BY <3>1, <3>2, <4>1, FS_AddElement
      <4> QED
        BY <2>4, <2>6, <4>2
    <3>5. RedirectSize * n = RedirectSize * k + RedirectSize + RedirectSize
                               + RedirectSize * Cardinality(Separate)
      <4>1. n = k + 2 + Cardinality(Separate)
        BY <2>8, <3>4
      <4>2. \A r, a, b \in Nat : r * (a + 2 + b) = r * a + r + r + r * b
        OBVIOUS
      <4> QED
        BY <2>4, <2>8, <4>1, <4>2
    <3>6. /\ RedirectSize * k \in Nat
          /\ RedirectSize * Cardinality(Separate) \in Nat
      BY <2>4, <2>8
    <3>7. \/ /\ Start.tot = size[Activelink]
             /\ Start.max = MaxManifestSize + RedirectSize + RedirectSize
          \/ /\ Start.tot = MetadataSize + size[Index]
             /\ Start.max = MaxManifestSize + RedirectSize
      BY DEF Start
    <3> QED
      BY <2>3, <2>4, <2>10, <3>3, <3>5, <3>6, <3>7 DEF Estimate
  <2> QED
    BY <2>9, <2>10
<1>2. Init => CountInv
  BY DEF Init, CountInv
<1>3. PlanTypes /\ CountInv /\ [Next]_vars => CountInv'
  BY CountNext
<1> QED
  BY RecordsHold, <1>1, <1>2, <1>3, PTL DEF Spec
================================================================================

----------------------------- MODULE PutDir_proofs -----------------------------
(***************************************************************************)
(* PutDirInv is an inductive invariant of PutDir, for any directory, any   *)
(* maxconcurrent, all modes and any failures; with what follows from it:   *)
(* which failures reach the manifest and which end putdir, and that file   *)
(* by file putdir implements DirInsert.                                    *)
(***************************************************************************)
EXTENDS PutDir, FiniteSetTheorems, TLAPS

Outcomes == {"unmade", "pending"} \cup Ticket!Results
FileSets == SUBSET Files

(***************************************************************************)
(* Counting jobs                                                           *)
(***************************************************************************)
LEMMA Counts ==
  ASSUME NEW S \in FileSets
  PROVE  /\ IsFiniteSet(S) 
         /\ Cardinality(S) \in 0 .. Cardinality(Files)
         /\ Cardinality(S) \in Nat
  <1>1. IsFiniteSet(S) /\ Cardinality(S) <= Cardinality(Files)
    BY PutDirAssumption, FS_Subset DEF FileSets
  <1> QED
    BY <1>1, PutDirAssumption, FS_CardinalityType

LEMMA PartCounts ==
  ASSUME NEW S \in FileSets, NEW T \in SUBSET S
  PROVE  /\ Cardinality(T) <= Cardinality(S)
         /\ Cardinality(T) = Cardinality(S) => T = S
         /\ Cardinality(S \ T) = Cardinality(S) - Cardinality(T)
  <1>1. IsFiniteSet(S) /\ S \cap T = T
    BY Counts
  <1>2. Cardinality(S \ T) = Cardinality(S) - Cardinality(T)
    BY <1>1, FS_Difference
  <1> QED
    BY <1>1, <1>2, FS_Subset

LEMMA OneMore ==
  ASSUME NEW S \in FileSets, NEW f \in Files
  PROVE  /\ Cardinality(S \cup {f}) <= Cardinality(S) + 1
         /\ Cardinality({f}) = 1 /\ Cardinality({}) = 0
  <1>1. IsFiniteSet(S) /\ Cardinality(S) \in Nat
    BY Counts
  <1>2. Cardinality(S \cup {f}) = IF f \in S THEN Cardinality(S) ELSE Cardinality(S) + 1
    BY <1>1, FS_AddElement
  <1>3. Cardinality(S \cup {f}) <= Cardinality(S) + 1
    BY <1>1, <1>2
  <1> QED
    BY <1>3, FS_Singleton, FS_EmptySet

\* The jobs of the list are complete or running: what the counts of a round say.
LEMMA ListCounts ==
  ASSUME PutDirInv
  PROVE  /\ Running(jobs) \in FileSets /\ Complete(jobs) \in SUBSET jobs
         /\ Running(jobs) = jobs \ Complete(jobs)
         /\ Cardinality(Running(jobs)) = Cardinality(jobs) - Cardinality(Complete(jobs))
         /\ Cardinality(Complete(jobs)) <= Cardinality(jobs)
         /\ pc # "raised" => Cardinality(jobs) <= total
         /\ Cardinality(jobs) \in Nat /\ Cardinality(Complete(jobs)) \in Nat
  <1>1. jobs \in FileSets /\ Complete(jobs) \in SUBSET jobs
    BY DEF PutDirInv, TypeOK, Complete, FileSets
  <1>2. Running(jobs) = jobs \ Complete(jobs) /\ Running(jobs) \in FileSets
    <2>1. \A f \in jobs : outcome[f] \in Outcomes /\ outcome[f] # "unmade"
      BY DEF PutDirInv, TypeOK, PlaceInv, Launchings, Outcomes
    <2> QED
      BY <1>1, <2>1 DEF Running, Complete, Outcomes, Ticket!Results, FileSets
  <1>3. Complete(jobs) \in FileSets
    BY <1>1 DEF FileSets
  <1>4. pc # "raised" => Cardinality(jobs) <= total
    <2>1. manifest \cup Launchings \in FileSets /\ jobs \in SUBSET (manifest \cup Launchings)
      BY DEF PutDirInv, TypeOK, PlaceInv, Launchings, FileSets
    <2>2. Cardinality(jobs) <= Cardinality(manifest \cup Launchings)
      BY <2>1, PartCounts
    <2>3. pc # "raised" => total = Cardinality(manifest \cup Launchings)
      BY DEF PutDirInv, PlaceInv
    <2> QED
      BY <2>2, <2>3
  <1> QED
    BY <1>1, <1>2, <1>3, <1>4, Counts, PartCounts

--------------------------------------------------------------------------------
(***************************************************************************)
(* What the steps of other threads do                                      *)
(***************************************************************************)
\* A ticket is resolved that was launched, and was not settled.
LEMMA Resolved ==
  ASSUME PutDirInv, NEW f \in Files, Answer(f) \/ FailWaiting(f)
  PROVE  /\ \E v \in Ticket!Results : outcome' = [outcome EXCEPT ![f] = v]
         /\ outcome' \in [Files -> Outcomes]
         /\ outcome[f] = "pending" \/ f \in kept
         /\ f \in Launchings /\ Launchings' = Launchings
         /\ Running(Files)' = Running(Files) \ {f}
         /\ \A S \in FileSets : Complete(S) \subseteq Complete(S)'
         /\ UNCHANGED <<mode, global, pc, loopVars, listVars, connVars, kept, delivered>>
  <1>1. PICK v \in Ticket!Results : outcome' = [outcome EXCEPT ![f] = v]
    BY DEF Answer, FailWaiting, Ticket!Resolve
  <1>2. f \in Launchings /\ (outcome[f] = "pending" \/ f \in kept)
    BY DEF Answer, FailWaiting, Ticket!Resolve, PutDirInv, TicketInv, Launchings
  <1>3. outcome \in [Files -> Outcomes]
    BY DEF PutDirInv, TypeOK, Outcomes
  <1>4. UNCHANGED <<mode, global, pc, loopVars, listVars, connVars, kept, delivered>>
    BY DEF Answer, FailWaiting, Ticket!Resolve, connVars
  <1>5. Launchings' = Launchings /\ Running(Files)' = Running(Files) \ {f}
    BY <1>1, <1>2, <1>3 DEF Launchings, Running, Ticket!Results
  <1>6. \A S \in FileSets : Complete(S) \subseteq Complete(S)'
    BY <1>1, <1>3 DEF Complete, FileSets
  <1> QED
    BY <1>1, <1>2, <1>3, <1>4, <1>5, <1>6 DEF Outcomes

\* Steps of putdir but Launch leave the results alone.
LEMMA SameResults ==
  ASSUME outcome' = outcome
  PROVE  /\ Launchings' = Launchings /\ Running(Files)' = Running(Files)
  BY DEF Launchings, Running

--------------------------------------------------------------------------------
\* When a file is launched there is room for it.
LEMMA Launching ==
  ASSUME PutDirInv, NEW f \in Files, Launch(f)
  PROVE  /\ pc = "decide" /\ f \in manifest /\ f \notin Launchings /\ Launchings = jobs
         /\ manifest' = manifest \ {f} /\ cur' = f
         /\ UNCHANGED <<mode, global, total, jobs, inserting, complete, listVars, connVars>>
         /\ Cardinality(Running(Files)) < MaxConcurrent
         /\ \/ /\ pc' = "waitsent"
               /\ outcome' = [outcome EXCEPT ![f] = "pending"]
               /\ kept' = IF global THEN kept \cup {f} ELSE kept
               /\ UNCHANGED delivered
               /\ Launchings' = jobs \cup {f} 
               /\ Running(Files)' = Running(Files) \cup {f}
            \/ pc' = "raised" /\ UNCHANGED jobVars
  <1>1. /\ pc = "decide" /\ f \in manifest /\ manifest' = manifest \ {f} /\ cur' = f
        /\ UNCHANGED <<mode, global, total, jobs, inserting, complete, listVars, connVars>>
        /\ inserting < MaxConcurrent
        /\ \/ /\ pc' = "waitsent" /\ outcome' = [outcome EXCEPT ![f] = "pending"]
              /\ kept' = IF global THEN kept \cup {f} ELSE kept
              /\ UNCHANGED delivered
           \/ pc' = "raised" /\ UNCHANGED jobVars
    BY DEF Launch
  <1>2. f \notin Launchings /\ Launchings = jobs
    BY <1>1 DEF PutDirInv, PlaceInv
  <1>3. outcome \in [Files -> Outcomes]
    BY DEF PutDirInv, TypeOK, Outcomes
  <1>4. Running(Files) = Running(jobs)
    BY <1>2 DEF Running, Launchings
  <1>5. Cardinality(Running(Files)) < MaxConcurrent
    <2>1. inserting + complete = Cardinality(jobs) /\ complete <= Cardinality(Complete(jobs))
      BY <1>1 DEF PutDirInv, CountInv
    <2>2. inserting \in Nat /\ complete \in Nat
      <3>1. total \in Nat /\ inserting \in 0 .. total /\ complete \in 0 .. total
        BY PutDirAssumption, FS_CardinalityType DEF PutDirInv, TypeOK
      <3> QED
        BY <3>1
    <2> QED
      BY <1>1, <1>4, <2>1, <2>2, ListCounts, PutDirAssumption
  <1>6. outcome' = [outcome EXCEPT ![f] = "pending"] =>
          Launchings' = jobs \cup {f} /\ Running(Files)' = Running(Files) \cup {f}
    BY <1>2, <1>3 DEF Launchings, Running
  <1> QED
    BY <1>1, <1>2, <1>5, <1>6

\* What is left to check of a step, action by action.
LEMMA Steps ==
  ASSUME Next
  PROVE  \/ Count \/ AllDone \/ Sleep \/ Launched \/ JobEnded \/ Entry \/ Dispatch
         \/ ConnectionLost
         \/ \E f \in Files : \/ Launch(f) \/ LeaveOut(f) \/ Name(f) \/ Send(f)
                             \/ Answer(f) \/ FailWaiting(f)
  BY DEF Next, Program

--------------------------------------------------------------------------------
(***************************************************************************)
(* The invariant                                                           *)
(***************************************************************************)
LEMMA InitPutDir == Init => PutDirInv
  <1> SUFFICES ASSUME Init PROVE PutDirInv
    OBVIOUS
  <1>1. /\ manifest \in FileSets /\ total = Cardinality(manifest)
        /\ jobs = {} /\ cur = NoFile /\ unbuilt = {} /\ entries = {} /\ bad = {}
        /\ sent = {} /\ kept = {} /\ inserting = 0 /\ complete = 0
        /\ pc = IF mode = "whole" THEN "build" ELSE "count"
    BY PutDirAssumption DEF Init, FileSets, Ticket!Init
  <1>2. outcome = [f \in Files |-> "unmade"] /\ delivered = [c \in {putdir} |-> "none"]
    BY DEF Init, Ticket!Init
  <1>3. Launchings = {} /\ Running(Files) = {} /\ Cardinality({}) = 0
    BY <1>2, FS_EmptySet DEF Launchings, Running
  <1>4. total \in 0 .. Cardinality(Files) /\ total \in Nat
    BY <1>1, Counts
  <1>5. TypeOK
    BY <1>1, <1>2, <1>4 DEF Init, TypeOK, FileSets
  <1>6. PlaceInv
    <2>1. Limit \in Nat
      BY PutDirAssumption DEF Limit
    <2>2. manifest \cup Launchings = manifest
      BY <1>3
    <2> QED
      BY <1>1, <1>3, <2>1, <2>2, <1>4, PutDirAssumption DEF PlaceInv, FileSets
  <1>7. CountInv /\ RunInv /\ ListInv /\ TicketInv
    <2>1. Limit \in Nat
      BY PutDirAssumption DEF Limit
    <2> QED
      BY <1>1, <1>3, <2>1 DEF CountInv, RunInv, ListInv, TicketInv
  <1> QED
    BY <1>5, <1>6, <1>7 DEF PutDirInv

LEMMA TypeKept == ASSUME PutDirInv, [Next]_vars PROVE TypeOK'
  <1> USE DEF PutDirInv, TypeOK
  <1>1. CASE Count
    <2>1. Complete(jobs)' = Complete(jobs)
      BY <1>1 DEF Count, Complete, jobVars
    <2>2. complete' \in 0 .. total /\ inserting' \in 0 .. total
      <3>1. pc # "raised" /\ total \in Nat
        BY <1>1, Counts DEF Count
      <3> QED
        BY <1>1, <3>1, ListCounts DEF Count
    <2> QED
      BY <1>1, <2>2 DEF Count, listVars, connVars, jobVars
  <1>2. CASE AllDone
    BY <1>2 DEF AllDone, loopVars, connVars, jobVars
  <1>3. CASE Sleep
    BY <1>3 DEF Sleep, loopVars, listVars, connVars, jobVars
  <1>4. CASE Launched
    BY <1>4 DEF Launched, listVars, connVars, jobVars, PlaceInv
  <1>5. CASE JobEnded
    <2>1. delivered' \in [{putdir} -> {"none", "RuntimeError"} \cup Ticket!Results]
      BY <1>5 DEF JobEnded, Ticket!Deliver
    <2> QED
      BY <1>5, <2>1 DEF JobEnded, Ticket!Deliver, loopVars, listVars, connVars
  <1>6. CASE Entry
    BY <1>6 DEF Entry, loopVars, connVars, jobVars, ListInv
  <1>7. CASE Dispatch
    BY <1>7 DEF Dispatch, loopVars, listVars, connVars, jobVars
  <1>8. CASE ConnectionLost
    BY <1>8 DEF ConnectionLost, loopVars, listVars, jobVars
  <1>9. ASSUME NEW f \in Files, Launch(f) PROVE TypeOK'
    <2>1. outcome' \in [Files -> {"unmade", "pending"} \cup Ticket!Results]
      BY <1>9 DEF Launch, jobVars
    <2>2. kept' \in SUBSET Files
      BY <1>9 DEF Launch, jobVars
    <2> QED
      BY <1>9, <2>1, <2>2 DEF Launch, listVars, connVars, jobVars
  <1>10. ASSUME NEW f \in Files, LeaveOut(f) PROVE TypeOK'
    BY <1>10 DEF LeaveOut, loopVars, connVars, jobVars
  <1>11. ASSUME NEW f \in Files, Name(f) PROVE TypeOK'
    BY <1>11 DEF Name, connVars, jobVars
  <1>12. ASSUME NEW f \in Files, Send(f) PROVE TypeOK'
    BY <1>12 DEF Send, loopVars, listVars, jobVars
  <1>13. ASSUME NEW f \in Files, Answer(f) \/ FailWaiting(f) PROVE TypeOK'
    BY <1>13, Resolved DEF Outcomes, loopVars, listVars, connVars
  <1>14. CASE UNCHANGED vars
    BY <1>14 DEF vars, loopVars, listVars, connVars, jobVars
  <1> QED
    BY <1>1, <1>2, <1>3, <1>4, <1>5, <1>6, <1>7, <1>8, <1>9, <1>10, <1>11, <1>12, <1>13, 
       <1>14, Steps

LEMMA PlaceKept == ASSUME PutDirInv, [Next]_vars PROVE PlaceInv'
  <1> USE DEF PutDirInv, PlaceInv
  <1>0. NoFile \notin Files /\ manifest \subseteq Files /\ jobs \subseteq Files
    BY PutDirAssumption DEF TypeOK
  <1>1. CASE Count
    BY <1>1, SameResults DEF Count, jobVars
  <1>2. CASE AllDone
    BY <1>2, SameResults DEF AllDone, loopVars, jobVars
  <1>3. CASE Sleep
    BY <1>3, SameResults DEF Sleep, loopVars, jobVars
  <1>4. CASE Launched
    BY <1>4, SameResults DEF Launched, jobVars
  <1>5. CASE JobEnded
    <2>1. outcome' = outcome
      BY <1>5 DEF JobEnded, Ticket!Deliver
    <2> QED
      BY <1>5, <2>1, SameResults DEF JobEnded, loopVars
  <1>6. CASE Entry
    BY <1>6, SameResults DEF Entry, loopVars, jobVars
  <1>7. CASE Dispatch
    BY <1>7, SameResults DEF Dispatch, loopVars, jobVars
  <1>8. CASE ConnectionLost
    BY <1>8, SameResults DEF ConnectionLost, loopVars, jobVars
  <1>9. ASSUME NEW f \in Files, Launch(f) PROVE PlaceInv'
    <2>1. CASE pc' = "waitsent" /\ Launchings' = jobs \cup {f}
      <3>1. manifest' \cup Launchings' = manifest \cup Launchings
        BY <1>9, <2>1, Launching
      <3> QED
        BY <1>9, <2>1, <3>1, Launching
    <2>2. CASE pc' = "raised" /\ UNCHANGED jobVars
      BY <1>9, <2>2, <1>0, Launching, SameResults DEF jobVars
    <2> QED
      BY <1>9, <2>1, <2>2, Launching
  <1>10. ASSUME NEW f \in Files, LeaveOut(f) PROVE PlaceInv'
    BY <1>10, SameResults DEF LeaveOut, loopVars, jobVars
  <1>11. ASSUME NEW f \in Files, Name(f) PROVE PlaceInv'
    <2>1. f \in Launchings
      BY <1>11 DEF Name, Launchings
    <2> QED
      BY <1>11, <2>1, SameResults DEF Name, jobVars
  <1>12. ASSUME NEW f \in Files, Send(f) PROVE PlaceInv'
    BY <1>12, SameResults DEF Send, loopVars, jobVars
  <1>13. ASSUME NEW f \in Files, Answer(f) \/ FailWaiting(f) PROVE PlaceInv'
    BY <1>13, Resolved DEF loopVars
  <1>14. CASE UNCHANGED vars
    BY <1>14, SameResults DEF vars, loopVars, jobVars
  <1> QED
    BY <1>1, <1>2, <1>3, <1>4, <1>5, <1>6, <1>7, <1>8, <1>9, <1>10, <1>11, <1>12, <1>13, 
       <1>14, Steps

LEMMA CountKept == ASSUME PutDirInv, [Next]_vars PROVE CountInv'
  <1> SUFFICES ASSUME pc' = "decide" PROVE CountInv'
    BY DEF CountInv
  <1> USE DEF PutDirInv, CountInv
  <1>1. CASE Count
    <2>1. Complete(jobs)' = Complete(jobs) /\ jobs' = jobs
      BY <1>1 DEF Count, Complete, jobVars
    <2> QED
      BY <1>1, <2>1, ListCounts DEF Count
  <1>2. CASE pc = "decide" /\ UNCHANGED <<jobs, inserting, complete, outcome>>
    BY <1>2 DEF Complete
  <1>3. ASSUME NEW f \in Files, Answer(f) \/ FailWaiting(f) PROVE CountInv'
    <2>1. pc = "decide" /\ UNCHANGED <<jobs, inserting, complete>>
      BY <1>3, Resolved DEF loopVars
    <2>2. jobs \in FileSets /\ Complete(jobs)' \in FileSets
      BY <2>1 DEF TypeOK, Complete, FileSets
    <2>3. Complete(jobs) \subseteq Complete(jobs)'
      BY <1>3, <2>1, <2>2, Resolved DEF Complete
    <2>4. Cardinality(Complete(jobs)) <= Cardinality(Complete(jobs)')
      BY <2>2, <2>3, PartCounts
    <2>5. complete \in Nat /\ Cardinality(Complete(jobs)) \in Nat
          /\ Cardinality(Complete(jobs)') \in Nat
      <3>1. total \in Nat /\ complete \in 0 .. total
        BY PutDirAssumption, FS_CardinalityType DEF TypeOK
      <3> QED
        BY <3>1, <2>2, ListCounts, Counts
    <2> QED
      BY <2>1, <2>4, <2>5
  <1>4. ASSUME Next, ~ Count, ~ \E f \in Files : Answer(f) \/ FailWaiting(f)
        PROVE  pc = "decide" /\ UNCHANGED <<jobs, inserting, complete, outcome>>
    BY <1>4, Steps DEF AllDone, Sleep, Launched, JobEnded, Entry, Dispatch, ConnectionLost, 
       Launch, LeaveOut, Name, Send, loopVars, jobVars
  <1>5. CASE UNCHANGED vars
    BY <1>5, <1>2 DEF vars, loopVars, jobVars
  <1> QED
    BY <1>1, <1>2, <1>3, <1>4, <1>5

\* When the round has counted as many complete jobs as there are files.
LEMMA Ended ==
  ASSUME PutDirInv, pc = "decide", complete = total
  PROVE  manifest = {} /\ Launchings = jobs /\ Complete(jobs) = jobs /\ Running(Files) = {}
  <1> DEFINE all == manifest \cup Launchings
  <1>1. /\ Launchings = jobs /\ total = Cardinality(all) /\ manifest \cap Launchings = {}
        /\ complete <= Cardinality(Complete(jobs))
    BY DEF PutDirInv, PlaceInv, CountInv
  <1>2. all \in FileSets /\ Complete(jobs) \in SUBSET all
    BY <1>1 DEF PutDirInv, TypeOK, FileSets, Launchings, Complete
  <1>3. Cardinality(all) \in Nat /\ Cardinality(Complete(jobs)) \in Nat
        /\ Cardinality(Complete(jobs)) <= Cardinality(all)
    BY <1>2, Counts, PartCounts, ListCounts
  <1>4. Cardinality(Complete(jobs)) = Cardinality(all)
    BY <1>1, <1>3
  <1>5. Complete(jobs) = all
    BY <1>2, <1>4, PartCounts
  <1>6. manifest = {} /\ Complete(jobs) = jobs
    BY <1>1, <1>5 DEF Complete
  <1>7. Running(Files) = {}
    BY <1>1, <1>6 DEF Running, Complete, Launchings, Ticket!Results
  <1> QED
    BY <1>1, <1>6, <1>7

LEMMA RunKept == ASSUME PutDirInv, [Next]_vars PROVE RunInv'
  <1> USE DEF PutDirInv, RunInv
  <1>0. /\ mode \in AllModes /\ Limit \in Nat /\ MaxConcurrent \in Nat
        /\ Running(Files) \in FileSets
    BY PutDirAssumption DEF TypeOK, Limit, Running, FileSets
  <1>1. ASSUME mode' = mode, outcome' = outcome, cur' = cur \/ pc = "build",
               manifest' = manifest,
               \/ pc' = pc 
               \/ pc \in {"build", "entry"} /\ pc' \in {"build", "entry", "done", "raised"}
               \/ pc \in {"count", "decide"} /\ pc' \in {"count", "decide"}
        PROVE  RunInv'
    BY <1>1, SameResults DEF Limit
  <1>2. CASE AllDone
    <2>1. manifest = {} /\ Running(Files) = {}
      BY <1>2, Ended DEF AllDone
    <2> QED
      BY <1>2, <2>1, SameResults DEF AllDone, loopVars, jobVars, Limit
  <1>3. CASE Launched
    BY <1>3, SameResults DEF Launched, jobVars, Limit
  <1>4. CASE JobEnded
    <2>1. outcome' = outcome /\ outcome[cur] \in Ticket!Results
      BY <1>4 DEF JobEnded, Ticket!Deliver
    <2>2. cur \notin Running(Files)
      BY <2>1 DEF Running, Ticket!Results
    <2> QED
      BY <1>4, <2>1, <2>2, SameResults DEF JobEnded, loopVars, Limit
  <1>5. ASSUME NEW f \in Files, Launch(f) PROVE RunInv'
    <2>1. CASE pc' = "waitsent" /\ Running(Files)' = Running(Files) \cup {f}
      <3>1. mode = "oneByOne" => Running(Files)' = {f}
        BY <1>5, <2>1, Launching
      <3>2. /\ Cardinality(Running(Files)') <= Cardinality(Running(Files)) + 1
            /\ Cardinality({f}) = 1 /\ Cardinality(Running(Files)) \in Nat
            /\ Cardinality(Running(Files)') \in Nat
        <4>1. Running(Files) \cup {f} \in FileSets
          BY <1>0 DEF FileSets
        <4> QED
          BY <1>0, <2>1, <4>1, OneMore, Counts
      <3>3. Cardinality(Running(Files)') <= Limit
        <4>1. CASE mode = "oneByOne"
          <5>1. Cardinality(Running(Files)') = 1
            BY <3>1, <3>2, <4>1, Zenon
          <5> QED
            BY <4>1, <5>1 DEF Limit
        <4>2. CASE mode # "oneByOne"
          <5>1. Cardinality(Running(Files)) < MaxConcurrent
            BY <1>5, Launching
          <5> QED
            BY <1>0, <3>2, <4>2, <5>1 DEF Limit
        <4> QED
          BY <4>1, <4>2
      <3>4. mode' = mode /\ cur' = f /\ Limit' = Limit
        BY <1>5, Launching DEF Limit
      <3> QED
        BY <2>1, <3>1, <3>3, <3>4
    <2>2. CASE pc' = "raised" /\ UNCHANGED jobVars
      BY <1>5, <2>2, Launching, SameResults DEF jobVars, Limit
    <2> QED
      BY <1>5, <2>1, <2>2, Launching
  <1>6. ASSUME NEW f \in Files, Answer(f) \/ FailWaiting(f) PROVE RunInv'
    <2>1. Cardinality(Running(Files)') <= Cardinality(Running(Files))
      BY <1>0, <1>6, Resolved, PartCounts
    <2>2. Cardinality(Running(Files)') \in Nat /\ Cardinality(Running(Files)) \in Nat
      <3>1. Running(Files)' \in FileSets
        BY <1>0, <1>6, Resolved DEF FileSets
      <3> QED
        BY <1>0, <3>1, Counts
    <2>3. Limit' = Limit
      BY <1>6, Resolved DEF Limit
    <2>4. Cardinality(Running(Files)') <= Limit'
      BY <1>0, <2>1, <2>2, <2>3
    <2> QED
      BY <1>6, <2>4, Resolved DEF loopVars
  <1>7. CASE UNCHANGED vars
    BY <1>1, <1>7 DEF vars, loopVars, jobVars
  <1>8. CASE Count \/ Sleep \/ Entry \/ Dispatch \/ ConnectionLost
    BY <1>1, <1>8 DEF Count, Sleep, Entry, Dispatch, ConnectionLost, loopVars, jobVars
  <1>9. CASE \E f \in Files : LeaveOut(f) \/ Name(f) \/ Send(f)
    BY <1>1, <1>9 DEF LeaveOut, Name, Send, loopVars, jobVars
  <1> QED
    BY <1>2, <1>3, <1>4, <1>5, <1>6, <1>7, <1>8, <1>9, Steps

LEMMA ListKept == ASSUME PutDirInv, [Next]_vars PROVE ListInv'
  <1> USE DEF PutDirInv, ListInv
  <1>1. CASE UNCHANGED <<mode, global, pc, jobs, cur, listVars, jobVars>>
    BY <1>1 DEF listVars, jobVars
  <1>2. CASE Count \/ Sleep
    BY <1>2 DEF Count, Sleep, loopVars, listVars, jobVars
  <1>3. CASE AllDone
    <2>1. \A f \in jobs : outcome[f] \in Ticket!Results
      BY <1>3, Ended DEF AllDone, Complete
    <2>2. \A f \in Files \ jobs : outcome[f] = "unmade"
      BY <1>3, Ended DEF AllDone, Launchings
    <2> QED
      BY <1>3, <2>1, <2>2 DEF AllDone, loopVars, jobVars
  <1>4. CASE Launched
    BY <1>4 DEF Launched, listVars, jobVars
  <1>5. CASE JobEnded
    BY <1>5 DEF JobEnded, Ticket!Deliver, loopVars, listVars
  <1>6. CASE Entry
    BY <1>6 DEF Entry, loopVars, jobVars
  <1>7. CASE Dispatch
    BY <1>7 DEF Dispatch, loopVars, listVars, jobVars
  <1>8. ASSUME NEW f \in Files, Launch(f) PROVE ListInv'
    <2>1. CASE pc' = "waitsent"
      BY <1>8, <2>1, Launching DEF listVars, jobVars
    <2>2. CASE pc' = "raised" /\ UNCHANGED jobVars
      BY <1>8, <2>2, Launching DEF listVars, jobVars
    <2> QED
      BY <1>8, <2>1, <2>2, Launching
  <1>9. ASSUME NEW f \in Files, LeaveOut(f) PROVE ListInv'
    BY <1>9 DEF LeaveOut, loopVars, jobVars
  <1>10. ASSUME NEW f \in Files, Name(f) PROVE ListInv'
    BY <1>10 DEF Name, jobVars
  <1>11. ASSUME NEW f \in Files, Answer(f) \/ FailWaiting(f) PROVE ListInv'
    <2>1. \A g \in Files \ {f} : outcome'[g] = outcome[g]
      BY <1>11, Resolved DEF TypeOK
    <2>2. pc \in {"build", "entry", "done"} /\ mode # "whole" => f \in kept
      BY <1>11, Resolved DEF RunInv, Running
    <2>3. pc = "entry" /\ f = cur => f \in kept
      BY <1>11, Resolved DEF Ticket!Results
    <2> QED
      BY <1>11, <2>1, <2>2, <2>3, Resolved DEF loopVars, listVars
  <1>12. CASE ConnectionLost \/ \E f \in Files : Send(f)
    BY <1>1, <1>12 DEF ConnectionLost, Send, loopVars
  <1>13. CASE UNCHANGED vars
    BY <1>1, <1>13 DEF vars, loopVars
  <1> QED
    BY <1>2, <1>3, <1>4, <1>5, <1>6, <1>7, <1>8, <1>9, <1>10, <1>11, <1>12, <1>13, Steps

LEMMA TicketKept == ASSUME PutDirInv, [Next]_vars PROVE TicketInv'
  <1> USE DEF PutDirInv, TicketInv
  <1>1. CASE UNCHANGED <<sent, kept, outcome, mode>> /\ (pc' = pc \/ pc' # "waitjob")
    BY <1>1, SameResults
  <1>2. CASE Launched
    BY <1>2, SameResults DEF Launched, connVars, jobVars
  <1>3. CASE JobEnded
    BY <1>1, <1>3 DEF JobEnded, Ticket!Deliver, connVars
  <1>4. ASSUME NEW f \in Files, Launch(f) PROVE TicketInv'
    <2>1. CASE pc' = "raised" /\ UNCHANGED jobVars
      BY <1>1, <1>4, <2>1, Launching DEF connVars, jobVars
    <2> QED
      BY <1>4, <2>1, Launching DEF connVars
  <1>5. ASSUME NEW f \in Files, Send(f) PROVE TicketInv'
    <2>1. f \in Launchings
      BY <1>5 DEF Send, Launchings
    <2> QED
      BY <1>5, <2>1, SameResults DEF Send, jobVars
  <1>6. ASSUME NEW f \in Files, Answer(f) \/ FailWaiting(f) PROVE TicketInv'
    BY <1>6, Resolved DEF connVars
  <1>7. CASE Count \/ AllDone \/ Sleep \/ Entry \/ Dispatch \/ ConnectionLost
    BY <1>1, <1>7 DEF Count, AllDone, Sleep, Entry, Dispatch, ConnectionLost, connVars, jobVars
  <1>8. CASE \E f \in Files : LeaveOut(f) \/ Name(f)
    BY <1>1, <1>8 DEF LeaveOut, Name, connVars, jobVars
  <1>9. CASE UNCHANGED vars
    BY <1>1, <1>9 DEF vars, connVars, jobVars
  <1> QED
    BY <1>2, <1>3, <1>4, <1>5, <1>6, <1>7, <1>8, <1>9, Steps

\* The invariant of putdir holds in every state, however the manager thread
\* and the node interleave with its loop.
THEOREM PutDirInvariance == Spec => []PutDirInv
  <1>1. PutDirInv /\ [Next]_vars => PutDirInv'
    BY TypeKept, PlaceKept, CountKept, RunKept, ListKept, TicketKept DEF PutDirInv
  <1> QED
    BY InitPutDir, <1>1, PTL DEF Spec

\* Every variable of putdir keeps its type, and its counts their range.
THEOREM PutDirTypes == Spec => []TypeOK
  <1>1. PutDirInv => TypeOK
    BY DEF PutDirInv
  <1> QED
    BY PutDirInvariance, <1>1, PTL

--------------------------------------------------------------------------------
(***************************************************************************)
(* What the manifest and the end of putdir say of the jobs                 *)
(***************************************************************************)
\* Name looks whether a job failed and Entry uses its result; in between only
\* a ticket that stays in the jobs table gets another one.
THEOREM BadEntries == Spec => []BadEntriesAreKept
  <1>1. Init => BadEntriesAreKept
    BY DEF Init, BadEntriesAreKept
  <1>2. PutDirInv /\ BadEntriesAreKept /\ [Next]_vars => BadEntriesAreKept'
    <2> SUFFICES ASSUME PutDirInv, bad \subseteq kept, [Next]_vars
                 PROVE  bad' \subseteq kept'
      BY DEF BadEntriesAreKept
    <2>1. CASE Entry
      <3>1. cur \in Files /\ (cur \in kept \/ outcome[cur] = "value")
        BY <2>1 DEF PutDirInv, TypeOK, ListInv, Entry
      <3> QED
        BY <2>1, <3>1 DEF Entry, jobVars
    <2>2. ASSUME NEW f \in Files, Launch(f) PROVE bad' \subseteq kept'
      BY <2>2, Launching DEF listVars, jobVars
    <2>3. ASSUME NEW f \in Files, Answer(f) \/ FailWaiting(f) PROVE bad' \subseteq kept'
      BY <2>3, Resolved DEF listVars
    <2>4. CASE JobEnded
      BY <2>4 DEF JobEnded, Ticket!Deliver, listVars
    <2>5. CASE Count \/ AllDone \/ Sleep \/ Launched \/ Dispatch \/ ConnectionLost
      BY <2>5 DEF Count, AllDone, Sleep, Launched, Dispatch, ConnectionLost, listVars, jobVars
    <2>6. CASE \E f \in Files : LeaveOut(f) \/ Name(f) \/ Send(f)
      BY <2>6 DEF LeaveOut, Name, Send, listVars, jobVars
    <2>7. CASE UNCHANGED vars
      BY <2>7 DEF vars, listVars, jobVars
    <2> QED
      BY <2>1, <2>2, <2>3, <2>4, <2>5, <2>6, <2>7, Steps
  <1> QED
    BY PutDirInvariance, <1>1, <1>2, PTL DEF Spec

\* A job that fails does not end a putdir that runs several at once: only a file
\* that was never launched does, or the loss of the connection.
THEOREM FailuresCarried == Spec => []FailuresAreCarried
  <1>1. Init => FailuresAreCarried
    BY DEF Init, FailuresAreCarried
  <1>2. PutDirInv /\ FailuresAreCarried /\ [Next]_vars => FailuresAreCarried'
    <2> SUFFICES ASSUME PutDirInv, FailuresAreCarried, [Next]_vars,
                        pc' = "raised", mode' = "allAtOnce", alive'
                 PROVE  outcome'[cur'] = "unmade"
      BY DEF FailuresAreCarried
    <2> USE DEF FailuresAreCarried
    <2>1. ASSUME NEW f \in Files, Launch(f) PROVE outcome'[cur'] = "unmade"
      BY <2>1, Launching DEF Launchings, jobVars
    <2>2. ASSUME NEW f \in Files, Answer(f) \/ FailWaiting(f)
          PROVE  outcome'[cur'] = "unmade"
      <3>1. PICK v : outcome' = [outcome EXCEPT ![f] = v]
        BY <2>2, Resolved
      <3>2. outcome[f] # "unmade" /\ outcome[cur] = "unmade" /\ cur' = cur
        BY <2>2, Resolved DEF loopVars, connVars, Launchings
      <3>3. outcome \in [Files -> Outcomes]
        BY DEF PutDirInv, TypeOK, Outcomes
      <3> QED
        BY <3>1, <3>2, <3>3
    <2>3. CASE JobEnded
      BY <2>3 DEF JobEnded, PutDirInv, TicketInv
    <2>4. CASE Dispatch
      BY <2>4 DEF Dispatch, connVars
    <2>5. CASE Count \/ AllDone \/ Sleep \/ Launched \/ Entry \/ ConnectionLost
      BY <2>5 DEF Count, AllDone, Sleep, Launched, Entry, ConnectionLost
    <2>6. CASE \E f \in Files : LeaveOut(f) \/ Name(f) \/ Send(f)
      BY <2>6 DEF LeaveOut, Name, Send, loopVars, jobVars
    <2>7. CASE UNCHANGED vars
      BY <2>7 DEF vars, loopVars, connVars, jobVars
    <2> QED
      BY <2>1, <2>2, <2>3, <2>4, <2>5, <2>6, <2>7, Steps
  <1> QED
    BY PutDirInvariance, <1>1, <1>2, PTL DEF Spec

--------------------------------------------------------------------------------
(***************************************************************************)
(* File by file, putdir implements DirInsert                               *)
(***************************************************************************)
\* What has been published of the directory.
Manifest == [made |-> pc = "done", files |-> IF pc = "done" THEN entries ELSE {}]

LEMMA InitDir == Init => Promise!Init
  <1> SUFFICES ASSUME Init PROVE Promise!Init
    OBVIOUS
  <1>1. PutDirInv
    BY InitPutDir
  <1>2. outcome = [f \in Files |-> "unmade"] /\ kept = {} /\ pc # "done"
    BY DEF Init, Ticket!Init
  <1>3. Limit \in Nat
    BY PutDirAssumption DEF Limit
  <1>4. Site \subseteq Files
    BY <1>1 DEF Site, PutDirInv, TypeOK, Launchings
  <1>5. Running(Files) = {} /\ Inserted = {} /\ NotInserted = {}
    BY <1>2 DEF Running, Inserted, NotInserted
  <1> QED
    BY <1>2, <1>3, <1>4, <1>5 DEF Promise!Init, Promise!NoManifest

\* Every step of putdir is one of DirInsert, or changes nothing there.
LEMMA DirSteps ==
  ASSUME PutDirInv, "whole" \notin Modes, [Next]_vars
  PROVE  [Promise!Next]_(Promise!vars)
  <1> USE DEF PutDirInv
  <1>0. mode # "whole" /\ mode \in AllModes /\ outcome \in [Files -> Outcomes]
    BY PutDirAssumption DEF TypeOK, Outcomes
  <1>1. ASSUME outcome' = outcome, mode' = mode
        PROVE  UNCHANGED <<Limit, Running(Files), Inserted, NotInserted, Launchings>>
    BY <1>1 DEF Limit, Running, Inserted, NotInserted, Launchings
  <1>2. ASSUME outcome' = outcome, mode' = mode, kept' = kept, Site' = Site,
               pc' # "done", pc # "done"
        PROVE  UNCHANGED Promise!vars
    BY <1>1, <1>2 DEF Promise!vars
  <1>3. CASE UNCHANGED vars
    <2>1. Site' = Site
      BY <1>3, <1>1 DEF vars, loopVars, jobVars, Site
    <2> QED
      BY <1>1, <1>3, <2>1 DEF vars, listVars, jobVars, Promise!vars
  <1>4. CASE UNCHANGED <<mode, pc, manifest, cur, entries, jobVars>>
    <2>1. Site' = Site
      BY <1>4, <1>1 DEF jobVars, Site
    <2> QED
      BY <1>1, <1>4, <2>1 DEF jobVars, Promise!vars
  <1>5. CASE Count \/ AllDone \/ Sleep \/ Launched
    <2>1. UNCHANGED <<mode, manifest, cur, jobVars>> /\ pc # "done" /\ pc' # "done"
      BY <1>5 DEF Count, AllDone, Sleep, Launched, loopVars
    <2>2. Site' = Site
      BY <2>1, <1>1 DEF jobVars, Site
    <2> QED
      BY <1>2, <2>1, <2>2 DEF jobVars
  <1>6. CASE JobEnded
    <2>1. UNCHANGED <<mode, manifest, cur, outcome, kept>> /\ pc # "done" /\ pc' # "done"
      BY <1>6 DEF JobEnded, Ticket!Deliver, loopVars
    <2>2. Site' = Site
      BY <2>1, <1>1 DEF Site
    <2> QED
      BY <1>2, <2>1, <2>2
  <1>7. CASE Entry \/ \E f \in Files : LeaveOut(f) \/ Name(f)
    <2>1. UNCHANGED <<mode, manifest, jobVars>> /\ pc # "done" /\ pc' # "done"
          /\ pc \in {"build", "entry"} /\ (cur' = cur \/ cur' \in Launchings)
      BY <1>7 DEF Entry, LeaveOut, Name, Launchings, loopVars, jobVars
    <2>2. cur \in Launchings \cup {NoFile}
      BY <2>1 DEF PlaceInv
    <2>3. Site' = Site
      BY <2>1, <2>2, <1>1, PutDirAssumption DEF jobVars, Site
    <2> QED
      BY <1>2, <2>1, <2>3 DEF jobVars
  <1>8. CASE ConnectionLost \/ \E f \in Files : Send(f)
    BY <1>4, <1>8 DEF ConnectionLost, Send, loopVars, listVars
  <1>9. CASE Dispatch
    <2>1. UNCHANGED <<mode, manifest, cur, entries, outcome, kept>> /\ pc = "build" 
          /\ unbuilt = {} /\ pc' \in {"done", "raised"}
      BY <1>9 DEF Dispatch, loopVars, listVars, jobVars
    <2>2. Site' = Site
      BY <2>1, <1>1 DEF Site
    <2>3. CASE pc' = "raised"
      BY <1>2, <2>1, <2>2, <2>3
    <2>4. CASE pc' = "done"
      <3>1. Running(Files) = {} /\ manifest = {} /\ cur \in Launchings \cup {NoFile}
        BY <1>0, <2>1 DEF RunInv, PlaceInv
      <3>2. Launchings = Inserted \cup NotInserted
        BY <1>0, <3>1 DEF Launchings, Running, Inserted, NotInserted, Outcomes, Ticket!Results
      <3>3. Promise!Untouched = {}
        BY <3>1, <3>2, PutDirAssumption DEF Promise!Untouched, Site
      <3>4. entries \in SUBSET Files /\ entries \subseteq Inserted \cup NotInserted
        BY <2>1, <3>2 DEF TypeOK, ListInv, PlaceInv
      <3>5. \A f \in Files \ kept : f \in entries <=> f \in Inserted
        BY <1>0, <2>1 DEF ListInv, Inserted
      <3>6. Manifest' = [made |-> TRUE, files |-> entries] /\ ~ Manifest.made
        BY <2>1, <2>4 DEF Manifest
      <3>7. Promise!Publish
        BY <1>1, <2>1, <2>2, <3>1, <3>3, <3>4, <3>5, <3>6 DEF Promise!Publish, Manifest
      <3> QED
        BY <3>7 DEF Promise!Next
    <2> QED
      BY <2>1, <2>3, <2>4
  <1>10. ASSUME NEW f \in Files, Launch(f) PROVE [Promise!Next]_(Promise!vars)
    <2>1. f \in manifest /\ manifest' = manifest \ {f} /\ cur' = f /\ mode' = mode
          /\ pc # "done" /\ pc' # "done" /\ cur \in Launchings \cup {NoFile} 
          /\ f \notin Launchings /\ Launchings = jobs
      BY <1>10, Launching DEF PlaceInv
    <2>2. CASE pc' = "raised" /\ UNCHANGED jobVars
      <3>1. Site' = Site
        BY <1>1, <2>1, <2>2, PutDirAssumption DEF Site, jobVars
      <3> QED
        BY <1>2, <2>1, <2>2, <3>1 DEF jobVars
    <2>3. CASE pc' = "waitsent"
      <3>1. /\ outcome' = [outcome EXCEPT ![f] = "pending"] /\ outcome[f] = "unmade"
            /\ Launchings' = jobs \cup {f} /\ Running(Files)' = Running(Files) \cup {f}
            /\ kept' \in {kept, kept \cup {f}}
        BY <1>10, <2>1, <2>3, Launching DEF Launchings
      <3>2. Site' = Site
        BY <2>1, <3>1, PutDirAssumption DEF Site
      <3>3. Inserted' = Inserted /\ NotInserted' = NotInserted
        BY <1>0, <3>1 DEF Inserted, NotInserted
      <3>4. f \in Promise!Untouched
        BY <2>1, <3>1 DEF Promise!Untouched, Site, Running, Inserted, NotInserted
      <3>5. Cardinality(Running(Files)) < Limit
        <4>1. CASE mode = "oneByOne"
          <5>1. Running(Files) = {}
            BY <4>1, <1>10, Launching DEF RunInv
          <5> QED
            BY <4>1, <5>1, FS_EmptySet DEF Limit
        <4> QED
          BY <4>1, <1>10, Launching DEF Limit
      <3>6. Limit' = Limit
        BY <2>1 DEF Limit
      <3>7. Manifest' = Manifest
        BY <2>1 DEF Manifest
      <3>8. Promise!Cardinality(Running(Files)) < Limit
        BY <3>5 DEF Promise!Cardinality, Cardinality
      <3>9. Promise!Start(f)
        BY <3>1, <3>2, <3>3, <3>4, <3>6, <3>7, <3>8 DEF Promise!Start, Manifest
      <3> QED
        BY <3>9 DEF Promise!Next
    <2> QED
      BY <1>10, <2>2, <2>3, Launching
  <1>11. ASSUME NEW f \in Files, Answer(f) \/ FailWaiting(f) PROVE Promise!Report(f)
    <2>1. PICK v \in Ticket!Results : outcome' = [outcome EXCEPT ![f] = v]
      BY <1>11, Resolved
    <2>2. /\ UNCHANGED <<mode, pc, manifest, cur, entries, kept>> /\ Launchings' = Launchings
          /\ Running(Files)' = Running(Files) \ {f} /\ f \in Launchings
          /\ outcome[f] = "pending" \/ f \in kept
      BY <1>11, Resolved DEF loopVars, listVars
    <2>3. \/ Inserted' = Inserted \cup {f} /\ NotInserted' = NotInserted \ {f}
          \/ Inserted' = Inserted \ {f} /\ NotInserted' = NotInserted \cup {f}
      BY <1>0, <2>1 DEF Inserted, NotInserted, Ticket!Results
    <2>4. f \in Running(Files) \cup (kept \cap (Inserted \cup NotInserted))
      BY <1>0, <2>2 DEF Running, Inserted, NotInserted, Launchings, Outcomes, Ticket!Results
    <2>5. Site' = Site /\ Limit' = Limit
      BY <2>2 DEF Site, Limit
    <2>6. Manifest' = Manifest
      BY <2>2 DEF Manifest
    <2> QED
      BY <2>2, <2>3, <2>4, <2>5, <2>6 DEF Promise!Report, Manifest
  <1> QED
    BY <1>3, <1>5, <1>6, <1>7, <1>8, <1>9, <1>10, <1>11, Steps DEF Promise!Next

\* When the caller asks for the files to be inserted one by one, or all at once,
\* putdir never runs more inserts than agreed, inserts every file once, and makes
\* the manifest when all have ended, with the files whose insert succeeded. (In
\* the mode "whole" it makes one that names no file: NamesEveryFile.)
THEOREM PutDirKeepsPromise == 
  ASSUME "whole" \notin Modes PROVE Spec => KeepsDirPromise
  <1>1. PutDirInv /\ [Next]_vars => [Promise!Next]_(Promise!vars)
    BY DirSteps
  <1> QED
    BY PutDirInvariance, InitDir, <1>1, PTL DEF Spec, KeepsDirPromise, Promise!Spec
================================================================================

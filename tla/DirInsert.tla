------------------------------- MODULE DirInsert -------------------------------
(***************************************************************************)
(* What FCPNode.putdir (src/fcp3/node.py) promises of the insert of a      *)
(* directory, file by file: no more inserts at a time than agreed, every   *)
(* file once, and in the end a manifest that names the files whose insert  *)
(* succeeded and no others.                                                *)
(***************************************************************************)
EXTENDS FiniteSets, Naturals

CONSTANT Files        \* all files there may be

VARIABLES limit,      \* how many inserts may run at a time
          site,       \* the files to insert
          running,    \* the files being inserted
          inserted,   \* the files whose insert succeeded
          failed,     \* the files whose insert failed
          unsettled,  \* those whose insert may be reported on again
          manifest    \* the files the manifest names, once it is made

vars == <<limit, site, running, inserted, failed, unsettled, manifest>>

NoManifest == [made |-> FALSE, files |-> {}]
Untouched  == site \ (running \cup inserted \cup failed)

Init == /\ limit \in Nat /\ site \subseteq Files
        /\ running = {} /\ inserted = {} /\ failed = {} /\ unsettled = {}
        /\ manifest = NoManifest

Start(f) == /\ f \in Untouched
            /\ Cardinality(running) < limit
            /\ running' = running \cup {f}
            /\ unsettled' \in {unsettled, unsettled \cup {f}}
            /\ UNCHANGED <<limit, site, inserted, failed, manifest>>

Report(f) == /\ f \in running \cup (unsettled \cap (inserted \cup failed))
             /\ running' = running \ {f}
             /\ \/ inserted' = inserted \cup {f} /\ failed' = failed \ {f}
                \/ inserted' = inserted \ {f} /\ failed' = failed \cup {f}
             /\ UNCHANGED <<limit, site, unsettled, manifest>>

Publish == /\ running = {} /\ Untouched = {} /\ ~manifest.made
           /\ \E S \in SUBSET Files :
                /\ S \subseteq inserted \cup failed
                /\ \A f \in Files \ unsettled : f \in S <=> f \in inserted
                /\ manifest' = [made |-> TRUE, files |-> S]
           /\ UNCHANGED <<limit, site, running, inserted, failed, unsettled>>

Next == \/ \E f \in Files : Start(f) \/ Report(f)
        \/ Publish

Spec == Init /\ [][Next]_vars
================================================================================

------------------------------ MODULE JobPromise ------------------------------
(***************************************************************************)
(* What JobTicket (src/fcp3/node.py) promises the threads that share one,  *)
(* without the connection behind it: a ticket is made, gets a result, and  *)
(* wait() hands that result to every caller.  A ticket that stays in the   *)
(* jobs table after its result (keep, persistent, global) may get another  *)
(* one, and a wait() caught by that second release may raise instead.      *)
(***************************************************************************)
CONSTANTS Clients, Tickets

VARIABLES outcome,   \* outcome[t]: "unmade", "pending" or the result of t
          kept,      \* the tickets that may be given another result
          delivered  \* delivered[c]: what the last wait() of c came back with

vars == <<outcome, kept, delivered>>

Results == {"value", "exception"}

Init == /\ outcome = [t \in Tickets |-> "unmade"]
        /\ kept = {}
        /\ delivered = [c \in Clients |-> "none"]

\* Any client may at any time begin or end calls that deliver no result.
MoveOn == \E C \in SUBSET Clients : 
  delivered' = [c \in Clients |-> IF c \in C THEN "none" ELSE delivered[c]]

Make(t) == /\ outcome[t] = "unmade"
           /\ outcome' = [outcome EXCEPT ![t] = "pending"]
           /\ kept' \in {kept, kept \cup {t}}
           /\ MoveOn

Resolve(t) == /\ outcome[t] = "pending" \/ t \in kept
              /\ \E v \in Results : outcome' = [outcome EXCEPT ![t] = v]
              /\ UNCHANGED <<kept, delivered>>

Deliver(c, t) == 
  /\ outcome[t] \in Results
  /\ \/ delivered' = [delivered EXCEPT ![c] = outcome[t]]
     \/ t \in kept /\ delivered' = [delivered EXCEPT ![c] = "RuntimeError"]
  /\ UNCHANGED <<outcome, kept>>

Next == \/ \E t \in Tickets : Make(t) \/ Resolve(t)
        \/ \E c \in Clients, t \in Tickets : Deliver(c, t)
        \/ MoveOn /\ UNCHANGED <<outcome, kept>>

Spec == Init /\ [][Next]_vars
================================================================================

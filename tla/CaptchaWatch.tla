----------------------------- MODULE CaptchaWatch ------------------------------
(***************************************************************************)
(* How babcom_cli waits for others to solve the CAPTCHAs it hands out: the *)
(* loop of watchcaptchasolutionloop on a timer, the generators it asks     *)
(* (watchcaptchas), and the thread that provides new CAPTCHAs at login.    *)
(*                                                                         *)
(* A session from its start on, with the solutions load() read from the    *)
(* file of the last one.  Solutions are distinct, and never more than      *)
(* maxwatchers.                                                            *)
(***************************************************************************)
EXTENDS Naturals, Sequences

CONSTANTS
  Stored,       \* solutions in unusedcaptchasolutions.txt
  New           \* solutions of the CAPTCHAs that introduce() provides

Solutions == Stored \cup New

VARIABLES
  captchasolutions,
  captchawatchers, \* per generator, the solutions whose tasks it still has
  intro,           \* the thread of introduce()
  loop,            \* the loop, "failed" once it has raised
  at, upto,        \* the generator to ask next, and the last of this round
  solved           \* solutions somebody has uploaded an identity to

vars == <<captchasolutions, captchawatchers, intro, loop, at, upto, solved>>

\* The first round is part of the login, which starts the thread afterwards.
Init ==
  /\ captchasolutions = Stored
  /\ captchawatchers = <<>> /\ at = 1 /\ upto = 0
  /\ intro = "later" /\ loop = "begin"
  /\ solved = {}

\* watchcaptchasolutions: what is in the list already counts as watched.
Watch(solutions) ==
  /\ captchasolutions' = captchasolutions \cup solutions
  /\ captchawatchers' = Append(captchawatchers, solutions \ captchasolutions)

Provide ==
  /\ intro = "provide" /\ intro' = "watch"
  /\ captchasolutions' = captchasolutions \cup New
  /\ UNCHANGED <<captchawatchers, loop, at, upto, solved>>

WatchNew ==
  /\ intro = "watch" /\ intro' = "done"
  /\ Watch(New)
  /\ UNCHANGED <<loop, at, upto, solved>>

--------------------------------------------------------------------------------
\* "resubmit all unsolved captchas": then the round begins, over a copy of the list.
Begin ==
  /\ loop = "begin" /\ loop' = "ask"
  /\ IF captchawatchers = <<>> /\ captchasolutions # {}
     THEN Watch(captchasolutions)
     ELSE UNCHANGED <<captchasolutions, captchawatchers>>
  /\ at' = 1 /\ upto' = Len(captchawatchers')
  /\ UNCHANGED <<intro, solved>>

Asks == loop = "ask" /\ at <= upto

\* A generator without tasks ends.
Exhausted ==
  /\ Asks /\ captchawatchers[at] = {}
  /\ captchawatchers' = SubSeq(captchawatchers, 1, at - 1) \o
                        SubSeq(captchawatchers, at + 1, Len(captchawatchers))
  /\ upto' = upto - 1
  /\ UNCHANGED <<captchasolutions, intro, loop, at, solved>>

NothingYet ==
  /\ Asks /\ captchawatchers[at] # {} /\ captchawatchers[at] \cap solved = {}
  /\ at' = at + 1
  /\ UNCHANGED <<captchasolutions, captchawatchers, intro, loop, upto, solved>>

\* identityfrom looks for a string in the bytes of the answer and raises: the
\* timer is not set again.
Found(s) ==
  /\ Asks /\ s \in captchawatchers[at] \cap solved
  /\ captchawatchers' = [captchawatchers EXCEPT ![at] = @ \ {s}]
  /\ captchasolutions' = captchasolutions \ {s}
  /\ loop' = "failed"
  /\ UNCHANGED <<intro, at, upto, solved>>

\* The timer is set, and calls the loop again.
RoundEnds ==
  /\ loop = "ask" /\ at > upto /\ loop' = "begin"
  /\ intro' = IF intro = "later" THEN "provide" ELSE intro
  /\ UNCHANGED <<captchasolutions, captchawatchers, at, upto, solved>>

Loop == Begin \/ Exhausted \/ NothingYet \/ RoundEnds \/ \E s \in Solutions : Found(s)

\* Somebody solves a CAPTCHA and uploads the key of an identity.
Solve(s) ==
  /\ s \in captchasolutions \ solved
  /\ solved' = solved \cup {s}
  /\ UNCHANGED <<captchasolutions, captchawatchers, intro, loop, at, upto>>

Next == Provide \/ WatchNew \/ Loop \/ \E s \in Solutions : Solve(s)

\* The threads run.
Spec == Init /\ [][Next]_vars /\ WF_vars(Loop) /\ WF_vars(Provide \/ WatchNew)

--------------------------------------------------------------------------------
\* "Start watching the solutions of captchas" (443), "remember that the captcha
\* has been solved" (484): while the program runs, a solution that somebody has
\* used is found at some time, and leaves the list.
SolvedIsSeen == \A s \in Solutions : s \in solved ~> s \notin captchasolutions
================================================================================

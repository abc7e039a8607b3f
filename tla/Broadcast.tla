------------------------------ MODULE Broadcast ------------------------------
(***************************************************************************)
(* What the server promises an open page, whatever threads, queues and     *)
(* loops it is built of: there is one log of reports, a page is let in     *)
(* somewhere near its end, and from there it is shown report after report, *)
(* none left out and none out of turn, until it goes.  What it shows, once *)
(* it has begun to listen, is what the reports it has read since say.      *)
(***************************************************************************)
EXTENDS Integers, Sequences

CONSTANTS
  Readers,  \* pages
  Gates,    \* what the pages show the states of
  Reports   \* a report: a function from some of the gates to their states

VARIABLES
  log,      \* the reports published so far
  waiting,  \* readers that have not come yet
  reading,  \* readers that are being served
  at,       \* how much of the log each reader has been shown
  listening, \* readers that take notice of what they are shown
  shows     \* what each reader shows: a function from the gates to states

vars == <<log, waiting, reading, at, listening, shows>>

-----------------------------------------------------------------------------
Overlay(shown, report) ==
  [g \in Gates |-> IF g \in DOMAIN report THEN report[g] ELSE shown[g]]

Init ==
  /\ log = <<>>
  /\ waiting = Readers /\ reading = {}
  /\ at = [r \in Readers |-> 0]
  /\ listening \subseteq Readers
  /\ shows = [r \in Readers |-> [g \in Gates |-> "connecting"]]

Publish(report) ==
  /\ log' = Append(log, report)
  /\ UNCHANGED <<waiting, reading, at, listening, shows>>

\* A reader joins no earlier in the log than any reader has got.
Join(r) ==
  /\ r \in waiting
  /\ waiting' = waiting \ {r}
  /\ reading' = reading \cup {r}
  /\ \E k \in 0 .. Len(log) :
       /\ \A other \in reading : at[other] <= k
       /\ at' = [at EXCEPT ![r] = k]
  /\ UNCHANGED <<log, listening, shows>>

\* The next report, and no other.
Show(r) ==
  /\ r \in reading
  /\ at[r] < Len(log)
  /\ at' = [at EXCEPT ![r] = @ + 1]
  /\ shows' = IF r \in listening
              THEN [shows EXCEPT ![r] = Overlay(@, log[at[r] + 1])]
              ELSE shows
  /\ UNCHANGED <<log, waiting, reading, listening>>

\* A reader begins to listen, whether it is served yet or not.
Listen(r) ==
  /\ listening' = listening \cup {r}
  /\ UNCHANGED <<log, waiting, reading, at, shows>>

\* A reader is turned away, or goes.
Leave(r) ==
  /\ waiting' = waiting \ {r}
  /\ reading' = reading \ {r}
  /\ UNCHANGED <<log, at, listening, shows>>

Next ==
  \/ \E report \in Reports : Publish(report)
  \/ \E r \in Readers : Join(r) \/ Show(r) \/ Listen(r) \/ Leave(r)

Spec == Init /\ [][Next]_vars
=============================================================================

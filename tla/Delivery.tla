------------------------------ MODULE Delivery -------------------------------
(***************************************************************************)
(* Bridge implements Broadcast.  The reports that have gone through        *)
(* incoming_message_queue are remembered in a history variable, log; where *)
(* a page is in it is the number of the last report it has received.       *)
(***************************************************************************)
EXTENDS Bridge

VARIABLE log  \* history: what every message that entered imq says of the gates

deliveryVars == <<vars, log>>

\* The messages that imq' has and log does not.
Entering ==
  [k \in 1 .. popped' + Len(imq') - Len(log) |->
     StatesOf(imq'[Len(log) + k - popped'].body)]

DeliveryInit == Init /\ log = <<>>

DeliveryNext == Next /\ log' = log \o Entering

DeliverySpec == DeliveryInit /\ [][DeliveryNext]_deliveryVars

-----------------------------------------------------------------------------
\* What Broadcast sees of the server.

Reports == {StatesOf(msg) : msg \in ArduinoMessages}

Served(s) == Born(s) /\ page[s].up /\ ws[s].permissions # "Blocked"

Waiting == {s \in Sessions : ~Born(s)}
Reading == {s \in Sessions : Served(s)}
Listening == {s \in Sessions : page[s].configured}
At == [s \in Sessions |-> IF ws[s].permissions = "Blocked" THEN 0 ELSE last[s]]
Shows == [s \in Sessions |-> page[s].shown]

Abstract == INSTANCE Broadcast WITH
  Readers <- Sessions, Gates <- GateIds,
  waiting <- Waiting, reading <- Reading, listening <- Listening,
  at <- At, shows <- Shows

\* common_state.cpp:39 "update all sessions with new state", for the safety of
\* it: line, imq, update, write_queue, do_write and on_write together behave as
\* one log that every page reads from its registration on, report by report,
\* and a page shows what the reports it has read since it has its configuration
\* say, whichever sessions come, fail and go meanwhile.
ImplementsBroadcast == Abstract!Spec
=============================================================================

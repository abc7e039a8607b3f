---------------------------- MODULE GateFirmware ----------------------------
(***************************************************************************)
(* The Arduino program, gate_control.ino: loop() takes at most one message *)
(* off the serial line, answers it, and then ticks every gate once.        *)
(*                                                                         *)
(* One step per message handled and one per gate ticked: the two places    *)
(* where the program writes to the line.  The float Gate::state, 0.0F up   *)
(* to 1.0F by 0.01F, is a position in 0 .. Full moved by Step; in floats a *)
(* hundred steps stop just short of the end and the next one overshoots,   *)
(* which a Step that does not divide Full reproduces.                      *)
(***************************************************************************)
EXTENDS Integers, Sequences

CONSTANTS
  GATE_PINS_SIZE,  \* number of gates the board drives
  Full,            \* position of a raised gate
  Step,            \* distance one tick moves a gate
  Queries,         \* sets of ids a query_state message may ask for
  MaxSerial        \* bound: messages held by either direction of the line

ASSUME FirmwareAssumption ==
  /\ GATE_PINS_SIZE \in Nat \ {0}
  /\ Full \in Nat \ {0}
  /\ Step \in Nat \ {0}
  /\ Queries \subseteq SUBSET Nat
  /\ MaxSerial \in Nat \ {0}

VARIABLES
  gates,     \* the Gate objects
  pin,       \* position each gate's pin was last driven to by analogWrite
  i,         \* next gate of update_gates; GATE_PINS_SIZE at the top of loop()
  rx,        \* messages from the server, not read yet
  tx,        \* messages written and not yet taken by the server
  reported   \* history: the state last written to the line for each gate

vars == <<gates, pin, i, rx, tx, reported>>

Gates == 0 .. GATE_PINS_SIZE - 1

GateState == {"raised", "raising", "lowered", "lowering"}

Gate == [state : 0 .. Full, is_lowering : BOOLEAN,
         is_changing : BOOLEAN, just_finished : BOOLEAN]

-----------------------------------------------------------------------------
\* Messages.  A change_state carries an id the pages offer, one of Gates.

ChangeStates == [type : {"change_state"}, id : Gates, state : BOOLEAN]
QueryStates  == [type : {"query_state"}, ids : Queries]
\* Answered by send_error: no usable type, or a payload of the wrong shape.
Malformed    == [type : {"malformed"}]
\* Input deserializeJson could not make a document of.
NullDocument == [type : {"null"}]

Requests == ChangeStates \cup QueryStates \cup Malformed \cup NullDocument

Reports == [type : {"query_state_result"},
            states : UNION {[S -> GateState] : S \in SUBSET Gates}]
Errors  == [type : {"error"}]

-----------------------------------------------------------------------------
\* Class Gate.

\* Gate::get_state has no return for a gate at rest between its two ends.
GetState(gate) ==
  CASE gate.is_changing /\ gate.is_lowering     -> "lowering"
    [] gate.is_changing /\ ~gate.is_lowering    -> "raising"
    [] ~gate.is_changing /\ gate.state = Full   -> "raised"
    [] ~gate.is_changing /\ gate.state = 0      -> "lowered"
    [] OTHER                                    -> "undefined"

RaiseGate(gate) == [gate EXCEPT !.is_lowering = FALSE, !.is_changing = TRUE]

LowerGate(gate) == [gate EXCEPT !.is_lowering = TRUE, !.is_changing = TRUE]

Moved(gate) ==
  IF gate.is_lowering THEN gate.state - Step ELSE gate.state + Step

\* Mutants: the movement ends a step early; the bottom is not an end.
AtEnd_Early(position) == position <= Step \/ position >= Full - Step
AtEnd_TopOnly(position) == position >= Full

AtEnd(position) == position <= 0 \/ position >= Full

\* Mutant: the two bounds are mixed up.
Clamp_Swapped(position) ==
  IF position < 0 THEN Full ELSE IF position > Full THEN 0 ELSE position

Clamp(position) ==
  IF position < 0 THEN 0 ELSE IF position > Full THEN Full ELSE position

Tick(gate) ==
  IF gate.is_changing
  THEN [gate EXCEPT !.state = Clamp(Moved(gate)),
                    !.is_changing = ~AtEnd(Moved(gate)),
                    !.just_finished = AtEnd(Moved(gate))]
  ELSE [gate EXCEPT !.just_finished = FALSE]

-----------------------------------------------------------------------------
Init ==
  /\ gates = [g \in Gates |-> [state |-> 0, is_lowering |-> FALSE,
                               is_changing |-> FALSE, just_finished |-> FALSE]]
  /\ pin = [g \in Gates |-> 0]
  /\ i = GATE_PINS_SIZE
  /\ rx = <<>>
  /\ tx = <<>>
  /\ reported = [g \in Gates |-> "none"]

\* Mutant: the range check on ids is missing.
SendGateStates_AnyId(ids) ==
  LET StateAt(g) == IF g \in Gates THEN GetState(gates'[g]) ELSE "lowered"
  IN  /\ tx' = Append(tx, [type   |-> "query_state_result",
                           states |-> [g \in ids |-> StateAt(g)]])
      /\ reported' = [g \in Gates |-> IF g \in ids THEN StateAt(g) ELSE reported[g]]

\* send_gate_states: the states, after this step, of the known gates of ids.
SendGateStates(ids) ==
  LET states == [g \in ids \cap Gates |-> GetState(gates'[g])]
  IN  /\ tx' = Append(tx, [type |-> "query_state_result", states |-> states])
      /\ reported' = [g \in Gates |->
                        IF g \in ids THEN GetState(gates'[g]) ELSE reported[g]]

SendNothing == UNCHANGED <<tx, reported>>

ChangeState(msg) ==
  /\ msg.type = "change_state"
  /\ gates' = [gates EXCEPT ![msg.id] =
                 IF msg.state THEN RaiseGate(@) ELSE LowerGate(@)]
  /\ SendGateStates({msg.id})

QueryState(msg) ==
  /\ msg.type = "query_state"
  /\ UNCHANGED gates
  /\ SendGateStates(msg.ids)

SendError(msg) ==
  /\ msg.type = "malformed"
  /\ UNCHANGED <<gates, reported>>
  /\ tx' = Append(tx, [type |-> "error"])

SkipNull(msg) ==
  /\ msg.type = "null"
  /\ UNCHANGED gates
  /\ SendNothing

\* Mutant: every message waiting is handled before the gates are ticked.
HandleMessage_Draining ==
  /\ i = GATE_PINS_SIZE
  /\ rx # <<>>
  /\ Len(tx) < MaxSerial
  /\ LET msg == Head(rx)
     IN  ChangeState(msg) \/ QueryState(msg) \/ SendError(msg) \/ SkipNull(msg)
  /\ rx' = Tail(rx)
  /\ UNCHANGED <<pin, i>>

\* The first half of loop() when Serial.available(): one document, one answer.
HandleMessage ==
  /\ i = GATE_PINS_SIZE
  /\ rx # <<>>
  /\ Len(tx) < MaxSerial
  /\ LET msg == Head(rx)
     IN  ChangeState(msg) \/ QueryState(msg) \/ SendError(msg) \/ SkipNull(msg)
  /\ rx' = Tail(rx)
  /\ i' = 0
  /\ UNCHANGED pin

\* The first half of loop() when nothing has arrived.
NoMessage ==
  /\ i = GATE_PINS_SIZE
  /\ rx = <<>>
  /\ i' = 0
  /\ UNCHANGED <<gates, pin, rx, tx, reported>>

\* Mutants: the end of a movement is looked up before the tick; the pin is
\* driven before the tick.
UpdateGate_ReportsLate ==
  /\ i \in Gates
  /\ Len(tx) < MaxSerial
  /\ gates' = [gates EXCEPT ![i] = Tick(@)]
  /\ pin' = IF gates[i].is_changing
            THEN [pin EXCEPT ![i] = gates'[i].state] ELSE pin
  /\ IF gates[i].just_finished THEN SendGateStates({i}) ELSE SendNothing
  /\ i' = i + 1
  /\ UNCHANGED rx

UpdateGate_DrivesFirst ==
  /\ i \in Gates
  /\ Len(tx) < MaxSerial
  /\ gates' = [gates EXCEPT ![i] = Tick(@)]
  /\ pin' = [pin EXCEPT ![i] = gates[i].state]
  /\ IF gates'[i].just_finished THEN SendGateStates({i}) ELSE SendNothing
  /\ i' = i + 1
  /\ UNCHANGED rx

\* One turn of the loop of update_gates.
UpdateGate ==
  /\ i \in Gates
  /\ Len(tx) < MaxSerial
  /\ gates' = [gates EXCEPT ![i] = Tick(@)]
  /\ pin' = IF gates[i].is_changing
            THEN [pin EXCEPT ![i] = gates'[i].state] ELSE pin
  /\ IF gates'[i].just_finished THEN SendGateStates({i}) ELSE SendNothing
  /\ i' = i + 1
  /\ UNCHANGED rx

Loop == HandleMessage \/ NoMessage \/ UpdateGate

-----------------------------------------------------------------------------
\* The server's end of the line.

HostWrite(msg) ==
  /\ Len(rx) < MaxSerial
  /\ rx' = Append(rx, msg)
  /\ UNCHANGED <<gates, pin, i, tx, reported>>

HostRead ==
  /\ tx # <<>>
  /\ tx' = Tail(tx)
  /\ UNCHANGED <<gates, pin, i, rx, reported>>

Next == Loop \/ (\E msg \in Requests : HostWrite(msg)) \/ HostRead

Spec == Init /\ [][Next]_vars

\* The board calls loop() for ever, and the server keeps a read outstanding.
FairSpec == Spec /\ WF_vars(Loop) /\ WF_vars(HostRead)

-----------------------------------------------------------------------------
TypeOK ==
  /\ gates \in [Gates -> Gate]
  /\ pin \in [Gates -> 0 .. Full]
  /\ i \in 0 .. GATE_PINS_SIZE
  /\ rx \in Seq(Requests)
  /\ tx \in Seq(Reports \cup Errors)
  /\ reported \in [Gates -> GateState \cup {"none"}]

\* get_state always reaches a return: whatever mix of commands and reversals
\* a gate has seen, it comes to rest exactly at one of its two ends.
GetStateDefined == \A g \in Gates : GetState(gates[g]) \in GateState

\* No state change goes unreported: once a gate has been reported at all, the
\* last thing written to the line about it is its present state.
ReportsCurrent ==
  \A g \in Gates : reported[g] # "none" => reported[g] = GetState(gates[g])

\* A gate reported at rest has its pin driven to that end: the brightness the
\* board shows and the state the server is told never contradict each other.
ReportMatchesPin ==
  \A g \in Gates :
    /\ reported[g] = "raised"  => pin[g] = Full
    /\ reported[g] = "lowered" => pin[g] = 0

\* The firmware implements Gate: positions change only as a gate's may.
Position == [g \in Gates |-> GetState(gates[g])]
Abstract == INSTANCE Gate WITH position <- Position
ImplementsGate == Abstract!Spec

\* A gate that is being raised gets there, or is told to lower, however many
\* messages keep arriving: loop() takes one message per round of ticks.
RaisingEnds ==
  \A g \in Gates : Position[g] = "raising" ~> Position[g] \in {"raised", "lowering"}
LoweringEnds ==
  \A g \in Gates : Position[g] = "lowering" ~> Position[g] \in {"lowered", "raising"}
=============================================================================

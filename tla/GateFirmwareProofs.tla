------------------------- MODULE GateFirmwareProofs -------------------------
(***************************************************************************)
(* Proofs about GateFirmware, for any number of gates, any travel and any  *)
(* step.  The inductive invariant IInv adds to the checked invariants the  *)
(* two facts they rest on: a gate at rest is at an end of its travel, and  *)
(* every pin is driven to the position of its gate.                        *)
(***************************************************************************)
EXTENDS GateFirmware, TLAPS

\* A gate that is not moving stands exactly at one of its ends.
RestAtEnd ==
  \A g \in Gates : ~gates[g].is_changing => gates[g].state \in {0, Full}

\* Every pin shows the present position of its gate.
PinCurrent == \A g \in Gates : pin[g] = gates[g].state

IInv == TypeOK /\ RestAtEnd /\ PinCurrent /\ ReportsCurrent

-----------------------------------------------------------------------------
\* The operators of class Gate.

\* What a command or a tick makes of a gate is again a gate.
LEMMA GateOperatorsType ==
  ASSUME NEW gate \in Gate
  PROVE  /\ RaiseGate(gate) \in Gate
         /\ LowerGate(gate) \in Gate
         /\ Tick(gate) \in Gate
<1>1. RaiseGate(gate) \in Gate /\ LowerGate(gate) \in Gate
  BY DEF Gate, RaiseGate, LowerGate
<1>2. Clamp(Moved(gate)) \in 0 .. Full /\ AtEnd(Moved(gate)) \in BOOLEAN
  BY FirmwareAssumption DEF Gate, Moved, Clamp, AtEnd
<1>3. Tick(gate) \in Gate
  BY <1>2 DEF Gate, Tick
<1> QED
  BY <1>1, <1>3

\* get_state returns one of the four states for a gate at rest at an end.
LEMMA GetStateType ==
  ASSUME NEW gate \in Gate,
         ~gate.is_changing => gate.state \in {0, Full}
  PROVE  GetState(gate) \in GateState
BY FirmwareAssumption DEF Gate, GetState, GateState

\* A tick stops a gate only at an end, so it keeps a resting gate there.
LEMMA TickRestsAtEnd ==
  ASSUME NEW gate \in Gate,
         ~gate.is_changing => gate.state \in {0, Full}
  PROVE  ~Tick(gate).is_changing => Tick(gate).state \in {0, Full}
BY FirmwareAssumption DEF Gate, Tick, Moved, AtEnd, Clamp

\* What a tick does to the state seen through get_state: nothing, unless it
\* ends a movement, in the end the gate was moving to, and then it says so.
LEMMA TickGetState ==
  ASSUME NEW gate \in Gate,
         ~gate.is_changing => gate.state \in {0, Full}
  PROVE  \/ GetState(Tick(gate)) = GetState(gate)
         \/ /\ Tick(gate).just_finished
            /\ \/ GetState(gate) = "raising" /\ GetState(Tick(gate)) = "raised"
               \/ GetState(gate) = "lowering" /\ GetState(Tick(gate)) = "lowered"
BY FirmwareAssumption DEF Gate, Tick, Moved, AtEnd, Clamp, GetState

-----------------------------------------------------------------------------
LEMMA InitIInv == Init => IInv
<1> SUFFICES ASSUME Init PROVE IInv
  OBVIOUS
<1> USE FirmwareAssumption
<1>1. TypeOK
  BY DEF Init, TypeOK, Gate, Gates
<1>2. RestAtEnd /\ PinCurrent /\ ReportsCurrent
  BY DEF Init, RestAtEnd, PinCurrent, ReportsCurrent
<1> QED
  BY <1>1, <1>2 DEF IInv

\* A report of the present states is a well-typed message, and it makes the
\* last report of every gate it names current.
LEMMA SendGateStatesTyped ==
  ASSUME TypeOK, gates' \in [Gates -> Gate],
         \A g \in Gates : GetState(gates'[g]) \in GateState,
         NEW ids, SendGateStates(ids)
  PROVE  /\ tx' \in Seq(Reports \cup Errors)
         /\ reported' \in [Gates -> GateState \cup {"none"}]
         /\ \A g \in Gates : reported'[g] = IF g \in ids THEN GetState(gates'[g])
                                                         ELSE reported[g]
<1> DEFINE states == [g \in ids \cap Gates |-> GetState(gates'[g])]
<1>1. states \in [ids \cap Gates -> GateState]
  OBVIOUS
<1>2. [type |-> "query_state_result", states |-> states] \in Reports
  BY <1>1 DEF Reports
<1>3. tx' \in Seq(Reports \cup Errors)
  BY <1>2 DEF SendGateStates, TypeOK
<1>4. reported' = [g \in Gates |-> IF g \in ids THEN GetState(gates'[g])
                                                ELSE reported[g]]
  BY DEF SendGateStates
<1>5. reported' \in [Gates -> GateState \cup {"none"}]
  BY <1>4 DEF TypeOK
<1> QED
  BY <1>3, <1>4, <1>5

\* Every message the firmware handles leaves the invariant true.
LEMMA HandleMessageIInv == IInv /\ HandleMessage => IInv'
<1> SUFFICES ASSUME IInv, HandleMessage PROVE IInv'
  OBVIOUS
<1> DEFINE msg == Head(rx)
<1> USE FirmwareAssumption
<1>1. /\ msg \in Requests
      /\ rx' \in Seq(Requests)
      /\ i' \in 0 .. GATE_PINS_SIZE
      /\ pin' = pin
  BY DEF HandleMessage, IInv, TypeOK
<1>2. CASE ChangeState(msg)
  <2> DEFINE new == IF msg.state THEN RaiseGate(gates[msg.id])
                                 ELSE LowerGate(gates[msg.id])
  <2>1. msg.id \in Gates
    BY <1>1, <1>2 DEF ChangeState, Requests, ChangeStates, QueryStates,
                      Malformed, NullDocument
  <2>2. /\ gates' = [gates EXCEPT ![msg.id] = new]
        /\ gates \in [Gates -> Gate]
    BY <1>2 DEF ChangeState, IInv, TypeOK
  <2>3. new \in Gate
    BY <2>1, <2>2, GateOperatorsType
  <2>4. new.is_changing /\ new.state = gates[msg.id].state
    BY <2>1, <2>2 DEF RaiseGate, LowerGate, Gate
  <2>5. gates' \in [Gates -> Gate]
    BY <2>2, <2>3
  <2>6. RestAtEnd'
    BY <2>1, <2>2, <2>4 DEF RestAtEnd, IInv
  <2>7. PinCurrent'
    BY <1>1, <2>1, <2>2, <2>4 DEF PinCurrent, IInv
  <2>8. \A g \in Gates : GetState(gates'[g]) \in GateState
    BY <2>5, <2>6, GetStateType DEF RestAtEnd
  <2>9. /\ tx' \in Seq(Reports \cup Errors)
        /\ reported' \in [Gates -> GateState \cup {"none"}]
        /\ \A g \in Gates : reported'[g] = IF g \in {msg.id}
                                  THEN GetState(gates'[g]) ELSE reported[g]
    <3>1. TypeOK /\ SendGateStates({msg.id})
      BY <1>2 DEF IInv, ChangeState
    <3> HIDE DEF new, msg
    <3> QED
      BY <3>1, <2>5, <2>8, SendGateStatesTyped
  <2>10. \A g \in Gates : g # msg.id => gates'[g] = gates[g]
    BY <2>2
  <2>11. ReportsCurrent'
    BY <2>9, <2>10 DEF ReportsCurrent, IInv
  <2>12. TypeOK'
    BY <1>1, <2>5, <2>9 DEF TypeOK, IInv
  <2> QED
    BY <2>6, <2>7, <2>11, <2>12 DEF IInv
<1>3. CASE QueryState(msg)
  <2>1. gates' = gates /\ SendGateStates(msg.ids)
    BY <1>3 DEF QueryState
  <2>2. \A g \in Gates : GetState(gates'[g]) \in GateState
    BY <2>1, GetStateType DEF IInv, TypeOK, RestAtEnd
  <2>3. /\ tx' \in Seq(Reports \cup Errors)
        /\ reported' \in [Gates -> GateState \cup {"none"}]
        /\ \A g \in Gates : reported'[g] = IF g \in msg.ids
                                  THEN GetState(gates'[g]) ELSE reported[g]
    <3>1. TypeOK /\ gates' \in [Gates -> Gate]
      BY <2>1 DEF IInv, TypeOK
    <3> HIDE DEF msg
    <3> QED
      BY <3>1, <2>1, <2>2, SendGateStatesTyped
  <2>4. ReportsCurrent'
    BY <2>1, <2>3 DEF ReportsCurrent, IInv
  <2>5. TypeOK'
    BY <1>1, <2>1, <2>3 DEF TypeOK, IInv
  <2>6. RestAtEnd' /\ PinCurrent'
    BY <1>1, <2>1 DEF RestAtEnd, PinCurrent, IInv
  <2> QED
    BY <2>4, <2>5, <2>6 DEF IInv
<1>4. CASE SendError(msg)
  <2>1. tx' \in Seq(Reports \cup Errors)
    BY <1>4 DEF SendError, Errors, IInv, TypeOK
  <2> QED
    BY <1>1, <1>4, <2>1
    DEF SendError, IInv, TypeOK, RestAtEnd, PinCurrent, ReportsCurrent
<1>5. CASE SkipNull(msg)
  BY <1>1, <1>5 DEF SkipNull, SendNothing, IInv, TypeOK, RestAtEnd, PinCurrent,
                    ReportsCurrent
<1> QED
  BY <1>2, <1>3, <1>4, <1>5 DEF HandleMessage

\* One turn of update_gates leaves the invariant true: what the tick changes
\* through get_state it reports, and the pin follows the position.
LEMMA UpdateGateIInv == IInv /\ UpdateGate => IInv'
<1> SUFFICES ASSUME IInv, UpdateGate PROVE IInv'
  OBVIOUS
<1> DEFINE new == Tick(gates[i])
<1> USE FirmwareAssumption
<1>1. /\ i \in Gates
      /\ gates \in [Gates -> Gate]
      /\ gates' = [gates EXCEPT ![i] = new]
      /\ ~gates[i].is_changing => gates[i].state \in {0, Full}
  BY DEF UpdateGate, IInv, TypeOK, RestAtEnd
<1>2. /\ new \in Gate
      /\ ~new.is_changing => new.state \in {0, Full}
      /\ \/ GetState(new) = GetState(gates[i])
         \/ new.just_finished
  BY <1>1, GateOperatorsType, TickRestsAtEnd, TickGetState
<1>3. ~gates[i].is_changing => new.state = gates[i].state
  BY <1>1 DEF Tick, Gate
<1>4. gates' \in [Gates -> Gate] /\ gates'[i] = new
  BY <1>1, <1>2
<1>5. RestAtEnd'
  BY <1>1, <1>2 DEF RestAtEnd, IInv
<1>6. /\ pin' \in [Gates -> 0 .. Full]
      /\ PinCurrent'
  <2>1. pin \in [Gates -> 0 .. Full] /\ new.state \in 0 .. Full
    BY <1>2 DEF IInv, TypeOK, Gate
  <2>2. CASE gates[i].is_changing
    <3>1. pin' = [pin EXCEPT ![i] = new.state]
      BY <2>2, <1>4 DEF UpdateGate
    <3> HIDE DEF new
    <3> QED
      BY <3>1, <2>1, <1>1 DEF PinCurrent, IInv
  <2>3. CASE ~gates[i].is_changing
    <3>1. pin' = pin /\ new.state = gates[i].state
      BY <2>3, <1>3 DEF UpdateGate
    <3> HIDE DEF new
    <3> QED
      BY <3>1, <2>1, <1>1 DEF PinCurrent, IInv
  <2> QED
    BY <2>2, <2>3
<1>7. \A g \in Gates : GetState(gates'[g]) \in GateState
  BY <1>4, <1>5, GetStateType DEF RestAtEnd
<1>8. /\ tx' \in Seq(Reports \cup Errors)
      /\ reported' \in [Gates -> GateState \cup {"none"}]
      /\ ReportsCurrent'
  <2>1. \A g \in Gates : g # i => gates'[g] = gates[g]
    BY <1>1
  <2>2. CASE new.just_finished
    <3>1. SendGateStates({i})
      BY <1>4, <2>2 DEF UpdateGate
    <3>2. /\ tx' \in Seq(Reports \cup Errors)
          /\ reported' \in [Gates -> GateState \cup {"none"}]
          /\ \A g \in Gates : reported'[g] = IF g \in {i}
                                    THEN GetState(gates'[g]) ELSE reported[g]
      BY <3>1, <1>4, <1>7, SendGateStatesTyped DEF IInv
    <3> QED
      BY <3>2, <2>1 DEF ReportsCurrent, IInv
  <2>3. CASE ~new.just_finished
    <3>1. /\ tx' = tx /\ reported' = reported
          /\ GetState(gates'[i]) = GetState(gates[i])
      BY <1>2, <1>4, <2>3 DEF UpdateGate, SendNothing
    <3>2. \A g \in Gates : GetState(gates'[g]) = GetState(gates[g])
      BY <3>1, <2>1
    <3> QED
      BY <3>1, <3>2 DEF ReportsCurrent, IInv, TypeOK
  <2> QED
    BY <2>2, <2>3
<1>9. i' \in 0 .. GATE_PINS_SIZE /\ rx' = rx
  BY <1>1 DEF UpdateGate, Gates
<1> QED
  BY <1>4, <1>5, <1>6, <1>8, <1>9 DEF IInv, TypeOK

\* IInv is inductive.
LEMMA NextIInv == IInv /\ [Next]_vars => IInv'
<1> SUFFICES ASSUME IInv, [Next]_vars PROVE IInv'
  OBVIOUS
<1> USE FirmwareAssumption
<1>1. CASE HandleMessage
  BY <1>1, HandleMessageIInv
<1>2. CASE NoMessage
  BY <1>2 DEF NoMessage, IInv, TypeOK, RestAtEnd, PinCurrent, ReportsCurrent
<1>3. CASE UpdateGate
  BY <1>3, UpdateGateIInv
<1>4. ASSUME NEW msg \in Requests, HostWrite(msg) PROVE IInv'
  BY <1>4 DEF HostWrite, IInv, TypeOK, RestAtEnd, PinCurrent, ReportsCurrent
<1>5. CASE HostRead
  BY <1>5 DEF HostRead, IInv, TypeOK, RestAtEnd, PinCurrent, ReportsCurrent
<1>6. CASE UNCHANGED vars
  BY <1>6 DEF vars, IInv, TypeOK, RestAtEnd, PinCurrent, ReportsCurrent
<1> QED
  BY <1>1, <1>2, <1>3, <1>4, <1>5, <1>6 DEF Next, Loop

\* IInv holds in every reachable state.
LEMMA Invariance == Spec => []IInv
  BY InitIInv, NextIInv, PTL DEF Spec

-----------------------------------------------------------------------------
\* The firmware's variables always have their types.
THEOREM Typing == Spec => []TypeOK
<1>1. IInv => TypeOK
  BY DEF IInv
<1> QED
  BY <1>1, Invariance, PTL

\* get_state never falls off its end (gate_control.ino:88-97).
THEOREM StateDefined == Spec => []GetStateDefined
<1>1. IInv => GetStateDefined
  BY GetStateType DEF IInv, TypeOK, RestAtEnd, GetStateDefined
<1> QED
  BY <1>1, Invariance, PTL

\* The last report about a gate is its present state: no change of state, by a
\* command or by the end of a movement, is left unreported.
THEOREM ReportsAreCurrent == Spec => []ReportsCurrent
<1>1. IInv => ReportsCurrent
  BY DEF IInv
<1> QED
  BY <1>1, Invariance, PTL

\* The board never tells the server that a gate has arrived while its pin is
\* driven to another position.
THEOREM ReportsMatchPins == Spec => []ReportMatchesPin
<1>1. IInv => ReportMatchesPin
  <2> SUFFICES ASSUME IInv, NEW g \in Gates
               PROVE  /\ reported[g] = "raised"  => pin[g] = Full
                      /\ reported[g] = "lowered" => pin[g] = 0
    BY DEF ReportMatchesPin
  <2>1. reported[g] # "none" => reported[g] = GetState(gates[g])
    BY DEF IInv, ReportsCurrent
  <2>2. /\ GetState(gates[g]) = "raised"  => gates[g].state = Full
        /\ GetState(gates[g]) = "lowered" => gates[g].state = 0
    BY DEF GetState, IInv, TypeOK, Gate
  <2>3. pin[g] = gates[g].state
    BY DEF IInv, PinCurrent
  <2> QED
    BY <2>1, <2>2, <2>3
<1> QED
  BY <1>1, Invariance, PTL

\* The gates start lowered.
LEMMA InitImplements == Init => Abstract!Init
<1> USE FirmwareAssumption
<1> SUFFICES ASSUME Init PROVE Position = [g \in Gates |-> "lowered"]
  BY DEF Abstract!Init
<1>1. \A g \in Gates : GetState(gates[g]) = "lowered"
  BY DEF Init, GetState
<1> QED
  BY <1>1 DEF Position

\* Every step of the board is one of Gate or leaves the positions as they are.
LEMMA NextImplements == IInv /\ [Next]_vars => [Abstract!Next]_Position
<1> USE FirmwareAssumption
<1> SUFFICES ASSUME IInv, [Next]_vars
             PROVE  Position' = Position \/ Abstract!Next
  OBVIOUS
<1>1. gates \in [Gates -> Gate]
  BY DEF IInv, TypeOK
<1>2. ASSUME gates' = gates PROVE Position' = Position
  BY <1>2 DEF Position
<1>3. ASSUME NEW g \in Gates, NEW new,
             gates' = [gates EXCEPT ![g] = new]
      PROVE  Position' = [Position EXCEPT ![g] = GetState(new)]
  <2>1. \A h \in Gates : GetState(gates'[h]) =
          IF h = g THEN GetState(new) ELSE GetState(gates[h])
    BY <1>1, <1>3
  <2>2. Position' = [h \in Gates |-> IF h = g THEN GetState(new)
                                             ELSE GetState(gates[h])]
    BY <2>1 DEF Position
  <2> QED
    BY <2>2 DEF Position
<1>4. ASSUME HandleMessage, ChangeState(Head(rx))
      PROVE  Abstract!Next
  <2> DEFINE msg == Head(rx)
             new == IF msg.state THEN RaiseGate(gates[msg.id])
                                 ELSE LowerGate(gates[msg.id])
  <2>1. msg \in Requests
    BY <1>4 DEF HandleMessage, IInv, TypeOK
  <2>2. msg.id \in Gates
    BY <1>4, <2>1 DEF ChangeState, Requests, ChangeStates, QueryStates,
                      Malformed, NullDocument
  <2>3. gates' = [gates EXCEPT ![msg.id] = new]
    BY <1>4 DEF ChangeState
  <2>4. Position' = [Position EXCEPT ![msg.id] = GetState(new)]
    <3> HIDE DEF new, msg
    <3> QED
      BY <1>3, <2>2, <2>3
  <2>5. GetState(new) = IF msg.state THEN "raising" ELSE "lowering"
    BY <1>1, <2>2 DEF RaiseGate, LowerGate, GetState, Gate
  <2>6. Abstract!Raise(msg.id) \/ Abstract!Lower(msg.id)
    BY <2>4, <2>5 DEF Abstract!Raise, Abstract!Lower
  <2> QED
    BY <2>2, <2>6 DEF Abstract!Next
<1>5. ASSUME UpdateGate PROVE Position' = Position \/ Abstract!Next
  <2> DEFINE new == Tick(gates[i])
  <2>1. i \in Gates /\ gates' = [gates EXCEPT ![i] = new]
    BY <1>5 DEF UpdateGate
  <2>2. Position' = [Position EXCEPT ![i] = GetState(new)]
    <3> HIDE DEF new
    <3> QED
      BY <1>3, <2>1
  <2>3. Position[i] = GetState(gates[i])
    BY <2>1 DEF Position
  <2>4. \/ GetState(new) = Position[i]
        \/ Position[i] = "raising" /\ GetState(new) = "raised"
        \/ Position[i] = "lowering" /\ GetState(new) = "lowered"
    BY <1>1, <2>1, <2>3, TickGetState DEF IInv, RestAtEnd
  <2>5. Position' = Position \/ Abstract!Finish(i)
    <3>1. [Position EXCEPT ![i] = Position[i]] = Position
      BY DEF Position
    <3> HIDE DEF new
    <3> QED
      BY <2>2, <2>4, <3>1 DEF Abstract!Finish
  <2> QED
    BY <2>1, <2>5 DEF Abstract!Next
<1>6. ASSUME HandleMessage, ~ChangeState(Head(rx)) PROVE gates' = gates
  BY <1>6 DEF HandleMessage, QueryState, SendError, SkipNull
<1>7. ASSUME \/ NoMessage
             \/ \E msg \in Requests : HostWrite(msg)
             \/ HostRead
             \/ UNCHANGED vars
      PROVE  gates' = gates
  BY <1>7 DEF NoMessage, HostWrite, HostRead, vars
<1> QED
  BY <1>2, <1>4, <1>5, <1>6, <1>7 DEF Next, Loop

\* The firmware implements the abstract gate: through get_state, a command is a
\* Raise or a Lower, the tick that ends a movement is a Finish, and every other
\* step changes nothing.
THEOREM FirmwareImplementsGate == Spec => ImplementsGate
<1> QED
  BY InitImplements, NextImplements, Invariance, PTL DEF ImplementsGate, Abstract!Spec, Spec
=============================================================================

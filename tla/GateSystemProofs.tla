-------------------------- MODULE GateSystemProofs --------------------------
(***************************************************************************)
(* Proofs about GateSystem, for any numbers of sessions and gates.         *)
(*                                                                         *)
(* The inductive invariant joins those of the server and of the board,     *)
(* which BridgeProofs and GateFirmwareProofs show each end of the line to  *)
(* keep, and adds what only the whole system can know: while nobody may    *)
(* command the gates they have not moved, and the last word about a gate   *)
(* on any way from the board to a page is the gate's present state.        *)
(***************************************************************************)
EXTENDS GateSystem, BridgeProofs

FW == INSTANCE GateFirmwareProofs

-----------------------------------------------------------------------------
\* The two ends of the line.

Messages == FW!Reports \cup FW!Errors

\* The system's board is the one GateFirmwareProofs is about.
LEMMA SameBoard ==
  /\ GateIds = FW!Gates
  /\ Firmware!Init <=> FW!Init
  /\ Firmware!HandleMessage <=> FW!HandleMessage
  /\ Firmware!NoMessage <=> FW!NoMessage
  /\ Firmware!UpdateGate <=> FW!UpdateGate
  /\ Firmware!Position = FW!Position
<1>1. GateIds = FW!Gates
  BY SystemAssumption DEF Firmware!Gates, FW!Gates
<1>2. (Firmware!Init <=> FW!Init) /\ (Firmware!NoMessage <=> FW!NoMessage)
  BY DEF Firmware!Init, FW!Init, Firmware!Gates, FW!Gates,
         Firmware!NoMessage, FW!NoMessage
<1>3. Firmware!Position = FW!Position
  BY DEF Firmware!Position, FW!Position, Firmware!Gates, FW!Gates,
         Firmware!GetState, FW!GetState
<1>4. Firmware!HandleMessage <=> FW!HandleMessage
  BY DEF Firmware!HandleMessage, FW!HandleMessage,
         Firmware!ChangeState, FW!ChangeState, Firmware!QueryState, FW!QueryState,
         Firmware!SendError, FW!SendError, Firmware!SkipNull, FW!SkipNull,
         Firmware!SendNothing, FW!SendNothing,
         Firmware!SendGateStates, FW!SendGateStates, Firmware!Gates, FW!Gates,
         Firmware!GetState, FW!GetState,
         Firmware!RaiseGate, FW!RaiseGate, Firmware!LowerGate, FW!LowerGate
<1>5. Firmware!UpdateGate <=> FW!UpdateGate
  BY DEF Firmware!UpdateGate, FW!UpdateGate, Firmware!Tick, FW!Tick,
         Firmware!Moved, FW!Moved, Firmware!Clamp, FW!Clamp,
         Firmware!AtEnd, FW!AtEnd, Firmware!SendNothing, FW!SendNothing,
         Firmware!SendGateStates, FW!SendGateStates, Firmware!Gates, FW!Gates,
         Firmware!GetState, FW!GetState
<1> QED
  BY <1>1, <1>2, <1>3, <1>4, <1>5

LEMMA BoardAssumption ==
  /\ GATE_PINS_SIZE \in Nat \ {0}
  /\ Full \in Nat \ {0}
  /\ Step \in Nat \ {0}
  /\ Queries \subseteq SUBSET Nat
  /\ MaxSerial \in Nat \ {0}
BY SystemAssumption DEF Firmware!FirmwareAssumption

\* Whatever the server writes to the line the firmware knows how to read.
LEMMA RequestsUnderstood == BoardRequests \subseteq FW!Requests
<1>1. \A msg \in ClientMessages : msg.request \in FW!Requests
  BY SystemAssumption
     DEF Firmware!Requests, FW!Requests, Firmware!ChangeStates, FW!ChangeStates,
         Firmware!QueryStates, FW!QueryStates, Firmware!Malformed, FW!Malformed,
         Firmware!NullDocument, FW!NullDocument, Firmware!Gates, FW!Gates
<1>2. QueryAllGates \in FW!Requests
  BY SystemAssumption DEF QueryAllGates, FW!Requests, FW!QueryStates
<1> QED
  BY <1>1, <1>2 DEF BoardRequests

PartsSound == IInv(Messages) /\ FW!IInv

LEMMA InitParts == SystemInit => PartsSound
<1> SUFFICES ASSUME SystemInit PROVE PartsSound
  OBVIOUS
<1>1. IInv(Messages)
  BY InitIInv DEF SystemInit
<1>2. FW!IInv
  BY SameBoard, FW!InitIInv, BoardAssumption DEF SystemInit
<1> QED
  BY <1>1, <1>2 DEF PartsSound

LEMMA ServerParts ==
  ASSUME PartsSound, ServerStep
  PROVE  PartsSound'
<1>1. IInv(Messages)'
  BY ServerIInv DEF PartsSound, ServerStep
<1>2. rx' \in Seq(FW!Requests) /\ tx' \in Seq(Messages)
  <2>1. rx' \in Seq(BoardRequests) /\ tx' \in Seq(Messages)
    BY <1>1 DEF IInv, Typed
  <2> QED
    BY <2>1, RequestsUnderstood
<1>3. FW!IInv'
  <2>1. UNCHANGED <<gates, pin, i, reported>> /\ FW!IInv
    BY DEF PartsSound, ServerStep, boardVars
  <2> QED
    BY <1>2, <2>1 DEF FW!IInv, FW!TypeOK, FW!RestAtEnd, FW!PinCurrent,
                      FW!ReportsCurrent, Messages
<1> QED
  BY <1>1, <1>3 DEF PartsSound

LEMMA BoardIInv ==
  ASSUME PartsSound, BoardStep
  PROVE  FW!IInv'
<1>1. FW!HandleMessage \/ FW!NoMessage \/ FW!UpdateGate
  BY SameBoard DEF BoardStep, Firmware!Loop
<1>2. FW!IInv /\ FW!Next
  BY <1>1 DEF PartsSound, FW!Next, FW!Loop
<1> QED
  BY <1>2, FW!NextIInv, BoardAssumption

LEMMA SentIsMessage ==
  ASSUME PartsSound, BoardStep, NEW msg, tx' = Append(tx, msg)
  PROVE  msg \in Messages
<1>1. tx \in Seq(Messages) /\ tx' \in Seq(Messages)
  BY BoardIInv DEF PartsSound, IInv, Typed, FW!IInv, FW!TypeOK, Messages
<1>2. tx'[Len(tx) + 1] = msg /\ Len(tx') = Len(tx) + 1 /\ Len(tx) \in Nat
  BY <1>1
<1> QED
  BY <1>1, <1>2, ElementOfSeq

\* What a step of the board's loop does to the line: it takes at most one
\* request off it and answers with at most one message.
LEMMA LoopOnLine ==
  ASSUME PartsSound, BoardStep
  PROVE  /\ (rx # <<>> /\ rx' = Tail(rx)) \/ rx' = rx
         /\ tx' = tx \/ \E msg \in Messages : tx' = Append(tx, msg)
<1>1. Firmware!Loop
  BY DEF BoardStep
<1>2. /\ (rx # <<>> /\ rx' = Tail(rx)) \/ rx' = rx
      /\ tx' = tx \/ \E msg : tx' = Append(tx, msg)
  BY <1>1, SameBoard
     DEF Firmware!Loop, FW!HandleMessage, FW!NoMessage, FW!UpdateGate,
         FW!ChangeState, FW!QueryState, FW!SendError, FW!SkipNull,
         FW!SendGateStates, FW!SendNothing
<1> QED
  BY <1>2, SentIsMessage

LEMMA BoardParts ==
  ASSUME PartsSound, BoardStep
  PROVE  PartsSound'
<1>1. FW!IInv'
  BY BoardIInv
<1>2. IInv(Messages)'
  <2>1. /\ UNCHANGED <<com, omq, imq, sessions, ws, popped, page, last, cut, spent>>
        /\ IInv(Messages)
    BY DEF PartsSound, BoardStep, serverVars, pageVars
  <2>2. /\ rx \in Seq(BoardRequests) /\ tx \in Seq(Messages)
        /\ spent \in [clients : Nat, board : Nat]
    BY <2>1 DEF IInv, Typed
  <2>3. rx' \in Seq(BoardRequests)
    BY <2>2, LoopOnLine, HeadTailProperties
  <2>4. tx' \in Seq(Messages) /\ Len(tx') >= Len(tx)
    BY <2>2, LoopOnLine, AppendProperties
  <2> QED
    BY <2>1, <2>2, <2>3, <2>4, FarEndStep
<1> QED
  BY <1>1, <1>2 DEF PartsSound

LEMMA SystemParts == PartsSound /\ [SystemNext]_systemVars => PartsSound'
<1> SUFFICES ASSUME PartsSound, [SystemNext]_systemVars
             PROVE  PartsSound'
  OBVIOUS
<1>1. CASE UNCHANGED systemVars
  <2>1. UNCHANGED <<com, omq, imq, sessions, ws, popped, page, last, rx, tx, cut,
                    spent, gates, pin, i, reported>>
    BY <1>1 DEF systemVars, boardVars, vars, serverVars, lineVars, pageVars
  <2>2. IInv(Messages)'
    BY <2>1 DEF PartsSound, IInv, Typed, SessionsSound, PortSound
  <2>3. FW!IInv'
    BY <2>1 DEF PartsSound, FW!IInv, FW!TypeOK, FW!RestAtEnd, FW!PinCurrent,
                FW!ReportsCurrent
  <2> QED
    BY <2>2, <2>3 DEF PartsSound
<1> QED
  BY <1>1, ServerParts, BoardParts DEF SystemNext

LEMMA PartsInvariance == SystemSpec => []PartsSound
BY InitParts, SystemParts, PTL DEF SystemSpec

-----------------------------------------------------------------------------
\* What the parts promise by themselves they keep in the whole: the board still
\* reports every change of a gate, however the server talks to it.
THEOREM BoardReportsChanges == SystemSpec => []FW!ReportsCurrent
<1>1. PartsSound => FW!ReportsCurrent
  BY DEF PartsSound, FW!IInv
<1> QED
  BY <1>1, PartsInvariance, PTL

\* Whatever the server writes to the line, each gate does what Gate says: it starts
\* lowered, moves when told to, and only a movement under way ends.
THEOREM SystemImplementsGate == SystemSpec => FW!ImplementsGate
<1>1. SystemInit => FW!Abstract!Init
  BY SameBoard, FW!InitImplements, BoardAssumption DEF SystemInit
<1>2. PartsSound /\ [SystemNext]_systemVars => [FW!Abstract!Next]_(FW!Position)
  <2> SUFFICES ASSUME PartsSound, [SystemNext]_systemVars
               PROVE  [FW!Abstract!Next]_(FW!Position)
    OBVIOUS
  <2>1. CASE BoardStep
    <3>1. FW!HandleMessage \/ FW!NoMessage \/ FW!UpdateGate
      BY <2>1, SameBoard DEF BoardStep, Firmware!Loop
    <3>2. FW!IInv /\ FW!Next
      BY <3>1 DEF PartsSound, FW!Next, FW!Loop
    <3> QED
      BY <3>2, FW!NextImplements, BoardAssumption
  <2>2. CASE ServerStep \/ UNCHANGED systemVars
    <3>1. gates' = gates
      BY <2>2 DEF ServerStep, boardVars, systemVars
    <3> QED
      BY <3>1 DEF FW!Position
  <2> QED
    BY <2>1, <2>2 DEF SystemNext
<1> QED
  BY <1>1, <1>2, PartsInvariance, PTL DEF SystemSpec, FW!ImplementsGate, FW!Abstract!Spec

\* The server still hands every open page every report, in order and once.
THEOREM ReportsInOrderInSystem == SystemSpec => []GapFreeDelivery
<1>1. PartsSound => GapFreeDelivery
  BY DEF PartsSound, IInv, SessionsSound, Sound, PortSound, Numbered,
         GapFreeDelivery, Pending, Born
<1> QED
  BY <1>1, PartsInvariance, PTL

-----------------------------------------------------------------------------
\* Movement.

\* Every gate rests where it was when the board was switched on.
Still == \A g \in GateIds : ~gates[g].is_changing /\ gates[g].state = 0

\* The first half of loop() does not set a gate in motion for a query, and the
\* second moves only gates in motion.
LEMMA QueriesMoveNothing ==
  ASSUME PartsSound, BoardStep, OnlyQueries, Still
  PROVE  OnlyQueries' /\ Still'
<1>1. OnlyQueries'
  <2>1. UNCHANGED <<com, omq>> /\ rx \in QuerySeqs
    BY DEF BoardStep, serverVars, OnlyQueries
  <2>2. rx' \in QuerySeqs
    BY <2>1, LoopOnLine, HeadTail DEF QuerySeqs
  <2> QED
    BY <2>1, <2>2 DEF OnlyQueries
<1>2. CASE FW!HandleMessage
  <2>1. rx # <<>> /\ Head(rx) = QueryAllGates
    BY <1>2, HeadTail DEF FW!HandleMessage, OnlyQueries, QuerySeqs
  <2>2. gates' = gates
    BY <1>2, <2>1 DEF FW!HandleMessage, FW!ChangeState, FW!QueryState, FW!SendError,
                      FW!SkipNull, QueryAllGates
  <2> QED
    BY <1>1, <2>2 DEF Still
<1>3. CASE FW!NoMessage
  BY <1>1, <1>3 DEF FW!NoMessage, Still
<1>4. CASE FW!UpdateGate
  <2> DEFINE new == FW!Tick(gates[i])
  <2>1. i \in GateIds /\ gates \in [GateIds -> FW!Gate]
        /\ gates' = [gates EXCEPT ![i] = new]
    BY <1>4, SameBoard DEF FW!UpdateGate, PartsSound, FW!IInv, FW!TypeOK
  <2>2. ~new.is_changing /\ new.state = 0
    BY <2>1 DEF Still, FW!Tick, FW!Gate
  <2> HIDE DEF new
  <2> QED
    BY <1>1, <2>1, <2>2 DEF Still
<1> QED
  BY <1>2, <1>3, <1>4, SameBoard DEF BoardStep, Firmware!Loop

\* No gate moves before a session is granted Control: handle_message lets only a
\* controller's messages through, and a query of the server's own moves nothing.
THEOREM MovementNeedsControl == SystemSpec => []NoControllerNoMovement
<1> DEFINE inv == NobodyControls => OnlyQueries /\ Still
<1>1. SystemInit => inv
  <2>1. Init => OnlyQueries
    BY EmptySeq DEF Init, OnlyQueries, QuerySeqs
  <2>2. FW!Init => Still
    BY SameBoard DEF FW!Init, Still
  <2> QED
    BY <2>1, <2>2, SameBoard DEF SystemInit
<1>2. PartsSound /\ inv /\ [SystemNext]_systemVars => inv'
  <2> SUFFICES ASSUME PartsSound, inv, [SystemNext]_systemVars, NobodyControls'
               PROVE  OnlyQueries' /\ Still'
    OBVIOUS
  <2>1. IInv(Messages)
    BY DEF PartsSound
  <2>2. NobodyControls
    <3>1. Server \/ UNCHANGED ws
      BY DEF SystemNext, ServerStep, BoardStep, systemVars, vars, serverVars
    <3> QED
      BY <2>1, <3>1, ControlIsKept
  <2>3. CASE ServerStep
    <3>1. OnlyQueries'
      BY <2>1, <2>2, <2>3, ServerOnlyQueries DEF ServerStep
    <3>2. Still'
      BY <2>2, <2>3 DEF ServerStep, boardVars, Still
    <3> QED
      BY <3>1, <3>2
  <2>4. CASE BoardStep
    BY <2>2, <2>4, QueriesMoveNothing
  <2>5. CASE UNCHANGED systemVars
    BY <2>2, <2>5 DEF systemVars, vars, serverVars, lineVars, boardVars, OnlyQueries, Still
  <2> QED
    BY <2>3, <2>4, <2>5 DEF SystemNext
<1>3. inv => NoControllerNoMovement
  <2>1. Still => \A g \in GateIds : FW!Position[g] = "lowered"
    BY SameBoard, BoardAssumption DEF Still, FW!Position, FW!GetState
  <2> QED
    BY <2>1, SameBoard DEF NobodyControls, NoControllerNoMovement
<1> HIDE DEF inv
<1> QED
  BY <1>1, <1>2, <1>3, PartsInvariance, PTL DEF SystemSpec

-----------------------------------------------------------------------------
\* What a sequence of messages says of a gate.

Speaks(body, g) == g \in DOMAIN StatesOf(body)

Bodies(entries) == [k \in DOMAIN entries |-> entries[k].body]

\* The last that path says of g is now; if it says nothing, whoever is at its
\* end shows now, or still waits for the first word.
Agrees(path, g, start, now) ==
  \/ \E k \in DOMAIN path :
       /\ Speaks(path[k], g) /\ StatesOf(path[k])[g] = now
       /\ \A l \in DOMAIN path : l > k => ~Speaks(path[l], g)
  \/ /\ \A k \in DOMAIN path : ~Speaks(path[k], g)
     /\ start \in {"connecting", now}

\* A message that brings the new state, or says nothing while it is the old one.
LEMMA AgreesAppend ==
  ASSUME NEW S, NEW path \in Seq(S), NEW body \in S,
         NEW g, NEW start, NEW now, NEW next,
         Agrees(path, g, start, now),
         Speaks(body, g) => StatesOf(body)[g] = next,
         ~Speaks(body, g) => next = now
  PROVE  Agrees(Append(path, body), g, start, next)
<1> DEFINE longer == Append(path, body)
<1>1. /\ Len(path) \in Nat /\ DOMAIN path = 1 .. Len(path)
      /\ DOMAIN longer = 1 .. Len(path) + 1
      /\ longer[Len(path) + 1] = body
      /\ \A k \in DOMAIN path : longer[k] = path[k]
  BY AppendProperties
<1> HIDE DEF longer
<1>2. CASE Speaks(body, g)
  <2>1. Len(path) + 1 \in DOMAIN longer
    BY <1>1
  <2>2. \A l \in DOMAIN longer : ~(l > Len(path) + 1)
    BY <1>1
  <2> QED
    BY <1>1, <1>2, <2>1, <2>2 DEF Agrees, longer
<1>3. CASE ~Speaks(body, g)
  <2>1. CASE \A k \in DOMAIN path : ~Speaks(path[k], g)
    <3>1. \A k \in DOMAIN longer : ~Speaks(longer[k], g)
      <4> SUFFICES ASSUME NEW k \in DOMAIN longer PROVE ~Speaks(longer[k], g)
        OBVIOUS
      <4>1. k \in DOMAIN path \/ k = Len(path) + 1
        BY <1>1
      <4> QED
        BY <1>1, <1>3, <2>1, <4>1
    <3>2. start \in {"connecting", now}
      BY <2>1 DEF Agrees
    <3> QED
      BY <1>3, <3>1, <3>2 DEF Agrees, longer
  <2>2. CASE \E k \in DOMAIN path : Speaks(path[k], g)
    <3>1. PICK k \in DOMAIN path :
            /\ Speaks(path[k], g) /\ StatesOf(path[k])[g] = now
            /\ \A l \in DOMAIN path : l > k => ~Speaks(path[l], g)
      BY <2>2 DEF Agrees
    <3>2. k \in DOMAIN longer /\ longer[k] = path[k]
      BY <1>1
    <3>3. ASSUME NEW l \in DOMAIN longer, l > k PROVE ~Speaks(longer[l], g)
      <4>1. l \in DOMAIN path \/ l = Len(path) + 1
        BY <1>1
      <4> QED
        BY <1>1, <1>3, <3>1, <3>3, <4>1
    <3> QED
      BY <1>3, <3>1, <3>2, <3>3 DEF Agrees, longer
  <2> QED
    BY <2>1, <2>2
<1> QED
  BY <1>2, <1>3

\* Whoever takes the first message and shows what it says stays agreed, and so
\* does whoever lets it pass and waits.
LEMMA AgreesTail ==
  ASSUME NEW S, NEW path \in Seq(S), path # <<>>,
         NEW g, NEW start, NEW now, NEW shown,
         Agrees(path, g, start, now),
         \/ shown = "connecting"
         \/ shown = IF Speaks(Head(path), g) THEN StatesOf(Head(path))[g] ELSE start
  PROVE  Agrees(Tail(path), g, shown, now)
<1> DEFINE rest == Tail(path)
<1>1. /\ Len(path) \in Nat \ {0} /\ DOMAIN path = 1 .. Len(path)
      /\ DOMAIN rest = 1 .. Len(path) - 1 /\ Head(path) = path[1]
      /\ \A k \in 1 .. Len(path) - 1 : rest[k] = path[k + 1]
  BY HeadTailProperties, EmptySeq
<1> HIDE DEF rest
<1>2. CASE \A k \in DOMAIN path : ~Speaks(path[k], g)
  <2>1. \A k \in DOMAIN rest : ~Speaks(rest[k], g)
    BY <1>1, <1>2
  <2>2. start \in {"connecting", now} /\ ~Speaks(Head(path), g)
    BY <1>1, <1>2 DEF Agrees
  <2> QED
    BY <2>1, <2>2 DEF Agrees, rest
<1>3. CASE \E k \in DOMAIN path : Speaks(path[k], g)
  <2>1. PICK k \in DOMAIN path :
          /\ Speaks(path[k], g) /\ StatesOf(path[k])[g] = now
          /\ \A l \in DOMAIN path : l > k => ~Speaks(path[l], g)
    BY <1>3 DEF Agrees
  <2>2. CASE k = 1
    <3>1. \A l \in DOMAIN rest : ~Speaks(rest[l], g)
      <4> SUFFICES ASSUME NEW l \in DOMAIN rest PROVE ~Speaks(rest[l], g)
        OBVIOUS
      <4>1. l + 1 \in DOMAIN path /\ l + 1 > k /\ rest[l] = path[l + 1]
        BY <1>1, <2>2
      <4> QED
        BY <2>1, <4>1
    <3>2. shown \in {"connecting", now}
      BY <1>1, <2>1, <2>2
    <3> QED
      BY <3>1, <3>2 DEF Agrees, rest
  <2>3. CASE k # 1
    <3>1. k - 1 \in DOMAIN rest /\ rest[k - 1] = path[k]
      <4>1. k - 1 \in 1 .. Len(path) - 1 /\ (k - 1) + 1 = k
        BY <1>1, <2>3
      <4> QED
        BY <1>1, <4>1
    <3>2. ASSUME NEW l \in DOMAIN rest, l > k - 1 PROVE ~Speaks(rest[l], g)
      <4>1. l + 1 \in DOMAIN path /\ l + 1 > k /\ rest[l] = path[l + 1]
        BY <1>1, <3>2
      <4> QED
        BY <2>1, <4>1
    <3> QED
      BY <2>1, <3>1, <3>2 DEF Agrees, rest
  <2> QED
    BY <2>2, <2>3
<1> QED
  BY <1>2, <1>3

\* What has been queued as reports, seen as messages.
LEMMA BodiesTyped ==
  ASSUME NEW bodies, NEW queue \in Seq(Entries(bodies))
  PROVE  Bodies(queue) \in Seq(bodies) /\ Len(Bodies(queue)) = Len(queue)
<1>1. /\ Len(queue) \in Nat /\ DOMAIN queue = 1 .. Len(queue)
      /\ \A k \in 1 .. Len(queue) : queue[k] \in Entries(bodies)
  BY LenProperties, ElementOfSeq
<1>2. \A k \in 1 .. Len(queue) : queue[k].body \in bodies
  BY <1>1 DEF Entries
<1>3. Bodies(queue) = [k \in 1 .. Len(queue) |-> queue[k].body]
  BY <1>1 DEF Bodies
<1> QED
  BY <1>1, <1>2, <1>3

LEMMA BodiesAppend ==
  ASSUME NEW bodies, NEW queue \in Seq(Entries(bodies)), NEW e \in Entries(bodies)
  PROVE  /\ Bodies(queue) \in Seq(bodies)
         /\ Bodies(Append(queue, e)) = Append(Bodies(queue), e.body)
<1> DEFINE said == Bodies(queue)
           longer == Append(queue, e)
<1>1. /\ Len(queue) \in Nat /\ DOMAIN queue = 1 .. Len(queue)
      /\ \A k \in 1 .. Len(queue) : queue[k] \in Entries(bodies)
  BY LenProperties, ElementOfSeq
<1>2. e.body \in bodies /\ \A k \in 1 .. Len(queue) : queue[k].body \in bodies
  BY <1>1 DEF Entries
<1>3. /\ said = [k \in 1 .. Len(queue) |-> queue[k].body]
      /\ said \in Seq(bodies) /\ Len(said) = Len(queue)
  BY <1>1, <1>2 DEF Bodies
<1>4. /\ longer \in Seq(Entries(bodies))
      /\ Len(longer) = Len(queue) + 1
      /\ DOMAIN longer = 1 .. Len(queue) + 1
      /\ longer[Len(queue) + 1] = e
      /\ \A k \in 1 .. Len(queue) : longer[k] = queue[k]
  BY <1>1, AppendProperties
<1> HIDE DEF said, longer
<1>5. /\ Append(said, e.body) \in Seq(bodies)
      /\ Len(Append(said, e.body)) = Len(queue) + 1
      /\ Append(said, e.body)[Len(queue) + 1] = e.body
      /\ \A k \in 1 .. Len(queue) : Append(said, e.body)[k] = queue[k].body
  BY <1>1, <1>2, <1>3, AppendProperties
<1>6. /\ Bodies(longer) = [k \in 1 .. Len(queue) + 1 |-> longer[k].body]
      /\ \A k \in 1 .. Len(queue) + 1 : longer[k].body \in bodies
  <2>1. \A k \in 1 .. Len(queue) + 1 : k \in 1 .. Len(queue) \/ k = Len(queue) + 1
    BY <1>1
  <2> QED
    BY <1>2, <1>4, <2>1 DEF Bodies
<1>7. Bodies(longer) \in Seq(bodies) /\ Len(Bodies(longer)) = Len(queue) + 1
  BY <1>1, <1>6
<1>8. ASSUME NEW k \in 1 .. Len(queue) + 1
      PROVE  Bodies(longer)[k] = Append(said, e.body)[k]
  <2>1. k \in 1 .. Len(queue) \/ k = Len(queue) + 1
    BY <1>1
  <2> QED
    BY <1>4, <1>5, <1>6, <2>1
<1>9. Bodies(longer) = Append(said, e.body)
  BY <1>5, <1>7, <1>8, SeqEqual
<1> QED
  BY <1>3, <1>9 DEF said, longer

LEMMA BodiesTail ==
  ASSUME NEW bodies, NEW queue \in Seq(Entries(bodies)), queue # <<>>
  PROVE  /\ Bodies(queue) \in Seq(bodies) /\ Bodies(queue) # <<>>
         /\ Head(Bodies(queue)) = Head(queue).body
         /\ Bodies(Tail(queue)) = Tail(Bodies(queue))
<1> DEFINE said == Bodies(queue)
           rest == Tail(queue)
<1>1. /\ Len(queue) \in Nat \ {0} /\ DOMAIN queue = 1 .. Len(queue)
      /\ \A k \in 1 .. Len(queue) : queue[k] \in Entries(bodies)
      /\ Head(queue) = queue[1]
  BY LenProperties, ElementOfSeq, EmptySeq
<1>2. \A k \in 1 .. Len(queue) : queue[k].body \in bodies
  BY <1>1 DEF Entries
<1>3. /\ said = [k \in 1 .. Len(queue) |-> queue[k].body]
      /\ said \in Seq(bodies) /\ Len(said) = Len(queue)
  BY <1>1, <1>2 DEF Bodies
<1>4. /\ rest \in Seq(Entries(bodies))
      /\ Len(rest) = Len(queue) - 1
      /\ DOMAIN rest = 1 .. Len(queue) - 1
      /\ \A k \in 1 .. Len(queue) - 1 : rest[k] = queue[k + 1]
  BY <1>1, HeadTailProperties
<1> HIDE DEF said, rest
<1>5. said # <<>> /\ Head(said) = Head(queue).body
  BY <1>1, <1>3, EmptySeq
<1>6. /\ Tail(said) \in Seq(bodies)
      /\ Len(Tail(said)) = Len(queue) - 1
      /\ \A k \in 1 .. Len(queue) - 1 : Tail(said)[k] = queue[k + 1].body
  <2>1. /\ Tail(said) \in Seq(bodies)
        /\ Len(Tail(said)) = Len(queue) - 1
        /\ \A k \in 1 .. Len(queue) - 1 : Tail(said)[k] = said[k + 1]
    BY <1>3, <1>5, HeadTailProperties
  <2>2. \A k \in 1 .. Len(queue) - 1 : k + 1 \in 1 .. Len(queue)
    BY <1>1
  <2> QED
    BY <1>3, <2>1, <2>2
<1>7. /\ Bodies(rest) = [k \in 1 .. Len(queue) - 1 |-> queue[k + 1].body]
      /\ \A k \in 1 .. Len(queue) - 1 : queue[k + 1].body \in bodies
  BY <1>1, <1>2, <1>4 DEF Bodies
<1>8. Bodies(rest) \in Seq(bodies) /\ Len(Bodies(rest)) = Len(queue) - 1
  BY <1>1, <1>7
<1>9. Bodies(rest) = Tail(said)
  BY <1>6, <1>7, <1>8, SeqEqual
<1> QED
  BY <1>3, <1>5, <1>9 DEF said, rest

\* A message that goes from the head of one queue to the end of the one before
\* it stays where it is on the way through both.
LEMMA HandedOn ==
  ASSUME NEW S, NEW front \in Seq(S), NEW back \in Seq(S), back # <<>>
  PROVE  Append(front, Head(back)) \o Tail(back) = front \o back
<1> DEFINE first == <<Head(back)>>
           rest == Tail(back)
<1>1. /\ first \in Seq(S) /\ rest \in Seq(S) /\ Head(back) \in S
      /\ first \o rest = back
  BY HeadTail
<1>2. Append(front, Head(back)) = front \o first
  BY <1>1, AppendIsConcat
<1> HIDE DEF first, rest
<1>3. (front \o first) \o rest = front \o (first \o rest)
  <2>1. first \in Seq(S) /\ rest \in Seq(S)
    BY <1>1
  <2> QED
    BY <2>1, ConcatAssociative
<1> QED
  BY <1>1, <1>2, <1>3 DEF rest

LEMMA FirstOfTwo ==
  ASSUME NEW S, NEW front \in Seq(S), NEW back \in Seq(S), front # <<>>
  PROVE  /\ front \o back \in Seq(S) /\ front \o back # <<>>
         /\ Head(front \o back) = Head(front)
         /\ Tail(front \o back) = Tail(front) \o back
<1> DEFINE first == <<Head(front)>>
           rest == Tail(front)
<1>1. /\ first \in Seq(S) /\ rest \in Seq(S) /\ Head(front) \in S
      /\ Len(first) = 1 /\ first \o rest = front /\ Head(first) = Head(front)
  BY HeadTail
<1>2. rest \o back \in Seq(S)
  BY <1>1, ConcatProperties
<1> HIDE DEF first, rest
<1>3. (first \o rest) \o back = first \o (rest \o back)
  <2>1. first \in Seq(S) /\ rest \in Seq(S)
    BY <1>1
  <2> QED
    BY <2>1, ConcatAssociative
<1>4. /\ first \o (rest \o back) \in Seq(S) /\ first \o (rest \o back) # <<>>
      /\ Head(first \o (rest \o back)) = Head(first)
      /\ Tail(first \o (rest \o back)) = rest \o back
  BY <1>1, <1>2, BufferFirst
<1> QED
  BY <1>1, <1>3, <1>4 DEF rest

-----------------------------------------------------------------------------
\* Convergence of the pages.

\* Everything on its way to the sessions, oldest first.
ToCome == Bodies(imq) \o tx

Converging ==
  /\ \A g \in GateIds : Agrees(ToCome, g, "connecting", FW!Position[g])
  /\ \A s \in Sessions, g \in GateIds :
       ~Born(s) \/ ~page[s].configured => page[s].shown[g] = "connecting"
  /\ \A s \in Sessions, g \in GateIds :
       Open(s) => Agrees(Path(s), g, page[s].shown[g], FW!Position[g])

LEMMA PathParts ==
  ASSUME IInv(Messages)
  PROVE  /\ imq \in Seq(Entries(Messages)) /\ tx \in Seq(Messages)
         /\ Bodies(imq) \in Seq(Messages) /\ ToCome \in Seq(Messages)
         /\ \A s \in Sessions :
              /\ Pending(s) \in Seq(Entries(Messages))
              /\ Pending(s) \o imq \in Seq(Entries(Messages))
              /\ Bodies(Pending(s) \o imq) \in Seq(Messages)
              /\ Path(s) = Bodies(Pending(s) \o imq) \o tx
              /\ Path(s) \in Seq(Messages)
<1>1. imq \in Seq(Entries(Messages)) /\ tx \in Seq(Messages)
  BY DEF IInv, Typed
<1>2. Bodies(imq) \in Seq(Messages)
  BY <1>1, BodiesTyped
<1>3. ToCome \in Seq(Messages)
  BY <1>1, <1>2, ConcatProperties DEF ToCome
<1>4. ASSUME NEW s \in Sessions
      PROVE  /\ Pending(s) \in Seq(Entries(Messages))
             /\ Pending(s) \o imq \in Seq(Entries(Messages))
             /\ Bodies(Pending(s) \o imq) \in Seq(Messages)
             /\ Path(s) = Bodies(Pending(s) \o imq) \o tx
             /\ Path(s) \in Seq(Messages)
  <2>1. ws[s].buffer \in Seq(Entries(Messages)) /\ ws[s].queue \in Seq(Entries(Messages))
    BY DEF IInv, Typed, WsObjects
  <2>2. Pending(s) \in Seq(Entries(Messages))
    BY <2>1, ConcatProperties DEF Pending
  <2> DEFINE queued == Pending(s) \o imq
  <2>3. queued \in Seq(Entries(Messages))
    BY <1>1, <2>2, ConcatProperties
  <2>4. Path(s) = Bodies(queued) \o tx
    BY DEF Path, Bodies
  <2> HIDE DEF queued
  <2>5. Bodies(queued) \in Seq(Messages)
    BY <2>3, BodiesTyped
  <2>6. Bodies(queued) \o tx \in Seq(Messages)
    BY <1>1, <2>5, ConcatProperties
  <2> QED
    BY <2>2, <2>3, <2>4, <2>5, <2>6 DEF queued
<1> QED
  BY <1>1, <1>2, <1>3, <1>4

\* A step that moves messages on, but takes none from a page's path to it.
LEMMA SamePaths ==
  ASSUME Converging, FW!Position' = FW!Position,
         \A g \in GateIds : Agrees(ToCome', g, "connecting", FW!Position[g]),
         \A s \in Sessions :
           /\ page'[s].shown = page[s].shown
           /\ ~Born(s)' \/ ~page'[s].configured => ~Born(s) \/ ~page[s].configured
           /\ Open(s)' => Open(s) /\ Path(s)' = Path(s)
  PROVE  Converging'
BY DEF Converging

\* A step of one session that keeps what waits for its page.
LEMMA SessionKeepsPath ==
  ASSUME IInv(Messages), Converging, FW!Position' = FW!Position,
         NEW s \in Sessions, NEW w, ws' = [ws EXCEPT ![s] = w],
         w.permissions = ws[s].permissions,
         w.reader # "none" /\ ws[s].reader # "none",
         page[s].up => w.buffer \o w.queue = ws[s].buffer \o ws[s].queue,
         UNCHANGED <<imq, tx, page>>
  PROVE  Converging'
<1>1. /\ ws'[s] = w /\ \A r \in Sessions : r # s => ws'[r] = ws[r]
      /\ imq' = imq /\ tx' = tx /\ page' = page
  BY DEF IInv, Typed
<1>2. ToCome' = ToCome
  BY <1>1 DEF ToCome, Bodies
<1>3. ASSUME NEW r \in Sessions
      PROVE  /\ Born(r)' <=> Born(r)
             /\ Open(r)' <=> Open(r)
             /\ page[r].up => Path(r)' = Path(r)
  <2>1. CASE r = s
    <3>1. (Born(r)' <=> Born(r)) /\ (Open(r)' <=> Open(r))
      BY <1>1, <2>1 DEF Born, Open
    <3>2. page[r].up => Pending(r)' = Pending(r)
      BY <1>1, <2>1 DEF Pending
    <3> QED
      BY <1>1, <3>1, <3>2 DEF Path
  <2>2. CASE r # s
    <3>1. ws'[r] = ws[r]
      BY <1>1, <2>2
    <3>2. Pending(r)' = Pending(r)
      BY <3>1 DEF Pending
    <3>3. Path(r)' = Path(r)
      BY <1>1, <3>2 DEF Path
    <3> QED
      BY <1>1, <3>1, <3>3 DEF Born, Open
  <2> QED
    BY <2>1, <2>2
<1>4. \A r \in Sessions : Open(r) => page[r].up
  BY DEF Open
<1>5. \A g \in GateIds : Agrees(ToCome', g, "connecting", FW!Position[g])
  BY <1>2 DEF Converging
<1>6. \A r \in Sessions :
        /\ page'[r].shown = page[r].shown
        /\ ~Born(r)' \/ ~page'[r].configured => ~Born(r) \/ ~page[r].configured
        /\ Open(r)' => Open(r) /\ Path(r)' = Path(r)
  BY <1>1, <1>3, <1>4
<1> QED
  BY <1>5, <1>6, SamePaths

LEMMA SessionConverges ==
  ASSUME IInv(Messages), Converging, FW!Position' = FW!Position,
         NEW s \in Sessions,
         OnAccept(s) \/ OnReadError(s) \/ DoWrite(s) \/ OnWriteError(s)
  PROVE  Converging'
<1> DEFINE v == ws[s]
<1>1. /\ v \in WsObjects(Messages)
      /\ v.buffer \in Seq(Entries(Messages)) /\ v.queue \in Seq(Entries(Messages))
      /\ Len(v.buffer) = IF v.writer = "writing" THEN 1 ELSE 0
      /\ v.reader \in {"none", "accepting"} => v.writer = "none"
  BY DEF IInv, Typed, WsObjects, SessionsSound, Sound
<1>2. UNCHANGED <<imq, tx, page>>
  BY DEF OnAccept, OnReadError, DoWrite, OnWriteError, lineVars, pageVars
<1>3. v.writer # "writing" => v.buffer = <<>> /\ v.buffer \o v.queue = v.queue
  <2>1. v.writer # "writing" => v.buffer = <<>>
    BY <1>1, EmptySeq
  <2> QED
    BY <1>1, <2>1, ConcatEmptySeq
<1>4. CASE OnAccept(s)
  <2>1. v.reader = "accepting" /\ v.writer # "writing"
    BY <1>1, <1>4 DEF OnAccept
  <2>2. CASE page[s].up
    <3> DEFINE u == [v EXCEPT !.reader = "reading"]
               w == SessionDoWrite(u)
    <3>1. /\ u \in WsObjects(Messages) /\ u.queue = v.queue
          /\ u.permissions = v.permissions /\ u.reader = "reading"
      BY <1>1 DEF WsObjects
    <3>2. ws' = [ws EXCEPT ![s] = w]
      BY <1>4, <2>2 DEF OnAccept
    <3> HIDE DEF u
    <3>3. /\ w.permissions = v.permissions /\ w.reader = "reading"
          /\ w.buffer \o w.queue = v.queue
      BY <3>1, DoWriteKeeps
    <3> HIDE DEF w
    <3> QED
      BY <1>2, <1>3, <2>1, <3>2, <3>3, SessionKeepsPath
  <2>3. CASE ~page[s].up
    <3> DEFINE w == [v EXCEPT !.reader = "ended"]
    <3>1. ws' = [ws EXCEPT ![s] = w]
      BY <1>4, <2>3 DEF OnAccept
    <3>2. w.permissions = v.permissions /\ w.reader = "ended"
      BY <1>1 DEF WsObjects
    <3> HIDE DEF w
    <3> QED
      BY <1>2, <2>1, <2>3, <3>1, <3>2, SessionKeepsPath
  <2> QED
    BY <2>2, <2>3
<1>5. CASE OnReadError(s)
  <2> DEFINE w == [v EXCEPT !.reader = "ended"]
  <2>1. ws' = [ws EXCEPT ![s] = w] /\ v.reader = "reading" /\ ~page[s].up
    BY <1>5 DEF OnReadError
  <2>2. w.permissions = v.permissions /\ w.reader = "ended"
    BY <1>1 DEF WsObjects
  <2> HIDE DEF w
  <2> QED
    BY <1>2, <2>1, <2>2, SessionKeepsPath
<1>6. CASE DoWrite(s)
  <2> DEFINE w == SessionDoWrite(v)
  <2>1. ws' = [ws EXCEPT ![s] = w] /\ v.writer = "posted"
    BY <1>6 DEF DoWrite
  <2> HIDE DEF v
  <2>2. /\ w.permissions = v.permissions /\ w.reader = v.reader
        /\ w.buffer \o w.queue = v.queue
    BY <1>1, DoWriteKeeps
  <2>3. v.reader # "none"
    BY <1>1, <2>1
  <2> HIDE DEF w
  <2> QED
    BY <1>2, <1>3, <2>1, <2>2, <2>3, SessionKeepsPath DEF v
<1>7. CASE OnWriteError(s)
  <2> DEFINE w == [v EXCEPT !.writer = "ended", !.buffer = <<>>]
  <2>1. ws' = [ws EXCEPT ![s] = w] /\ v.writer = "writing" /\ ~page[s].up
    BY <1>7 DEF OnWriteError
  <2>2. w.permissions = v.permissions /\ w.reader = v.reader /\ v.reader # "none"
    BY <1>1, <2>1 DEF WsObjects
  <2> HIDE DEF w
  <2> QED
    BY <1>2, <2>1, <2>2, SessionKeepsPath
<1> QED
  BY <1>4, <1>5, <1>6, <1>7

\* What on_write has delivered leaves the path, and the page shows it.
LEMMA OnWriteConverges ==
  ASSUME IInv(Messages), Converging, FW!Position' = FW!Position,
         NEW s \in Sessions, OnWrite(s)
  PROVE  Converging'
<1> DEFINE v == ws[s]
           w == SessionDoWrite(v)
           report == Head(v.buffer)
<1>1. /\ v \in WsObjects(Messages) /\ v.writer = "writing"
      /\ v.buffer \in Seq(Entries(Messages)) /\ v.queue \in Seq(Entries(Messages))
      /\ Len(v.buffer) = 1 /\ v.reader # "none"
  BY DEF IInv, Typed, WsObjects, SessionsSound, Sound, OnWrite
<1>2. /\ ws' = [ws EXCEPT ![s] = w]
      /\ IF page[s].up THEN Receive(s, report) ELSE UNCHANGED pageVars
      /\ UNCHANGED <<imq, tx>>
  BY DEF OnWrite, lineVars
<1> HIDE DEF v
<1>3. /\ w.permissions = v.permissions /\ w.reader = v.reader
      /\ w.buffer \o w.queue = v.queue
  BY <1>1, DoWriteKeeps
<1> HIDE DEF w
<1>4. CASE ~page[s].up
  BY <1>1, <1>2, <1>3, <1>4, SessionKeepsPath DEF pageVars, v
<1>5. CASE page[s].up
  <2>1. report \in Entries(Messages) /\ report.body \in Messages
    <3>1. v.buffer # <<>>
      <4>1. Len(v.buffer) = 1 /\ Len(<<>>) = 0 /\ 1 # 0
        BY <1>1
      <4> QED
        BY <4>1, Zenon
    <3>2. report \in Entries(Messages)
      BY <1>1, <3>1, HeadTailProperties
    <3> QED
      BY <3>2 DEF Entries
  <2>2. /\ \A r \in Sessions : /\ page'[r].up = page[r].up
                               /\ page'[r].configured = page[r].configured
                               /\ r # s => page'[r] = page[r]
        /\ page'[s].shown =
             IF page[s].configured
             THEN [g \in GateIds |-> IF g \in DOMAIN StatesOf(report.body)
                                     THEN StatesOf(report.body)[g]
                                     ELSE page[s].shown[g]]
             ELSE page[s].shown
    <3>1. Typed(Messages) /\ Receive(s, report)
      BY <1>2, <1>5 DEF IInv
    <3> HIDE DEF report
    <3> QED
      BY <2>1, <3>1, ReceiveTyped
  <2>3. /\ ws'[s] = w /\ imq' = imq /\ tx' = tx
        /\ \A r \in Sessions : r # s => ws'[r] = ws[r]
    BY <1>2 DEF IInv, Typed
  <2>4. ASSUME NEW r \in Sessions
        PROVE  (Born(r)' <=> Born(r)) /\ (Open(r)' <=> Open(r))
    BY <1>1, <1>3, <2>2, <2>3 DEF Born, Open, v
  <2>5. ASSUME NEW r \in Sessions, r # s PROVE Path(r)' = Path(r)
    <3>1. Pending(r)' = Pending(r)
      BY <2>3, <2>5 DEF Pending
    <3> QED
      BY <2>3, <3>1 DEF Path
  <2>6. Path(s) # <<>> /\ Head(Path(s)) = report.body /\ Path(s)' = Tail(Path(s))
    <3>1. /\ Pending(s) = v.buffer \o v.queue /\ Pending(s)' = v.queue
          /\ imq \in Seq(Entries(Messages)) /\ tx \in Seq(Messages)
      BY <1>3, <2>3, PathParts DEF Pending, v
    <3>2. /\ Pending(s) \in Seq(Entries(Messages)) /\ Pending(s) # <<>>
          /\ Head(Pending(s)) = report /\ Tail(Pending(s)) = v.queue
      <4> DEFINE front == v.buffer
                 back == v.queue
      <4>1. /\ front \in Seq(Entries(Messages)) /\ Len(front) = 1
            /\ back \in Seq(Entries(Messages)) /\ Pending(s) = front \o back
            /\ report = Head(front)
        BY <1>1, <3>1
      <4> HIDE DEF front, back, report
      <4>2. /\ front \o back \in Seq(Entries(Messages)) /\ front \o back # <<>>
            /\ Head(front \o back) = Head(front) /\ Tail(front \o back) = back
        BY <4>1, BufferFirst
      <4> QED
        BY <4>1, <4>2 DEF back
    <3> HIDE DEF report
    <3> DEFINE queued == Pending(s) \o imq
    <3>3. /\ queued \in Seq(Entries(Messages)) /\ queued # <<>>
          /\ Head(queued) = report /\ Tail(queued) = v.queue \o imq
      <4> DEFINE front == Pending(s)
      <4>1. /\ front \in Seq(Entries(Messages)) /\ front # <<>>
            /\ Head(front) = report /\ Tail(front) = v.queue
        BY <3>2
      <4> HIDE DEF front
      <4>2. /\ front \o imq \in Seq(Entries(Messages)) /\ front \o imq # <<>>
            /\ Head(front \o imq) = Head(front)
            /\ Tail(front \o imq) = Tail(front) \o imq
        BY <3>1, <4>1, FirstOfTwo
      <4> QED
        BY <4>1, <4>2 DEF front
    <3>4. Path(s) = Bodies(queued) \o tx /\ Path(s)' = Bodies(Tail(queued)) \o tx
      <4>1. Path(s)' = Bodies(Pending(s)' \o imq') \o tx'
        BY DEF Path, Bodies
      <4> QED
        BY <2>3, <3>1, <3>3, <4>1, PathParts
    <3> HIDE DEF queued
    <3>5. /\ Bodies(queued) \in Seq(Messages) /\ Bodies(queued) # <<>>
          /\ Head(Bodies(queued)) = report.body
          /\ Bodies(Tail(queued)) = Tail(Bodies(queued))
      BY <3>3, BodiesTail
    <3> DEFINE said == Bodies(queued)
    <3> HIDE DEF said
    <3>6. said \o tx # <<>> /\ Head(said \o tx) = Head(said)
          /\ Tail(said \o tx) = Tail(said) \o tx
      BY <3>1, <3>5, FirstOfTwo DEF said
    <3> QED
      BY <3>4, <3>5, <3>6 DEF said
  <2> HIDE DEF report
  <2>7. ASSUME NEW g \in GateIds, Open(s)
        PROVE  Agrees(Path(s)', g, page'[s].shown[g], FW!Position[g])
    <3>1. Path(s) \in Seq(Messages)
      BY PathParts
    <3>2. Agrees(Path(s), g, page[s].shown[g], FW!Position[g])
      BY <2>7 DEF Converging
    <3>3. \/ page'[s].shown[g] = "connecting"
          \/ page'[s].shown[g] = IF Speaks(Head(Path(s)), g)
                                 THEN StatesOf(Head(Path(s)))[g] ELSE page[s].shown[g]
      BY <2>2, <2>6 DEF Converging, Speaks
    <3> DEFINE path == Path(s)
               before == page[s].shown[g]
               after == page'[s].shown[g]
               now == FW!Position[g]
    <3>4. /\ path \in Seq(Messages) /\ path # <<>> /\ Agrees(path, g, before, now)
          /\ \/ after = "connecting"
             \/ after = IF Speaks(Head(path), g) THEN StatesOf(Head(path))[g] ELSE before
          /\ Path(s)' = Tail(path)
      BY <2>6, <3>1, <3>2, <3>3
    <3> HIDE DEF path, before, after, now
    <3>5. Agrees(Tail(path), g, after, now)
      BY <3>4, AgreesTail
    <3> QED
      BY <3>4, <3>5 DEF after, now
  <2>8. ToCome' = ToCome
    BY <2>3 DEF ToCome, Bodies
  <2>9. \A r \in Sessions, g \in GateIds :
          ~Born(r)' \/ ~page'[r].configured => page'[r].shown[g] = "connecting"
    <3>1. ASSUME NEW r \in Sessions, ~Born(r)' \/ ~page'[r].configured
          PROVE  page'[r].shown = page[r].shown /\ (~Born(r) \/ ~page[r].configured)
      BY <1>1, <2>2, <2>4, <3>1 DEF Born, v
    <3> QED
      BY <3>1 DEF Converging
  <2>10. \A r \in Sessions, g \in GateIds :
           Open(r)' => Agrees(Path(r)', g, page'[r].shown[g], FW!Position[g])
    <3> SUFFICES ASSUME NEW r \in Sessions, NEW g \in GateIds, Open(r)'
                 PROVE  Agrees(Path(r)', g, page'[r].shown[g], FW!Position[g])
      OBVIOUS
    <3>1. CASE r = s
      BY <2>4, <2>7, <3>1
    <3>2. CASE r # s
      BY <2>2, <2>4, <2>5, <3>2 DEF Converging
    <3> QED
      BY <3>1, <3>2
  <2> QED
    BY <2>8, <2>9, <2>10 DEF Converging
<1> QED
  BY <1>4, <1>5

\* A session that is made now will be told all that is still to come, and its
\* page waits.
LEMMA UpgradeConverges ==
  ASSUME IInv(Messages), Converging, FW!Position' = FW!Position,
         NEW s \in Sessions, NEW permissions, Upgrade(s, permissions)
  PROVE  Converging'
<1> DEFINE w == [ws[s] EXCEPT !.permissions = permissions,
                              !.reader = IF permissions = "Blocked"
                                         THEN "ended" ELSE "accepting"]
<1>1. /\ ws[s] \in WsObjects(Messages) /\ ws[s].reader = "none"
      /\ Sound(ws[s], page[s].up, last[s], s \in sessions, popped)
      /\ ws' = [ws EXCEPT ![s] = w]
      /\ imq' = imq /\ tx' = tx /\ page' = page
  BY DEF IInv, Typed, SessionsSound, Upgrade, Born, lineVars
<1>2. ws[s].queue = <<>> /\ ws[s].buffer = <<>>
  <2>1. ws[s].queue = <<>> /\ Len(ws[s].buffer) = 0
    BY <1>1 DEF Sound
  <2> QED
    BY <1>1, <2>1, EmptySeq DEF WsObjects
<1>3. w.buffer = <<>> /\ w.queue = <<>> /\ w.reader # "none"
  BY <1>1, <1>2 DEF WsObjects
<1> HIDE DEF w
<1>4. ws'[s] = w /\ \A r \in Sessions : r # s => ws'[r] = ws[r]
  BY <1>1 DEF IInv, Typed
<1>5. Path(s)' = ToCome
  <2>1. Pending(s)' = <<>> \o <<>>
    BY <1>3, <1>4 DEF Pending
  <2>2. (<<>> \o <<>>) \o imq = imq
    BY PathParts, ConcatEmptySeq
  <2>3. Path(s)' = Bodies(Pending(s)' \o imq') \o tx'
    BY DEF Path, Bodies
  <2> QED
    BY <1>1, <2>1, <2>2, <2>3 DEF ToCome
<1>6. ToCome' = ToCome
  BY <1>1 DEF ToCome, Bodies
<1>7. ASSUME NEW r \in Sessions, r # s
      PROVE  /\ (Open(r)' <=> Open(r)) /\ (Born(r)' <=> Born(r))
             /\ Path(r)' = Path(r)
  <2>1. Pending(r)' = Pending(r)
    BY <1>4, <1>7 DEF Pending
  <2> QED
    BY <1>1, <1>4, <1>7, <2>1 DEF Path, Open, Born
<1>8. ~Born(s) /\ \A g \in GateIds : page[s].shown[g] = "connecting"
  BY <1>1 DEF Born, Converging
<1>9. \A r \in Sessions, g \in GateIds :
        ~Born(r)' \/ ~page'[r].configured => page'[r].shown[g] = "connecting"
  BY <1>1, <1>7, <1>8 DEF Converging
<1>10. \A r \in Sessions, g \in GateIds :
         Open(r)' => Agrees(Path(r)', g, page'[r].shown[g], FW!Position[g])
  BY <1>1, <1>5, <1>7, <1>8 DEF Converging
<1> QED
  BY <1>6, <1>9, <1>10 DEF Converging

\* What update hands to a session only changes its place on the path to the page.
LEMMA UpdateConverges ==
  ASSUME IInv(Messages), Converging, FW!Position' = FW!Position, Update
  PROVE  Converging'
<1> DEFINE live == {s \in sessions : ~Expired(s)}
           hands == imq # <<>> /\ Head(imq).type = "query_state_result"
<1>1. /\ IF hands
         THEN /\ ws' = [s \in Sessions |->
                         IF s \in live
                         THEN [ws[s] EXCEPT !.queue = Append(ws[s].queue, Head(imq))]
                         ELSE ws[s]]
              /\ imq' = Tail(imq)
         ELSE UNCHANGED <<ws, imq>>
      /\ page' = page /\ tx' = tx
  BY DEF Update, pageVars, lineVars
<1>2. CASE ~hands
  <2>1. ws' = ws /\ imq' = imq
    BY <1>1, <1>2
  <2>2. ToCome' = ToCome
    BY <1>1, <2>1 DEF ToCome, Bodies
  <2>3. ASSUME NEW s \in Sessions
        PROVE  (Born(s)' <=> Born(s)) /\ (Open(s)' <=> Open(s)) /\ Path(s)' = Path(s)
    <3>1. Pending(s)' = Pending(s)
      BY <2>1 DEF Pending
    <3> QED
      BY <1>1, <2>1, <3>1 DEF Born, Open, Path
  <2>4. \A g \in GateIds : Agrees(ToCome', g, "connecting", FW!Position[g])
    BY <2>2 DEF Converging
  <2> QED
    BY <1>1, <2>3, <2>4, SamePaths
<1>3. CASE hands
  <2> DEFINE report == Head(imq)
             longer(s) == [ws[s] EXCEPT !.queue = Append(ws[s].queue, report)]
  <2>1. /\ imq \in Seq(Entries(Messages)) /\ imq # <<>> /\ tx \in Seq(Messages)
        /\ report \in Entries(Messages) /\ Tail(imq) \in Seq(Entries(Messages))
    BY <1>3, HeadTail DEF IInv, Typed
  <2>2. /\ ws' = [s \in Sessions |-> IF s \in live THEN longer(s) ELSE ws[s]]
        /\ imq' = Tail(imq)
    BY <1>1, <1>3
  <2>3. ASSUME NEW s \in Sessions
        PROVE  /\ ws[s].buffer \in Seq(Entries(Messages))
               /\ ws[s].queue \in Seq(Entries(Messages))
               /\ longer(s).queue = Append(ws[s].queue, report)
               /\ longer(s).buffer = ws[s].buffer
               /\ longer(s).reader = ws[s].reader
               /\ longer(s).permissions = ws[s].permissions
    BY DEF IInv, Typed, WsObjects
  <2> HIDE DEF report, live, longer, hands
  <2>4. ASSUME NEW s \in Sessions
        PROVE  (Born(s)' <=> Born(s)) /\ (Open(s)' <=> Open(s))
    <3>1. ws'[s].reader = ws[s].reader /\ ws'[s].permissions = ws[s].permissions
      BY <2>2, <2>3
    <3> QED
      BY <1>1, <3>1 DEF Born, Open
  <2>5. ASSUME NEW s \in Sessions, Open(s) PROVE Path(s)' = Path(s)
    <3>1. s \in live
      <4>1. Sound(ws[s], page[s].up, last[s], s \in sessions, popped)
        BY DEF IInv, SessionsSound
      <4>2. ws[s].reader # "ended" /\ s \in sessions
        BY <2>5, <4>1 DEF Sound, Over, Open, Born
      <4> QED
        BY <4>2 DEF live, Expired
    <3>2. Pending(s)' = ws[s].buffer \o Append(ws[s].queue, report)
      BY <2>2, <2>3, <3>1 DEF Pending
    <3> DEFINE front == ws[s].buffer
               queue == ws[s].queue
    <3>3. front \in Seq(Entries(Messages)) /\ queue \in Seq(Entries(Messages))
      BY <2>3
    <3>4. Pending(s) = front \o queue /\ Pending(s)' = front \o Append(queue, report)
      BY <3>2 DEF Pending
    <3> HIDE DEF front, queue
    <3> DEFINE pending == front \o queue
    <3>5. pending \in Seq(Entries(Messages)) /\ Pending(s) = pending
      BY <3>3, <3>4, ConcatProperties
    <3>6. Pending(s)' = Append(pending, report)
      BY <2>1, <3>3, <3>4, AppendConcat
    <3> HIDE DEF pending
    <3>7. Append(pending, report) \o Tail(imq) = pending \o imq
      BY <2>1, <3>5, HandedOn DEF report
    <3>8. Pending(s)' \o imq' = Pending(s) \o imq
      BY <2>2, <3>5, <3>6, <3>7
    <3>9. Path(s)' = Bodies(Pending(s)' \o imq') \o tx'
      BY DEF Path, Bodies
    <3> QED
      BY <1>1, <3>8, <3>9, PathParts
  <2>6. ASSUME NEW g \in GateIds
        PROVE  Agrees(ToCome', g, "connecting", FW!Position[g])
    <3> DEFINE said == Bodies(imq)
               now == FW!Position[g]
    <3>1. /\ said \in Seq(Messages) /\ said # <<>>
          /\ Bodies(Tail(imq)) = Tail(said)
      BY <2>1, BodiesTail
    <3>2. ToCome' = Tail(said) \o tx /\ ToCome = said \o tx
      BY <1>1, <2>2, <3>1 DEF ToCome, Bodies
    <3>3. Agrees(said \o tx, g, "connecting", now)
      BY <3>2 DEF Converging
    <3> HIDE DEF said, now
    <3> DEFINE path == said \o tx
    <3>4. path \in Seq(Messages) /\ path # <<>> /\ Tail(path) = Tail(said) \o tx
      BY <2>1, <3>1, FirstOfTwo
    <3>5. Agrees(path, g, "connecting", now)
      BY <3>3
    <3> HIDE DEF path
    <3>6. Agrees(Tail(path), g, "connecting", now)
      BY <3>4, <3>5, AgreesTail
    <3> QED
      BY <3>2, <3>4, <3>6 DEF now
  <2> QED
    BY <1>1, <2>4, <2>5, <2>6, SamePaths
<1> QED
  BY <1>2, <1>3

\* A read that gets one whole message moves it from the line to the queue.
LEMMA ComOnReadConverges ==
  ASSUME IInv(Messages), Converging, FW!Position' = FW!Position,
         Aligned, ~cut,
         NEW k \in 0 .. Len(tx), NEW more \in BOOLEAN, ComOnRead(k, more)
  PROVE  Converging' /\ ~cut'
<1>1. /\ k = 1 /\ ~more /\ cut' = more /\ tx' = SubSeq(tx, 2, Len(tx))
      /\ ws' = ws /\ page' = page
  BY DEF ComOnRead, pageVars
<1>2. PICK type \in StrToType(Head(tx).type) :
        imq' = Append(imq, [n |-> popped + Len(imq) + 1, type |-> type, body |-> Head(tx)])
  BY <1>1 DEF ComOnRead
<1>3. /\ tx \in Seq(Messages) /\ tx # <<>> /\ Head(tx) \in Messages /\ tx' = Tail(tx)
      /\ imq \in Seq(Entries(Messages)) /\ popped \in Nat
  <2>1. /\ tx \in Seq(Messages) /\ Len(tx) \in Nat
        /\ imq \in Seq(Entries(Messages)) /\ popped \in Nat
    BY DEF IInv, Typed
  <2>2. Len(tx) # 0
    BY <1>1, <2>1
  <2>3. tx # <<>>
    <3>1. Len(<<>>) = 0
      OBVIOUS
    <3> QED
      BY <2>2, <3>1, Zenon
  <2> QED
    BY <1>1, <2>1, <2>3, TailIsSubSeq, HeadTailProperties
<1> DEFINE e == [n |-> popped + Len(imq) + 1, type |-> type, body |-> Head(tx)]
<1>4. e \in Entries(Messages) /\ e.body = Head(tx) /\ imq' = Append(imq, e)
  <2>1. type \in MessageType
    BY DEF StrToType
  <2>2. popped + Len(imq) + 1 \in Nat \ {0}
    BY <1>3
  <2> QED
    BY <1>2, <1>3, <2>1, <2>2 DEF Entries
<1> HIDE DEF e
<1>5. ASSUME NEW queued \in Seq(Entries(Messages))
      PROVE  Bodies(Append(queued, e)) \o Tail(tx) = Bodies(queued) \o tx
  <2>1. /\ Bodies(queued) \in Seq(Messages)
        /\ Bodies(Append(queued, e)) = Append(Bodies(queued), Head(tx))
    BY <1>4, BodiesAppend
  <2> DEFINE said == Bodies(queued)
  <2> HIDE DEF said
  <2>2. Append(said, Head(tx)) \o Tail(tx) = said \o tx
    BY <1>3, <2>1, HandedOn DEF said
  <2> QED
    BY <2>1, <2>2 DEF said
<1>6. ToCome' = ToCome
  <2>1. ToCome' = Bodies(imq') \o tx'
    BY DEF ToCome, Bodies
  <2> QED
    BY <1>3, <1>4, <1>5, <2>1 DEF ToCome
<1>7. ASSUME NEW s \in Sessions PROVE Path(s)' = Path(s)
  <2>1. Pending(s)' = Pending(s)
    BY <1>1 DEF Pending
  <2>2. Pending(s) \o Append(imq, e) = Append(Pending(s) \o imq, e)
    <3> DEFINE pending == Pending(s)
    <3>1. pending \in Seq(Entries(Messages))
      BY PathParts
    <3> HIDE DEF pending
    <3>2. pending \o Append(imq, e) = Append(pending \o imq, e)
      BY <1>3, <1>4, <3>1, AppendConcat
    <3> QED
      BY <3>2 DEF pending
  <2>3. Path(s)' = Bodies(Pending(s)' \o imq') \o tx'
    BY DEF Path, Bodies
  <2>4. Path(s)' = Bodies(Append(Pending(s) \o imq, e)) \o Tail(tx)
    BY <1>3, <1>4, <2>1, <2>2, <2>3
  <2> QED
    BY <1>5, <2>4, PathParts
<1>8. \A g \in GateIds : Agrees(ToCome', g, "connecting", FW!Position[g])
  BY <1>6 DEF Converging
<1>9. \A s \in Sessions : (Born(s)' <=> Born(s)) /\ (Open(s)' <=> Open(s))
  BY <1>1 DEF Born, Open
<1>10. Converging'
  BY <1>1, <1>7, <1>8, <1>9, SamePaths
<1> QED
  BY <1>1, <1>10

LEMMA ServerConverges ==
  ASSUME PartsSound, Aligned, ~cut, Converging, ServerStep
  PROVE  ~cut' /\ Converging'
<1>1. IInv(Messages) /\ Server
  BY DEF PartsSound, ServerStep
<1>2. FW!Position' = FW!Position
  BY DEF ServerStep, boardVars, FW!Position
<1>3. ASSUME UNCHANGED <<imq, ws, tx, cut>>,
             \A s \in Sessions :
               /\ page'[s].shown = page[s].shown
               /\ page'[s].up => page[s].up
               /\ page[s].configured => page'[s].configured
      PROVE  ~cut' /\ Converging'
  <2>1. ToCome' = ToCome
    BY <1>3 DEF ToCome, Bodies
  <2>2. ASSUME NEW s \in Sessions
        PROVE  (Born(s)' <=> Born(s)) /\ (Open(s)' => Open(s)) /\ Path(s)' = Path(s)
    <3>1. Pending(s)' = Pending(s)
      BY <1>3 DEF Pending
    <3> QED
      BY <1>3, <3>1 DEF Born, Open, Path
  <2>3. \A g \in GateIds : Agrees(ToCome', g, "connecting", FW!Position[g])
    BY <2>1 DEF Converging
  <2> QED
    BY <1>2, <1>3, <2>2, <2>3, SamePaths
<1>4. CASE ComDoWrite \/ ComOnWrite \/ ComOnWriteError \/ ComOnReadError
  BY <1>3, <1>4 DEF ComDoWrite, ComOnWrite, ComOnWriteError, ComOnReadError,
                    pageVars, lineVars
<1>5. ASSUME NEW k \in 0 .. Len(tx), NEW more \in BOOLEAN, ComOnRead(k, more)
      PROVE  ~cut' /\ Converging'
  BY <1>1, <1>2, <1>5, ComOnReadConverges
<1>6. CASE Update
  BY <1>1, <1>2, <1>6, UpdateConverges DEF Update, lineVars
<1>7. ASSUME NEW s \in Sessions, Session(s)
      PROVE  ~cut' /\ Converging'
  <2>1. cut' = cut
    BY <1>7 DEF Session, OnAccept, OnReadError, DoWrite, OnWrite, OnWriteError, lineVars
  <2> QED
    BY <1>1, <1>2, <1>7, <2>1, SessionConverges, OnWriteConverges DEF Session
<1>8. ASSUME NEW s \in Sessions, Clients(s)
      PROVE  ~cut' /\ Converging'
  <2>1. ASSUME NEW permissions, Upgrade(s, permissions) PROVE ~cut' /\ Converging'
    BY <1>1, <1>2, <2>1, UpgradeConverges DEF Upgrade, lineVars
  <2>2. ASSUME NEW msg, OnRead(s, msg) PROVE ~cut' /\ Converging'
    BY <1>3, <2>2 DEF OnRead, pageVars, lineVars
  <2>3. CASE ConfigLoaded(s) \/ Disconnect(s)
    <3>1. UNCHANGED <<imq, ws, tx, cut>>
      BY <2>3 DEF ConfigLoaded, Disconnect, serverVars, lineVars
    <3>2. page \in [Sessions -> PageObjects(Messages)]
      BY <1>1 DEF IInv, Typed
    <3>3. \A r \in Sessions :
            /\ page'[r].shown = page[r].shown
            /\ page'[r].up => page[r].up
            /\ page[r].configured => page'[r].configured
      BY <2>3, <3>2 DEF ConfigLoaded, Disconnect, PageObjects
    <3> QED
      BY <1>3, <3>1, <3>3
  <2> QED
    BY <1>8, <2>1, <2>2, <2>3 DEF Clients
<1> QED
  BY <1>1, <1>4, <1>5, <1>6, <1>7, <1>8 DEF Server, Com

\* send_gate_states says of the gates it is asked for what they are after the step.
LEMMA ReportSays ==
  ASSUME NEW ids, FW!SendGateStates(ids)
  PROVE  \E msg :
           /\ tx' = Append(tx, msg)
           /\ \A g \in FW!Gates : Speaks(msg, g) <=> g \in ids
           /\ \A g \in FW!Gates : g \in ids => StatesOf(msg)[g] = FW!Position'[g]
<1> DEFINE states == [g \in ids \cap FW!Gates |-> FW!GetState(gates'[g])]
           msg == [type |-> "query_state_result", states |-> states]
<1>1. tx' = Append(tx, msg)
  BY DEF FW!SendGateStates
<1>2. StatesOf(msg) = states
  BY DEF StatesOf
<1>3. \A g \in FW!Gates : FW!Position'[g] = FW!GetState(gates'[g])
  BY DEF FW!Position
<1> HIDE DEF msg
<1>4. /\ \A g \in FW!Gates : Speaks(msg, g) <=> g \in ids
      /\ \A g \in FW!Gates : g \in ids => StatesOf(msg)[g] = FW!Position'[g]
  BY <1>2, <1>3 DEF Speaks
<1> QED
  BY <1>1, <1>4

\* A step of the board says of every gate whose state it changes what it is now,
\* and nothing untrue of the others.
LEMMA BoardSaysChanges ==
  ASSUME PartsSound, BoardStep
  PROVE  \/ tx' = tx /\ \A g \in GateIds : FW!Position'[g] = FW!Position[g]
         \/ \E msg \in Messages :
              /\ tx' = Append(tx, msg)
              /\ \A g \in GateIds :
                   /\ Speaks(msg, g) => StatesOf(msg)[g] = FW!Position'[g]
                   /\ ~Speaks(msg, g) => FW!Position'[g] = FW!Position[g]
<1>1. /\ gates \in [FW!Gates -> FW!Gate] /\ rx \in Seq(FW!Requests)
      /\ \A g \in FW!Gates : ~gates[g].is_changing => gates[g].state \in {0, Full}
  BY DEF PartsSound, FW!IInv, FW!TypeOK, FW!RestAtEnd
<1>2. ASSUME NEW ids, FW!SendGateStates(ids),
             \A g \in FW!Gates : g \notin ids => FW!Position'[g] = FW!Position[g]
      PROVE  \E msg \in Messages :
               /\ tx' = Append(tx, msg)
               /\ \A g \in GateIds :
                    /\ Speaks(msg, g) => StatesOf(msg)[g] = FW!Position'[g]
                    /\ ~Speaks(msg, g) => FW!Position'[g] = FW!Position[g]
  <2>1. PICK msg : /\ tx' = Append(tx, msg)
                   /\ \A g \in FW!Gates : Speaks(msg, g) <=> g \in ids
                   /\ \A g \in FW!Gates :
                        g \in ids => StatesOf(msg)[g] = FW!Position'[g]
    BY <1>2, ReportSays
  <2>2. msg \in Messages
    BY <2>1, SentIsMessage
  <2> QED
    BY <1>2, <2>1, <2>2, SameBoard
<1>3. ASSUME gates' = gates PROVE FW!Position' = FW!Position
  BY <1>3 DEF FW!Position
<1>4. ASSUME NEW g \in FW!Gates, NEW new, gates' = [gates EXCEPT ![g] = new]
      PROVE  /\ \A h \in FW!Gates : h # g => FW!Position'[h] = FW!Position[h]
             /\ FW!Position'[g] = FW!GetState(new)
  <2>1. gates'[g] = new /\ \A h \in FW!Gates : h # g => gates'[h] = gates[h]
    BY <1>1, <1>4
  <2> QED
    BY <2>1 DEF FW!Position
<1>5. CASE FW!HandleMessage
  <2> DEFINE msg == Head(rx)
  <2>1. msg \in FW!Requests
    BY <1>1, <1>5 DEF FW!HandleMessage
  <2>2. CASE FW!ChangeState(msg)
    <3> DEFINE new == IF msg.state THEN FW!RaiseGate(gates[msg.id])
                                   ELSE FW!LowerGate(gates[msg.id])
    <3>1. /\ gates' = [gates EXCEPT ![msg.id] = new]
          /\ FW!SendGateStates({msg.id})
      BY <2>2 DEF FW!ChangeState
    <3>2. msg.id \in FW!Gates
      BY <2>1, <2>2 DEF FW!ChangeState, FW!Requests, FW!ChangeStates, FW!QueryStates,
                        FW!Malformed, FW!NullDocument
    <3> HIDE DEF msg, new
    <3>3. \A g \in FW!Gates : g \notin {msg.id} => FW!Position'[g] = FW!Position[g]
      BY <1>4, <3>1, <3>2
    <3> QED
      BY <1>2, <3>1, <3>3
  <2>3. CASE FW!QueryState(msg)
    BY <1>2, <1>3, <2>3 DEF FW!QueryState
  <2>4. CASE FW!SendError(msg)
    <3> DEFINE error == [type |-> "error"]
    <3>1. gates' = gates /\ tx' = Append(tx, error)
      BY <2>4 DEF FW!SendError
    <3>2. StatesOf(error) = <<>> /\ DOMAIN <<>> = {}
      BY DEF StatesOf
    <3> HIDE DEF error
    <3>3. error \in Messages /\ \A g \in GateIds : ~Speaks(error, g)
      BY <3>1, <3>2, SentIsMessage DEF Speaks
    <3> QED
      BY <1>3, <3>1, <3>3
  <2>5. CASE FW!SkipNull(msg)
    BY <1>3, <2>5 DEF FW!SkipNull, FW!SendNothing
  <2> QED
    BY <1>5, <2>2, <2>3, <2>4, <2>5 DEF FW!HandleMessage
<1>6. CASE FW!NoMessage
  BY <1>3, <1>6 DEF FW!NoMessage
<1>7. CASE FW!UpdateGate
  <2> DEFINE new == FW!Tick(gates[i])
  <2>1. /\ i \in FW!Gates /\ gates' = [gates EXCEPT ![i] = new]
        /\ gates'[i] = new
        /\ IF gates'[i].just_finished THEN FW!SendGateStates({i}) ELSE FW!SendNothing
    BY <1>1, <1>7 DEF FW!UpdateGate
  <2>2. FW!GetState(new) = FW!GetState(gates[i]) \/ new.just_finished
    BY <1>1, <2>1, FW!TickGetState, BoardAssumption
  <2> HIDE DEF new
  <2>3. /\ \A g \in FW!Gates : g # i => FW!Position'[g] = FW!Position[g]
        /\ FW!Position'[i] = FW!GetState(new)
    BY <1>4, <2>1
  <2>4. CASE new.just_finished
    BY <1>2, <2>1, <2>3, <2>4
  <2>5. CASE ~new.just_finished
    <3>1. FW!Position[i] = FW!GetState(gates[i])
      BY <2>1 DEF FW!Position
    <3> QED
      BY <2>1, <2>2, <2>3, <2>5, <3>1, SameBoard DEF FW!SendNothing
  <2> QED
    BY <2>4, <2>5
<1> QED
  BY <1>5, <1>6, <1>7, SameBoard DEF BoardStep, Firmware!Loop

LEMMA BoardConverges ==
  ASSUME PartsSound, Converging, BoardStep
  PROVE  Converging'
<1>1. /\ imq' = imq /\ ws' = ws /\ page' = page /\ IInv(Messages)
      /\ \A s \in Sessions : /\ Born(s)' <=> Born(s)
                             /\ Open(s)' <=> Open(s)
                             /\ Pending(s)' = Pending(s)
  BY DEF BoardStep, serverVars, pageVars, PartsSound, Born, Open, Pending
<1>2. \A s \in Sessions, g \in GateIds :
        ~Born(s)' \/ ~page'[s].configured => page'[s].shown[g] = "connecting"
  BY <1>1 DEF Converging
<1>3. /\ ToCome' = Bodies(imq) \o tx'
      /\ \A s \in Sessions : Path(s)' = Bodies(Pending(s) \o imq) \o tx'
  BY <1>1 DEF ToCome, Path, Bodies
<1>4. CASE tx' = tx /\ \A g \in GateIds : FW!Position'[g] = FW!Position[g]
  <2>1. ToCome' = ToCome /\ \A s \in Sessions : Path(s)' = Path(s)
    BY <1>1, <1>3, <1>4, PathParts DEF ToCome
  <2> QED
    BY <1>1, <1>2, <1>4, <2>1 DEF Converging
<1>5. ASSUME NEW msg \in Messages, tx' = Append(tx, msg),
             \A g \in GateIds :
               /\ Speaks(msg, g) => StatesOf(msg)[g] = FW!Position'[g]
               /\ ~Speaks(msg, g) => FW!Position'[g] = FW!Position[g]
      PROVE  Converging'
  <2>1. ASSUME NEW said \in Seq(Messages)
        PROVE  said \o tx' = Append(said \o tx, msg)
    BY <1>1, <1>5, PathParts, AppendConcat
  <2>2. ASSUME NEW path \in Seq(Messages), NEW g \in GateIds, NEW start,
               Agrees(path, g, start, FW!Position[g])
        PROVE  Agrees(Append(path, msg), g, start, FW!Position'[g])
    <3> DEFINE now == FW!Position[g]
               next == FW!Position'[g]
    <3>1. /\ Agrees(path, g, start, now)
          /\ Speaks(msg, g) => StatesOf(msg)[g] = next
          /\ ~Speaks(msg, g) => next = now
      BY <1>5, <2>2
    <3> HIDE DEF now, next
    <3>2. Agrees(Append(path, msg), g, start, next)
      BY <3>1, AgreesAppend
    <3> QED
      BY <3>2 DEF next
  <2>3. ToCome' = Append(ToCome, msg) /\ ToCome \in Seq(Messages)
    BY <1>1, <1>3, <2>1, PathParts DEF ToCome
  <2>4. ASSUME NEW s \in Sessions
        PROVE  Path(s)' = Append(Path(s), msg) /\ Path(s) \in Seq(Messages)
    BY <1>1, <1>3, <2>1, PathParts
  <2>5. \A g \in GateIds : Agrees(ToCome', g, "connecting", FW!Position'[g])
    BY <2>2, <2>3 DEF Converging
  <2>6. \A s \in Sessions, g \in GateIds :
          Open(s)' => Agrees(Path(s)', g, page'[s].shown[g], FW!Position'[g])
    BY <1>1, <2>2, <2>4 DEF Converging
  <2> QED
    BY <1>2, <2>5, <2>6 DEF Converging
<1> QED
  BY <1>4, <1>5, BoardSaysChanges

LEMMA InitConverging == SystemInit => ~cut /\ Converging
<1> SUFFICES ASSUME SystemInit PROVE ~cut /\ Converging
  OBVIOUS
<1>1. /\ cut = FALSE /\ imq = <<>> /\ tx = <<>>
      /\ \A s \in Sessions : /\ ~Born(s) /\ ~Open(s)
                             /\ \A g \in GateIds : page[s].shown[g] = "connecting"
  BY DEF SystemInit, Init, Born, Open
<1>2. ToCome \in Seq(Messages) /\ Len(ToCome) = 0
  <2>1. IInv(Messages)
    BY InitParts DEF PartsSound
  <2>2. /\ Bodies(imq) \in Seq(Messages) /\ Len(Bodies(imq)) = Len(imq)
        /\ tx \in Seq(Messages) /\ Len(imq) = 0 /\ Len(tx) = 0
    BY <1>1, <2>1, PathParts, BodiesTyped
  <2> QED
    BY <2>2, ConcatProperties DEF ToCome
<1>3. \A g \in GateIds : Agrees(ToCome, g, "connecting", FW!Position[g])
  BY <1>2 DEF Agrees
<1> QED
  BY <1>1, <1>3 DEF Converging

\* The last mention is the one after which there is none.
LEMMA LastMention ==
  ASSUME IInv(Messages), NEW s \in Sessions, NEW g, NEW now,
         Agrees(Path(s), g, page[s].shown[g], now)
  PROVE  LastWord(s, g) \in {"connecting", now}
<1> DEFINE path == Path(s)
<1>1. /\ Mentions(s, g) = {k \in DOMAIN path : Speaks(path[k], g)}
      /\ LastWord(s, g) =
           IF Mentions(s, g) = {} THEN page[s].shown[g]
           ELSE StatesOf(path[CHOOSE k \in Mentions(s, g) :
                                \A l \in Mentions(s, g) : l <= k])[g]
  BY DEF Mentions, LastWord, Speaks
<1>2. path \in Seq(Messages) /\ DOMAIN path \subseteq Nat
  BY PathParts
<1> HIDE DEF path
<1>3. CASE \A k \in DOMAIN path : ~Speaks(path[k], g)
  BY <1>1, <1>3 DEF Agrees, path
<1>4. CASE \E k \in DOMAIN path : Speaks(path[k], g)
  <2>1. PICK k \in DOMAIN path :
          /\ Speaks(path[k], g) /\ StatesOf(path[k])[g] = now
          /\ \A l \in DOMAIN path : l > k => ~Speaks(path[l], g)
    BY <1>4 DEF Agrees, path
  <2>2. k \in Mentions(s, g) /\ \A l \in Mentions(s, g) : l <= k
    BY <1>1, <1>2, <2>1
  <2> DEFINE top == CHOOSE m \in Mentions(s, g) : \A l \in Mentions(s, g) : l <= m
  <2>3. top \in Mentions(s, g) /\ \A l \in Mentions(s, g) : l <= top
    BY <2>2
  <2>4. top = k
    <3>1. top \in Nat /\ k \in Nat /\ top <= k /\ k <= top
      BY <1>1, <1>2, <2>2, <2>3
    <3> HIDE DEF top
    <3> QED
      BY <3>1
  <2> QED
    BY <1>1, <2>1, <2>2, <2>4
<1> QED
  BY <1>3, <1>4

\* Where every read of the COM port gets one whole message, each page comes to
\* show what the gates are: no report is lost between send_gate_states and the
\* page, none overtakes another, and every change of a gate sends one.
THEOREM PagesConvergeWhenAligned ==
  ASSUME Aligned
  PROVE  SystemSpec => []PagesConverge
<1> DEFINE inv == ~cut /\ Converging
<1>1. SystemInit => inv
  BY InitConverging
<1>2. PartsSound /\ inv /\ [SystemNext]_systemVars => inv'
  <2> SUFFICES ASSUME PartsSound, inv, [SystemNext]_systemVars PROVE inv'
    OBVIOUS
  <2>1. CASE ServerStep
    BY <2>1, ServerConverges
  <2>2. CASE BoardStep
    BY <2>2, BoardConverges DEF BoardStep
  <2>3. CASE UNCHANGED systemVars
    <3>1. UNCHANGED <<imq, ws, page, tx, cut, gates>>
      BY <2>3 DEF systemVars, boardVars, vars, serverVars, lineVars, pageVars
    <3>2. /\ ToCome' = ToCome /\ FW!Position' = FW!Position
          /\ \A s \in Sessions : /\ Path(s)' = Path(s)
                                 /\ Born(s)' <=> Born(s)
                                 /\ Open(s)' <=> Open(s)
      BY <3>1 DEF ToCome, Bodies, FW!Position, Path, Pending, Born, Open
    <3> QED
      BY <3>1, <3>2 DEF Converging
  <2> QED
    BY <2>1, <2>2, <2>3 DEF SystemNext
<1>3. PartsSound /\ inv => PagesConverge
  <2> SUFFICES ASSUME PartsSound, inv, NEW s \in Sessions, NEW g \in GateIds, Open(s)
               PROVE  LastWord(s, g) \in {"connecting", Firmware!Position[g]}
    BY DEF PagesConverge
  <2>1. IInv(Messages) /\ Agrees(Path(s), g, page[s].shown[g], FW!Position[g])
    BY DEF PartsSound, Converging
  <2> QED
    BY <2>1, LastMention, SameBoard
<1> HIDE DEF inv
<1> QED
  BY <1>1, <1>2, <1>3, PartsInvariance, PTL DEF SystemSpec
=============================================================================

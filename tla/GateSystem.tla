----------------------------- MODULE GateSystem -----------------------------
(***************************************************************************)
(* The whole system: the server of Bridge and the board of GateFirmware at *)
(* the two ends of the serial line.  The board's loop takes the requests   *)
(* the server writes to rx, and the server reads what the board writes to  *)
(* tx.  The cable stays plugged in.                                        *)
(***************************************************************************)
EXTENDS Bridge

CONSTANTS GATE_PINS_SIZE, Full, Step, Queries, MaxSerial

VARIABLES gates, pin, i, reported

Firmware == INSTANCE GateFirmware

boardVars == <<gates, pin, i, reported>>
systemVars == <<vars, boardVars>>

ASSUME SystemAssumption ==
  /\ Firmware!FirmwareAssumption
  /\ GateIds = Firmware!Gates
  /\ GateIds \in Queries
  /\ \A msg \in ClientMessages : msg.request \in Firmware!Requests
  /\ MaxSerial >= MaxClientMessages

-----------------------------------------------------------------------------
SystemInit == Init /\ Firmware!Init

ServerStep == Server /\ UNCHANGED boardVars

BoardStep == UNCHANGED <<serverVars, pageVars, cut, spent>> /\ Firmware!Loop

SystemNext == ServerStep \/ BoardStep

SystemSpec == SystemInit /\ [][SystemNext]_systemVars

\* What the server and the open pages do of themselves.
ServerProgress ==
  \/ ComDoWrite \/ ComOnWrite \/ (\E k \in 1 .. Len(tx) : ComOnRead(k, FALSE))
  \/ Update
  \/ \E s \in Sessions : Session(s) \/ ConfigLoaded(s)

\* The board calls loop() for ever, and the server's pool does not idle while a
\* handler can do something.  Clients say boundedly much and every handler uses
\* up what it handles, so that no handler can be put off for ever by others.
SystemFairness ==
  /\ WF_systemVars(BoardStep)
  /\ WF_systemVars(UNCHANGED boardVars /\ ServerProgress)

SystemFairSpec == SystemSpec /\ SystemFairness

-----------------------------------------------------------------------------
\* A session whose page is open and allowed to see the gates.
Open(s) == Born(s) /\ page[s].up /\ ws[s].permissions # "Blocked"

\* Everything on its way from the board to the page of s, oldest first.
Path(s) ==
  LET body(e) == e.body
      queued == Pending(s) \o imq
  IN  [k \in DOMAIN queued |-> body(queued[k])] \o tx

\* The positions of Path(s) that speak of gate g.
Mentions(s, g) ==
  {k \in DOMAIN Path(s) : g \in DOMAIN StatesOf(Path(s)[k])}

\* The last that the page of s has been or will be told of gate g.
LastWord(s, g) ==
  IF Mentions(s, g) = {} THEN page[s].shown[g]
  ELSE LET k == CHOOSE k \in Mentions(s, g) : \A l \in Mentions(s, g) : l <= k
       IN  StatesOf(Path(s)[k])[g]

\* Pages converge to the board: whatever an open page shows now, the last word
\* on its way to it, through serial line, imq, write_queue and write_buffer, is
\* the gate's present state.  A page that is still "connecting" awaits its query.
PagesConverge ==
  \A s \in Sessions, g \in GateIds :
    Open(s) => LastWord(s, g) \in {"connecting", Firmware!Position[g]}

\* As long as nobody has been granted Control, no gate moves.
NoControllerNoMovement ==
  (\A s \in Sessions : ws[s].permissions # "Control") =>
    \A g \in GateIds : Firmware!Position[g] = "lowered"

\* Once the clients have said what they had to say, every open page shows the
\* state of every gate, and goes on doing so.
EventuallyAgree ==
  <>[](\A s \in Sessions, g \in GateIds :
         Open(s) => page[s].shown[g] = Firmware!Position[g])

\* A change of state asked for over a websocket reaches its gate.
RequestsExecuted ==
  \A g \in GateIds, raise \in BOOLEAN :
    (\E k \in DOMAIN omq :
       omq[k] = [type |-> "change_state", id |-> g, state |-> raise])
    ~> Firmware!Position[g] = IF raise THEN "raising" ELSE "lowering"

\* "When the control page is opened a message asking for the state of the gate is
\* sent, and the elements of the page change according to the answer": a page
\* that stays open shows every gate.
PageShowsGates ==
  \A s \in Sessions :
    Open(s) ~> ~page[s].up \/ \A g \in GateIds : page[s].shown[g] # "connecting"
=============================================================================

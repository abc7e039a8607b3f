------------------------------- MODULE Bridge -------------------------------
(***************************************************************************)
(* The server between the serial line and the browsers: arduino_messenger  *)
(* (the COM port), common_state (the registry of websocket sessions and    *)
(* the broadcast), websocket_session, and as much of the two pages as      *)
(* decides what they show.                                                 *)
(*                                                                         *)
(* Every asynchronous object is a read loop and a write loop whose next    *)
(* handler is pending, so a loop is a program counter: "reading",          *)
(* "writing" (an operation is in flight), "posted" (do_write will look at  *)
(* the queue again), "ended".  One step per handler; a handler runs on     *)
(* whichever thread of the pool is free, so their order is arbitrary.  A   *)
(* poll that finds nothing to do changes nothing and is not a step.        *)
(*                                                                         *)
(* Reports are numbered as they enter the incoming queue, to tell apart    *)
(* two reports that say the same.                                          *)
(***************************************************************************)
EXTENDS Integers, Sequences

CONSTANTS
  Sessions,            \* websocket sessions ever created
  GateIds,             \* gates shown on the pages
  ClientMessages,      \* what a client may send: [type, request]
  ArduinoMessages,     \* what the board may write by itself
  MaxClientMessages,   \* bound: messages sent by all clients together
  MaxArduinoMessages,  \* bound: messages the board writes by itself
  PermissionsOf,       \* what the user behind each session may be granted
  Leavers,             \* sessions whose client may go
  Aligned,             \* TRUE: every read of the COM port gets one whole message
  ConfigFirst          \* TRUE: pages have their /config before they connect

ASSUME BridgeAssumption ==
  /\ MaxClientMessages \in Nat /\ MaxArduinoMessages \in Nat
  /\ PermissionsOf \in [Sessions -> SUBSET {"Blocked", "View", "Control"}]
  /\ Leavers \subseteq Sessions
  /\ Aligned \in BOOLEAN /\ ConfigFirst \in BOOLEAN

VARIABLES
  com,       \* the loops of arduino_messenger and the message being written
  omq,       \* outgoing_message_queue: requests for the board
  imq,       \* incoming_message_queue: [n, type, body]
  sessions,  \* common_state::sessions, the weak pointers
  ws,        \* the websocket sessions
  page,      \* the browser behind each session
  rx,        \* requests on the line to the board
  tx,        \* messages on the line from the board
  cut,       \* TRUE: a read has taken the first part of the head of tx
  popped,    \* history: number of reports taken off imq by update
  last,      \* history: number of the last report each page has received
  spent      \* messages sent so far by the clients and by the board itself

serverVars == <<com, omq, imq, sessions, ws, popped>>
lineVars == <<rx, tx, cut>>
pageVars == <<page, last>>
vars == <<serverVars, lineVars, pageVars, spent>>

-----------------------------------------------------------------------------
\* json_message.

MessageType ==
  {"query_state", "query_state_result", "change_state", "availability", "text"}

\* str_to_type falls off its end for a name it does not know: any value.
StrToType(name) == IF name \in MessageType THEN {name} ELSE MessageType

\* A page takes gate states from the payload of a query_state_result only.
StatesOf(body) == IF body.type = "query_state_result" THEN body.states ELSE <<>>

QueryAllGates == [type |-> "query_state", ids |-> GateIds]

-----------------------------------------------------------------------------
\* Websocket sessions.

\* No handler holds the session's shared_ptr any more: its weak_ptr expired.
Expired(s) ==
  /\ ws[s].reader = "ended"
  /\ ws[s].writer \in {"none", "ended"}

Born(s) == ws[s].reader # "none"

\* Mutants: the message sent stays in the queue; only the newest message is
\* sent; an empty queue is not looked at again.
SessionDoWrite_KeepsFront(session) ==
  IF session.queue = <<>>
  THEN [session EXCEPT !.writer = "posted", !.buffer = <<>>]
  ELSE [session EXCEPT !.writer = "writing",
                       !.failing = session.reader = "ended",
                       !.buffer = <<Head(session.queue)>>]

SessionDoWrite_NewestOnly(session) ==
  IF session.queue = <<>>
  THEN [session EXCEPT !.writer = "posted", !.buffer = <<>>]
  ELSE [session EXCEPT !.writer = "writing",
                       !.failing = session.reader = "ended",
                       !.buffer = <<session.queue[Len(session.queue)]>>,
                       !.queue = <<>>]

SessionDoWrite_NoRepost(session) ==
  IF session.queue = <<>>
  THEN [session EXCEPT !.writer = "none", !.buffer = <<>>]
  ELSE [session EXCEPT !.writer = "writing",
                       !.failing = session.reader = "ended",
                       !.buffer = <<Head(session.queue)>>,
                       !.queue = Tail(session.queue)]

\* do_write: begin to send the next message, or look again later.  A write
\* begun on a stream whose read loop has ended fails.
SessionDoWrite(session) ==
  IF session.queue = <<>>
  THEN [session EXCEPT !.writer = "posted", !.buffer = <<>>]
  ELSE [session EXCEPT !.writer = "writing",
                       !.failing = session.reader = "ended",
                       !.buffer = <<Head(session.queue)>>,
                       !.queue = Tail(session.queue)]

\* What the page behind s shows once it has received report.
Receive(s, report) ==
  LET states == StatesOf(report.body)
  IN  /\ last' = [last EXCEPT ![s] = report.n]
      /\ page' = IF page[s].configured
                 THEN [page EXCEPT ![s].shown =
                         [g \in GateIds |-> IF g \in DOMAIN states
                                            THEN states[g] ELSE @[g]]]
                 ELSE page

\* http_session::on_read for an upgrade whose nonce is fresh: the session is
\* made, do_accept checks its credentials, and it is registered either way.
Upgrade(s, permissions) ==
  /\ ~Born(s)
  /\ ws' = [ws EXCEPT ![s].permissions = permissions,
                      ![s].reader = IF permissions = "Blocked"
                                    THEN "ended" ELSE "accepting"]
  /\ sessions' = sessions \cup {s}
  /\ omq' = Append(omq, QueryAllGates)
  /\ last' = [last EXCEPT ![s] = popped]
  /\ UNCHANGED <<com, imq, popped, page, lineVars, spent>>

OnAccept(s) ==
  /\ ws[s].reader = "accepting"
  /\ IF page[s].up
     THEN ws' = [ws EXCEPT ![s] = SessionDoWrite([@ EXCEPT !.reader = "reading"])]
     ELSE ws' = [ws EXCEPT ![s].reader = "ended"]
  /\ UNCHANGED <<com, omq, imq, sessions, popped, pageVars, lineVars, spent>>

\* Mutant: permissions are not looked at.
OnRead_AnyPermission(s, msg) ==
  /\ ws[s].reader = "reading"
  /\ spent.clients < MaxClientMessages
  /\ msg.type # "unparsable"
  /\ StrToType(msg.type) \cap {"query_state", "change_state"} # {}
  /\ omq' = Append(omq, msg.request)
  /\ spent' = [spent EXCEPT !.clients = @ + 1]
  /\ UNCHANGED <<com, imq, sessions, ws, popped, pageVars, lineVars>>

\* on_read with a message, sent perhaps before the client went: handle_message
\* forwards what a controller asks.
OnRead(s, msg) ==
  /\ ws[s].reader = "reading"
  /\ spent.clients < MaxClientMessages
  /\ \/ /\ ws[s].permissions = "Control"
        /\ msg.type # "unparsable"
        /\ StrToType(msg.type) \cap {"query_state", "change_state"} # {}
        /\ omq' = Append(omq, msg.request)
     \/ /\ \/ ws[s].permissions # "Control"
           \/ msg.type = "unparsable"
           \/ StrToType(msg.type) \ {"query_state", "change_state"} # {}
        /\ UNCHANGED omq
  /\ spent' = [spent EXCEPT !.clients = @ + 1]
  /\ UNCHANGED <<com, imq, sessions, ws, popped, pageVars, lineVars>>

\* Mutant: on_read reads on after an error.
OnReadError_ReadsOn(s) ==
  /\ ws[s].reader = "reading"
  /\ ~page[s].up
  /\ UNCHANGED vars

\* on_read with an error or a close frame: only the read loop ends.
OnReadError(s) ==
  /\ ws[s].reader = "reading"
  /\ ~page[s].up
  /\ ws' = [ws EXCEPT ![s].reader = "ended"]
  /\ UNCHANGED <<com, omq, imq, sessions, popped, pageVars, lineVars, spent>>

\* The posted do_write finds a message.
DoWrite(s) ==
  /\ ws[s].writer = "posted"
  /\ ws[s].queue # <<>>
  /\ ws' = [ws EXCEPT ![s] = SessionDoWrite(@)]
  /\ UNCHANGED <<com, omq, imq, sessions, popped, pageVars, lineVars, spent>>

\* on_write: the message reached the client, or at least its socket.
OnWrite(s) ==
  /\ ws[s].writer = "writing"
  /\ ~ws[s].failing
  /\ ws' = [ws EXCEPT ![s] = SessionDoWrite(@)]
  /\ IF page[s].up THEN Receive(s, Head(ws[s].buffer)) ELSE UNCHANGED pageVars
  /\ UNCHANGED <<com, omq, imq, sessions, popped, lineVars, spent>>

\* Mutant: an error is treated like a success.
OnWriteError_Retries(s) ==
  /\ ws[s].writer = "writing"
  /\ ~page[s].up
  /\ ws' = [ws EXCEPT ![s] = SessionDoWrite(@)]
  /\ UNCHANGED <<com, omq, imq, sessions, popped, pageVars, lineVars, spent>>

\* on_write with an error: the write loop ends.
OnWriteError(s) ==
  /\ ws[s].writer = "writing"
  /\ ~page[s].up
  /\ ws' = [ws EXCEPT ![s].writer = "ended", ![s].buffer = <<>>]
  /\ UNCHANGED <<com, omq, imq, sessions, popped, pageVars, lineVars, spent>>

-----------------------------------------------------------------------------
\* common_state and arduino_messenger.

\* Mutant: a session is forgotten as soon as its read loop has ended.
Update_ForgetsClosed ==
  /\ sessions # {}
  /\ LET live == {s \in sessions : ws[s].reader # "ended"}
     IN  /\ sessions' = live
         /\ IF imq # <<>> /\ Head(imq).type = "query_state_result"
            THEN /\ ws' = [s \in Sessions |->
                            IF s \in live
                            THEN [ws[s] EXCEPT !.queue = Append(@, Head(imq))]
                            ELSE ws[s]]
                 /\ imq' = Tail(imq)
                 /\ popped' = popped + 1
            ELSE UNCHANGED <<ws, imq, popped>>
  /\ UNCHANGED <<com, omq, pageVars, lineVars, spent>>

\* update: forget expired sessions, then hand the oldest report to the others.
\* Anything but a query_state_result stays at the head of the queue.
Update ==
  /\ sessions # {}
  /\ LET live == {s \in sessions : ~Expired(s)}
     IN  /\ sessions' = live
         /\ IF imq # <<>> /\ Head(imq).type = "query_state_result"
            THEN /\ ws' = [s \in Sessions |->
                            IF s \in live
                            THEN [ws[s] EXCEPT !.queue = Append(@, Head(imq))]
                            ELSE ws[s]]
                 /\ imq' = Tail(imq)
                 /\ popped' = popped + 1
            ELSE UNCHANGED <<ws, imq, popped>>
  /\ UNCHANGED <<com, omq, pageVars, lineVars, spent>>

\* Mutant: an empty queue is not looked at again.
ComStartWrite_NoRepost(loops) ==
  IF omq = <<>>
  THEN /\ com' = [loops EXCEPT !.writer = "idle", !.buffer = <<>>]
       /\ UNCHANGED omq
  ELSE /\ com' = [loops EXCEPT !.writer = "writing", !.buffer = <<Head(omq)>>]
       /\ omq' = Tail(omq)

\* do_write of the COM port, whose next look at the queue is posted or made by
\* on_write.
ComStartWrite(loops) ==
  IF omq = <<>>
  THEN /\ com' = [loops EXCEPT !.writer = "posted", !.buffer = <<>>]
       /\ UNCHANGED omq
  ELSE /\ com' = [loops EXCEPT !.writer = "writing", !.buffer = <<Head(omq)>>]
       /\ omq' = Tail(omq)

ComDoWrite ==
  /\ com.writer = "posted"
  /\ omq # <<>>
  /\ ComStartWrite(com)
  /\ UNCHANGED <<imq, sessions, ws, popped, pageVars, lineVars, spent>>

ComOnWrite ==
  /\ com.writer = "writing"
  /\ com.plugged
  /\ ComStartWrite(com)
  /\ rx' = rx \o com.buffer
  /\ UNCHANGED <<imq, sessions, ws, popped, pageVars, tx, cut, spent>>

\* Mutant: on_write does not clear the buffer of the write that failed.
ComOnWriteError_KeepsBuffer ==
  /\ com.writer = "writing"
  /\ ~com.plugged
  /\ com' = [com EXCEPT !.writer = "ended"]
  /\ UNCHANGED <<omq, imq, sessions, ws, popped, pageVars, lineVars, spent>>

ComOnWriteError ==
  /\ com.writer = "writing"
  /\ ~com.plugged
  /\ com' = [com EXCEPT !.writer = "ended", !.buffer = <<>>]
  /\ UNCHANGED <<omq, imq, sessions, ws, popped, pageVars, lineVars, spent>>

\* One read takes the ends of k messages and, if more, the first part of the
\* one that follows.  on_read parses whatever it got as a single message.
ComOnRead(k, more) ==
  /\ com.reader = "reading"
  /\ com.plugged
  /\ k \in 0 .. Len(tx)
  /\ more => k < Len(tx)
  /\ k > 0 \/ (more /\ ~cut)
  /\ Aligned => k = 1 /\ ~more
  /\ IF k = 1 /\ ~cut /\ ~more
     THEN \E type \in StrToType(Head(tx).type) :
            imq' = Append(imq, [n    |-> popped + Len(imq) + 1,
                                type |-> type,
                                body |-> Head(tx)])
     ELSE UNCHANGED imq
  /\ tx' = SubSeq(tx, k + 1, Len(tx))
  /\ cut' = more
  /\ UNCHANGED <<com, omq, sessions, ws, popped, pageVars, rx, spent>>

ComOnReadError ==
  /\ com.reader = "reading"
  /\ ~com.plugged
  /\ com' = [com EXCEPT !.reader = "ended"]
  /\ UNCHANGED <<omq, imq, sessions, ws, popped, pageVars, lineVars, spent>>

-----------------------------------------------------------------------------
\* The browsers, and the cable.

\* getConfig().then: the page starts to listen to the gates' new states.
ConfigLoaded(s) ==
  /\ page[s].up
  /\ ~page[s].configured
  /\ page' = [page EXCEPT ![s].configured = TRUE]
  /\ UNCHANGED <<serverVars, lineVars, last, spent>>

\* The client closes the connection or is lost; the server hears of it later.
Disconnect(s) ==
  /\ Born(s) /\ s \in Leavers
  /\ page[s].up
  /\ page' = [page EXCEPT ![s].up = FALSE]
  /\ UNCHANGED <<serverVars, lineVars, last, spent>>

Unplug ==
  /\ com.plugged
  /\ com' = [com EXCEPT !.plugged = FALSE]
  /\ UNCHANGED <<omq, imq, sessions, ws, popped, pageVars, lineVars, spent>>

\* The board, as far as the server can tell: it takes requests and writes.
BoardReads ==
  /\ rx # <<>>
  /\ rx' = Tail(rx)
  /\ UNCHANGED <<serverVars, pageVars, tx, cut, spent>>

BoardWrites(msg) ==
  /\ spent.board < MaxArduinoMessages
  /\ tx' = Append(tx, msg)
  /\ spent' = [spent EXCEPT !.board = @ + 1]
  /\ UNCHANGED <<serverVars, pageVars, rx, cut>>

-----------------------------------------------------------------------------
Permissions == {"Blocked", "View", "Control"}

\* arduino_messenger::run and common_state::run have been called.
Init ==
  /\ com = [reader |-> "reading", writer |-> "posted", buffer |-> <<>>,
            plugged |-> TRUE]
  /\ omq = <<>> /\ imq = <<>> /\ sessions = {} /\ popped = 0
  /\ ws = [s \in Sessions |-> [permissions |-> "Blocked", reader |-> "none",
                                writer |-> "none", failing |-> FALSE,
                                buffer |-> <<>>, queue |-> <<>>]]
  /\ page = [s \in Sessions |-> [up |-> TRUE, configured |-> ConfigFirst,
                                  shown |-> [g \in GateIds |-> "connecting"]]]
  /\ last = [s \in Sessions |-> 0]
  /\ rx = <<>> /\ tx = <<>> /\ cut = FALSE
  /\ spent = [clients |-> 0, board |-> 0]

Com ==
  \/ ComDoWrite \/ ComOnWrite \/ ComOnWriteError \/ ComOnReadError
  \/ \E k \in 0 .. Len(tx), more \in BOOLEAN : ComOnRead(k, more)

Session(s) ==
  OnAccept(s) \/ OnReadError(s) \/ DoWrite(s) \/ OnWrite(s) \/ OnWriteError(s)

Clients(s) ==
  \/ \E permissions \in PermissionsOf[s] : Upgrade(s, permissions)
  \/ \E msg \in ClientMessages : OnRead(s, msg)
  \/ ConfigLoaded(s)
  \/ Disconnect(s)

Server == Com \/ Update \/ \E s \in Sessions : Session(s) \/ Clients(s)

Board == BoardReads \/ \E msg \in ArduinoMessages : BoardWrites(msg)

Next == Server \/ Unplug \/ Board

Spec == Init /\ [][Next]_vars

\* Every pending handler runs: the pool takes them in turn, and a write or a
\* read whose peer is gone completes with an error (Beast's idle timeout).
Fairness ==
  /\ WF_vars(ComDoWrite) /\ WF_vars(ComOnWrite \/ ComOnWriteError)
  /\ WF_vars(\E k \in 1 .. Len(tx) : ComOnRead(k, FALSE)) /\ WF_vars(ComOnReadError)
  /\ WF_vars(Update)
  /\ \A s \in Sessions :
       /\ WF_vars(OnAccept(s)) /\ WF_vars(OnReadError(s))
       /\ WF_vars(DoWrite(s)) /\ WF_vars(OnWrite(s) \/ OnWriteError(s))

FairSpec == Spec /\ Fairness

-----------------------------------------------------------------------------
Entry(e) == e.n \in Nat \ {0} /\ e.type \in MessageType

TypeOK ==
  /\ com.reader \in {"reading", "ended"}
  /\ com.writer \in {"posted", "writing", "ended"}
  /\ com.plugged \in BOOLEAN
  /\ Len(com.buffer) = IF com.writer = "writing" THEN 1 ELSE 0
  /\ \A k \in DOMAIN imq : Entry(imq[k])
  /\ sessions \subseteq Sessions
  /\ \A s \in Sessions :
       /\ ws[s].permissions \in Permissions
       /\ ws[s].reader \in {"none", "accepting", "reading", "ended"}
       /\ ws[s].writer \in {"none", "posted", "writing", "ended"}
       /\ ws[s].failing \in BOOLEAN
       /\ Len(ws[s].buffer) = IF ws[s].writer = "writing" THEN 1 ELSE 0
       /\ \A k \in DOMAIN ws[s].queue : Entry(ws[s].queue[k])
       /\ page[s].up \in BOOLEAN /\ page[s].configured \in BOOLEAN
       /\ DOMAIN page[s].shown = GateIds
  /\ popped \in Nat /\ last \in [Sessions -> Nat]
  /\ cut \in BOOLEAN
  /\ cut => tx # <<>>

\* Reports handed to s and not known to have reached its page.
Pending(s) == ws[s].buffer \o ws[s].queue

\* No page misses a report, gets one twice or gets two out of order: what an
\* open session has received, then what is on its way to it, then what waits
\* in incoming_message_queue, are numbered without a gap from the session's
\* registration on, although update, do_write and on_write run independently.
GapFreeDelivery ==
  /\ \A s \in Sessions :
       Born(s) /\ page[s].up /\ ws[s].permissions # "Blocked" =>
         /\ \A k \in DOMAIN Pending(s) : Pending(s)[k].n = last[s] + k
         /\ last[s] + Len(Pending(s)) = popped
  /\ \A k \in DOMAIN imq : imq[k].n = popped + k

\* The registry knows every session some handler still serves: update never
\* forgets a session that could yet send or receive.
LiveSessionsRegistered ==
  \A s \in Sessions : Born(s) /\ ~Expired(s) => s \in sessions

\* As long as nobody has been granted Control, the board is only ever asked for
\* states, whatever viewers and rejected clients send.
NoControllerNoCommand ==
  (\A s \in Sessions : ws[s].permissions # "Control") =>
    \A queue \in {omq, com.buffer, rx} :
      \A k \in DOMAIN queue : queue[k] = QueryAllGates

\* Every request queued for the board is written, unless the port is lost.
RequestsWritten == omq # <<>> ~> (omq = <<>> \/ com.writer = "ended")

\* common_state.cpp:39 "update all sessions with new state": a page still open
\* gets every report that has entered incoming_message_queue.
ReportsReachPages ==
  \A s \in Sessions :
    Born(s) /\ page[s].up /\ ws[s].permissions # "Blocked"
            /\ last[s] < popped + Len(imq)
    ~> last[s] = popped + Len(imq) \/ ~page[s].up

\* A session whose write loop has failed is forgotten, with or without reports:
\* the read loop that is left over ends too, and update drops the session.
FailedSessionsForgotten ==
  \A s \in Sessions : ws[s].writer = "ended" ~> s \notin sessions

\* A session known to be closed is forgotten once there is a report for it.
ClosedSessionsForgottenByTraffic ==
  \A s \in Sessions :
    ws[s].reader = "ended" /\ ws[s].queue # <<>> ~> s \notin sessions
=============================================================================

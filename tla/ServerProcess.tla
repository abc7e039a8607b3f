---------------------------- MODULE ServerProcess ----------------------------
(***************************************************************************)
(* The server's process around the connections of HttpSession: what main   *)
(* does from its arguments to its return, the threads it has in ioc.run(), *)
(* the signal set, and http_listener, which accepts the connections.       *)
(*                                                                         *)
(* A thread leaves ioc.run() when the io_context has been stopped, or by   *)
(* an exception of the handler it runs; either way serving[t] is "dead".   *)
(* The sessions, the serial port and the listener keep the io_context in   *)
(* work, so it never runs out of it.                                       *)
(***************************************************************************)
EXTENDS HttpSession

CONSTANTS
  MaxSignals  \* bound: how often the user presses Ctrl + C

ASSUME ProcessAssumption ==
  MaxSignals \in Nat /\ "none" \notin Conns

VARIABLES
  stage,     \* of main: "starting", "running", "ended"
  acceptor,  \* "accepting" while an async_accept is pending; none is if "none",
             \* and none ever will be if "deaf": one has failed
  accepted,  \* connections that have an http_session
  asked,     \* SIGINTs and SIGTERMs so far
  stopped,   \* ioc.stop() has been called
  killedBy   \* history: the connection whose handler ended a thread, or "none"

processVars == <<stage, acceptor, accepted, asked, stopped, killedBy>>
serverVars == <<vars, processVars>>

Nobody == "none"

-----------------------------------------------------------------------------
\* main.

\* Too few arguments, a bad address or port, an auth-file or a config that
\* cannot be read, a serial port that cannot be opened: main returns 1.
FailToStart ==
  /\ stage = "starting"
  /\ stage' = "ended"
  /\ UNCHANGED <<vars, acceptor, accepted, asked, stopped, killedBy>>

\* The constructor of http_listener prints what it could not do and returns: the
\* accept then fails at once.
Listening == {"accepting", "deaf"}

\* main says "Server started" whether the listener listens or not.
StartServer ==
  /\ stage = "starting"
  /\ stage' = "running"
  /\ acceptor' \in Listening
  /\ UNCHANGED <<vars, accepted, asked, stopped, killedBy>>

\* Until there is a signal_set a signal kills the process.
Signal ==
  /\ stage # "ended"
  /\ asked < MaxSignals
  /\ asked' = asked + 1
  /\ stage' = IF stage = "starting" THEN "ended" ELSE stage
  /\ UNCHANGED <<vars, acceptor, accepted, stopped, killedBy>>

\* Threads that may take a handler.
InRun(t) == stage = "running" /\ ~stopped /\ serving[t] = "idle"

\* Mutant: the io_context is left running, for the open connections.
OnSignal_StopsAccepting(t) ==
  /\ InRun(t)
  /\ asked > 0
  /\ acceptor' = "deaf"
  /\ UNCHANGED <<vars, stage, accepted, asked, stopped, killedBy>>

\* The handler of signals.async_wait.  It is waited for once, and the signal_set
\* lives on: further signals change nothing.
OnSignal(t) ==
  /\ InRun(t)
  /\ asked > 0
  /\ stopped' = TRUE
  /\ UNCHANGED <<vars, stage, acceptor, accepted, asked, killedBy>>

\* ioc.run() returns on a thread that is between handlers.
LeaveRun(t) ==
  /\ stage = "running"
  /\ stopped
  /\ serving[t] = "idle"
  /\ serving' = [serving EXCEPT ![t] = "dead"]
  /\ UNCHANGED <<client, http, processVars>>

\* main has left ioc.run() itself and joined all the other threads.
Return ==
  /\ stage = "running"
  /\ \A t \in Threads : serving[t] = "dead"
  /\ stage' = "ended"
  /\ UNCHANGED <<vars, acceptor, accepted, asked, stopped, killedBy>>

-----------------------------------------------------------------------------
\* http_listener::on_accept.

\* Mutant: do_accept is forgotten.
OnAccept_Once(t, c) ==
  /\ InRun(t)
  /\ acceptor = "accepting"
  /\ c \notin accepted
  /\ accepted' = accepted \cup {c}
  /\ acceptor' = "none"
  /\ UNCHANGED <<vars, stage, asked, stopped, killedBy>>

OnAccept(t, c) ==
  /\ InRun(t)
  /\ acceptor = "accepting"
  /\ c \notin accepted
  /\ accepted' = accepted \cup {c}
  /\ UNCHANGED <<vars, stage, acceptor, asked, stopped, killedBy>>

\* remote_endpoint() throws for a client that has reset its connection.
OnAcceptThrows(t, c) ==
  /\ InRun(t)
  /\ acceptor = "accepting"
  /\ c \notin accepted
  /\ ~client[c].open
  /\ acceptor' = "deaf"
  /\ serving' = [serving EXCEPT ![t] = "dead"]
  /\ killedBy' = [killedBy EXCEPT ![t] = c]
  /\ UNCHANGED <<client, http, stage, accepted, asked, stopped>>

\* on_accept with an error (no more file descriptors, an aborted connection)
\* returns without another do_accept.
OnAcceptError(t) ==
  /\ InRun(t)
  /\ acceptor = "accepting"
  /\ acceptor' = "deaf"
  /\ UNCHANGED <<vars, stage, accepted, asked, stopped, killedBy>>

-----------------------------------------------------------------------------
\* The connections, as HttpSession has them, in this process.

\* A client that waits to be accepted may go; what it sends meanwhile is read
\* no earlier than what it sends afterwards.  What clients do once the server has
\* stopped to read is left out.
ClientStep(c) ==
  /\ stage = "running" /\ ~stopped
  /\ CloseClient(c) \/ (c \in accepted /\ Client(c))
  /\ UNCHANGED processVars

\* Operations complete on the threads in ioc.run(), except that the last byte may
\* reach the client as soon as the write is begun.
IoDone(c) ==
  /\ stage = "running" /\ ~stopped
  /\ c \in accepted
  /\ \/ Deliver(c)
     \/ /\ \E t \in Threads : InRun(t)
        /\ ReadDone(c) \/ WriteDone(c) \/ WriteFails(c)
  /\ UNCHANGED processVars

ReadAborts(c) ==
  /\ c \in accepted
  /\ \E t \in Threads : InRun(t)
  /\ ReadEnds(c)
  /\ UNCHANGED processVars

\* The try around ioc.run() catches what a handler throws, and the thread ends.
StartHandler(t, c) ==
  /\ InRun(t)
  /\ Start(t, c)
  /\ killedBy' = [killedBy EXCEPT ![t] = IF serving'[t] = "dead" THEN c ELSE @]
  /\ UNCHANGED <<stage, acceptor, accepted, asked, stopped>>

FinishHandler(t, c) ==
  /\ stage = "running"
  /\ Acquire(t, c)
  /\ UNCHANGED processVars

-----------------------------------------------------------------------------
ProcessInit ==
  /\ Init
  /\ stage = "starting" /\ acceptor = "none" /\ accepted = {}
  /\ asked = 0 /\ stopped = FALSE
  /\ killedBy = [t \in Threads |-> Nobody]

Thread(t) ==
  \/ OnSignal(t) \/ LeaveRun(t) \/ OnAcceptError(t)
  \/ \E c \in Conns : \/ OnAccept(t, c) \/ OnAcceptThrows(t, c)
                      \/ StartHandler(t, c) \/ FinishHandler(t, c)

ProcessNext ==
  \/ FailToStart \/ StartServer \/ Signal \/ Return
  \/ \E c \in Conns : ClientStep(c) \/ IoDone(c) \/ ReadAborts(c)
  \/ \E t \in Threads : Thread(t)

ProcessSpec == ProcessInit /\ [][ProcessNext]_serverVars

\* What the process does of itself: no signal, no request, no error.
Progress ==
  \/ Return
  \/ \E c \in Conns : IoDone(c)
  \/ \E t \in Threads :
       \/ OnSignal(t) \/ LeaveRun(t)
       \/ \E c \in Conns : OnAccept(t, c) \/ StartHandler(t, c) \/ FinishHandler(t, c)

\* The threads of the pool do not idle while there is something to do.  Signals
\* and requests are bounded, so that nothing can put off a step for ever.
ProcessFairness == WF_serverVars(Progress)

ProcessFairSpec == ProcessSpec /\ ProcessFairness

-----------------------------------------------------------------------------
ProcessTypeOK ==
  /\ TypeOK
  /\ stage \in {"starting", "running", "ended"}
  /\ acceptor \in {"none"} \cup Listening
  /\ accepted \subseteq Conns
  /\ asked \in Nat
  /\ stopped \in BOOLEAN
  /\ killedBy \in [Threads -> Conns \cup {Nobody}]

NoThreadsLeft == \A t \in Threads : serving[t] = "dead"

\* A connection costs the pool one thread at most: the read loop of a session
\* whose handler threw is never taken up again, neither by the completion of an
\* earlier write nor by the listener.  So there is somebody to serve the others
\* until as many connections have thrown as there are threads.
OneThreadPerConnection ==
  /\ \A t \in Threads : serving[t] = "dead" => stopped \/ killedBy[t] # Nobody
  /\ \A t, u \in Threads : killedBy[t] = killedBy[u] /\ killedBy[t] # Nobody => t = u

\* http_session.cpp:105 "send the response back", as far as clients wait for
\* their responses: a request that has arrived is answered, whatever the other
\* connections do to the pool, until the server is asked to stop or has lost all
\* its threads.
AnsweredWhileRunning ==
  \A c \in Conns :
    /\ c \in accepted /\ http[c].reading /\ http[c].input # <<>>
    /\ Head(http[c].input).kind # "throws"
    ~> \/ Len(client[c].got) = client[c].sent
       \/ ~client[c].open \/ http[c].shut \/ http[c].released
       \/ asked > 0 \/ NoThreadsLeft

\* main.cpp:133 "graceful shutdown": the process ends once it is asked to,
\* whatever requests and responses are under way and however many threads have
\* been lost before.
ShutdownCompletes == asked > 0 ~> stage = "ended"

\* While the listener accepts, whoever connects gets a session, unless an accept
\* fails, after which nobody ever does.
EveryoneLetIn ==
  \A c \in Conns :
    acceptor = "accepting"
    ~> c \in accepted \/ acceptor = "deaf" \/ asked > 0 \/ NoThreadsLeft

\* A thread that waits in write_semaphore keeps main in join: however often the
\* user asks, the process does not end.
WedgeHoldsProcess ==
  [][(\E c \in Conns : Wedged(c)) /\ stage = "running" => stage' = "running"]_serverVars
=============================================================================

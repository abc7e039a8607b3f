------------------------ MODULE ServerProcessProofs -------------------------
(***************************************************************************)
(* Proofs about ServerProcess, for any numbers of connections, threads and *)
(* signals.                                                                *)
(*                                                                         *)
(* A step of the process is a step of HttpSession, or leaves the           *)
(* connections alone, or takes a free thread out of ioc.run().  The last   *)
(* keeps the inductive invariant of HttpSession, which therefore holds of  *)
(* the whole process.                                                      *)
(***************************************************************************)
EXTENDS ServerProcess, HttpSessionProofs

\* A thread between handlers is lost to the pool.
Dies(t) ==
  /\ serving[t] = "idle"
  /\ serving' = [serving EXCEPT ![t] = "dead"]
  /\ UNCHANGED <<client, http>>

-----------------------------------------------------------------------------
\* Every step of the process is a step of the connections, or loses a thread.
LEMMA ProcessStep ==
  ASSUME [ProcessNext]_serverVars
  PROVE  [Next]_vars \/ \E t \in Threads : Dies(t)
<1>1. CASE UNCHANGED serverVars
  BY <1>1 DEF serverVars
<1>2. CASE FailToStart \/ StartServer \/ Signal \/ Return
  BY <1>2 DEF FailToStart, StartServer, Signal, Return
<1>3. ASSUME NEW c \in Conns, ClientStep(c) \/ IoDone(c) \/ ReadAborts(c)
      PROVE  Next
  <2>1. Client(c) \/ Io(c)
    BY <1>3 DEF ClientStep, IoDone, ReadAborts, Client, Io
  <2> QED
    BY <2>1 DEF Next
<1>4. ASSUME NEW t \in Threads, Thread(t)
      PROVE  [Next]_vars \/ Dies(t)
  <2>1. CASE OnSignal(t) \/ OnAcceptError(t)
    BY <2>1 DEF OnSignal, OnAcceptError
  <2>2. CASE LeaveRun(t)
    BY <2>2 DEF LeaveRun, Dies
  <2>3. ASSUME NEW c \in Conns,
               \/ OnAccept(t, c) \/ OnAcceptThrows(t, c)
               \/ StartHandler(t, c) \/ FinishHandler(t, c)
        PROVE  [Next]_vars \/ Dies(t)
    <3>1. CASE OnAccept(t, c)
      BY <3>1 DEF OnAccept
    <3>2. CASE OnAcceptThrows(t, c)
      BY <3>2 DEF OnAcceptThrows, InRun, Dies
    <3>3. CASE StartHandler(t, c) \/ FinishHandler(t, c)
      BY <3>3 DEF StartHandler, FinishHandler, Next, Pool
    <3> QED
      BY <2>3, <3>1, <3>2, <3>3
  <2> QED
    BY <1>4, <2>1, <2>2, <2>3 DEF Thread
<1> QED
  BY <1>1, <1>2, <1>3, <1>4 DEF ProcessNext

\* A thread that leaves is in no strand.
LEMMA DiesIInv ==
  ASSUME IInv, NEW t \in Threads, Dies(t)
  PROVE  IInv' /\ \A c \in Conns : Busy(c)' <=> Busy(c)
<1> USE HttpAssumption
<1>1. /\ serving' \in [Threads -> Conns \cup {"idle", "dead"}]
      /\ \A u \in Threads : \A c \in Conns : serving'[u] = c <=> serving[u] = c
  BY DEF Dies, IInv, TypeOK
<1>2. \A c \in Conns : Busy(c)' <=> Busy(c)
  BY <1>1 DEF Busy
<1>3. TypeOK' /\ PermitAccounting' /\ QueueNeverFills'
  BY <1>1 DEF Dies, IInv, TypeOK, PermitAccounting, QueueNeverFills
<1>4. OneHandler'
  BY <1>1, <1>2 DEF Dies, IInv, OneHandler
<1> QED
  BY <1>2, <1>3, <1>4 DEF IInv

\* The invariant of HttpSession is one of the process.
LEMMA ProcessKeepsIInv == IInv /\ [ProcessNext]_serverVars => IInv'
  BY ProcessStep, DiesIInv, NextIInv

LEMMA ProcessIInv == ProcessSpec => []IInv
<1>1. ProcessInit => IInv
  BY InitIInv DEF ProcessInit
<1> QED
  BY <1>1, ProcessKeepsIInv, PTL DEF ProcessSpec

\* So is what it knows of the requests and responses under way.
LEMMA ProcessKeepsFlows == IInv /\ Flows /\ [ProcessNext]_serverVars => Flows'
<1> SUFFICES ASSUME IInv, Flows, [ProcessNext]_serverVars PROVE Flows'
  OBVIOUS
<1>1. CASE [Next]_vars
  BY <1>1, NextFlows
<1>2. ASSUME NEW t \in Threads, Dies(t) PROVE Flows'
  BY <1>2 DEF Dies, Flows
<1> QED
  BY <1>1, <1>2, ProcessStep

LEMMA ProcessFlows == ProcessSpec => [](IInv /\ Flows)
<1>1. ProcessInit => IInv /\ Flows
  BY InitIInv, InitFlows DEF ProcessInit
<1> QED
  BY <1>1, ProcessKeepsIInv, ProcessKeepsFlows, PTL DEF ProcessSpec

-----------------------------------------------------------------------------
\* Whatever becomes of the pool, of the listener and of main, no permit of a
\* write_semaphore is lost or doubled.
THEOREM PermitsInProcess == ProcessSpec => []PermitAccounting
<1>1. IInv => PermitAccounting
  BY DEF IInv
<1> QED
  BY <1>1, ProcessIInv, PTL

\* The threads that handlers kill, and the clients that come and go, change
\* nothing of the order in which a client gets its responses.
THEOREM InOrderInProcess == ProcessSpec => []ResponsesInOrder
<1>1. Flows => ResponsesInOrder
  BY DEF Flows, Flow, InLine, ResponsesInOrder
<1> QED
  BY <1>1, ProcessFlows, PTL

\* No thread of the pool ever hangs in write_semaphore, and so none holds up the
\* join in main, as long as clients wait for their responses, or pipeline nothing
\* that has a response.
THEOREM PatientProcess ==
  ASSUME Harmless PROVE ProcessSpec => []NeverWedged
<1>1. IInv /\ Flows => NeverWedged
  BY HarmlessNeverWedge
<1> QED
  BY <1>1, ProcessFlows, PTL

\* While a thread waits behind a write in flight, so does main's join.
LEMMA WedgeStep ==
  IInv /\ [ProcessNext]_serverVars =>
    [(\E c \in Conns : Wedged(c)) /\ stage = "running" => stage' = "running"]_serverVars
<1> USE HttpAssumption
<1> SUFFICES ASSUME IInv, ProcessNext, NEW c \in Conns, Wedged(c), stage = "running"
             PROVE  stage' = "running"
  OBVIOUS
<1>1. ~Return
  BY DEF Return, Wedged, Busy
<1>2. CASE FailToStart \/ StartServer \/ Signal
  BY <1>2 DEF FailToStart, StartServer, Signal
<1>3. CASE \E d \in Conns : ClientStep(d) \/ IoDone(d) \/ ReadAborts(d)
  BY <1>3 DEF ClientStep, IoDone, ReadAborts, processVars
<1>4. CASE \E t \in Threads : Thread(t)
  BY <1>4 DEF Thread, OnSignal, LeaveRun, OnAcceptError, OnAccept, OnAcceptThrows,
              StartHandler, FinishHandler, processVars
<1> QED
  BY <1>1, <1>2, <1>3, <1>4 DEF ProcessNext

\* A connection that is wedged stays so in the whole process: not even a thread
\* that dies gives its permit back.
LEMMA WedgedInProcess ==
  IInv /\ [ProcessNext]_serverVars => [\A c \in Conns : Wedged(c) => Wedged(c)']_vars
<1> SUFFICES ASSUME IInv, [ProcessNext]_serverVars
             PROVE  [\A c \in Conns : Wedged(c) => Wedged(c)']_vars
  OBVIOUS
<1>1. CASE [Next]_vars
  BY <1>1, WedgedStep
<1>2. ASSUME NEW t \in Threads, Dies(t)
      PROVE  \A c \in Conns : Wedged(c) => Wedged(c)'
  BY <1>2, DiesIInv DEF Dies, Wedged
<1> QED
  BY <1>1, <1>2, ProcessStep

\* Two pipelined requests on a connection are enough to keep the process from
\* ever ending: the wedge stays, and the join in main waits for it.
THEOREM WedgeHolds == ProcessSpec => WedgedForEver /\ WedgeHoldsProcess
  BY WedgeStep, WedgedInProcess, ProcessIInv, PTL
     DEF ProcessSpec, WedgedForEver, WedgeHoldsProcess

-----------------------------------------------------------------------------
\* The read loop of a session is in one place at a time: an async_read, its
\* completion on the strand, or a do_write that will read again.

Resumes(session) == session.held # <<>> /\ session.resume

NoLoop(session) ==
  ReadsOf(session.ready) = {} /\ ~session.reading /\ ~Resumes(session)

OneLoop(session) ==
  \/ ReadsOf(session.ready) = {} /\ ~(session.reading /\ Resumes(session))
  \/ /\ \E k \in DOMAIN session.ready : ReadsOf(session.ready) = {k}
     /\ ~session.reading /\ ~Resumes(session)

\* A step begins no second loop, and none where there is none.
Keeps(old, new) ==
  (OneLoop(old) => OneLoop(new)) /\ (NoLoop(old) => NoLoop(new))

\* The operations of a connection that are not handlers move its read loop at
\* most from the pending read to the strand.
LEMMA IoKeepsLoops ==
  ASSUME IInv, NEW c \in Conns, Client(c) \/ Io(c)
  PROVE  \A d \in Conns : Keeps(http[d], http'[d])
<1> DEFINE session == http[c]
<1>1. /\ http \in [Conns -> HttpObject] /\ session \in HttpObject
      /\ session.ready \in Seq(Handlers)
  BY DEF IInv, TypeOK, HttpObject
<1>2. ASSUME NEW new, http' = [http EXCEPT ![c] = new], Keeps(session, new)
      PROVE  \A d \in Conns : Keeps(http[d], http'[d])
  BY <1>1, <1>2 DEF Keeps
<1>3. ASSUME NEW new, new.ready = session.ready, new.held = session.held,
             new.resume = session.resume, new.reading = session.reading
      PROVE  Keeps(session, new)
  BY <1>3 DEF Keeps, OneLoop, NoLoop, Resumes
<1>4. ASSUME NEW op \in {"end_of_stream", "read_error", "write_error", "on_write"},
             NEW data, Handler(op, data) \in Handlers, NEW new,
             new.ready = Append(session.ready, Handler(op, data)),
             new.held = session.held, new.resume = session.resume,
             new.reading => session.reading
      PROVE  Keeps(session, new)
  <2>1. Handler(op, data).op # "on_read"
    BY DEF Handler
  <2>2. /\ ReadsOf(new.ready) = ReadsOf(session.ready)
        /\ \A k \in DOMAIN session.ready : k \in DOMAIN new.ready
    BY <1>1, <1>4, <2>1, ReadsOfAppend
  <2> QED
    BY <1>4, <2>2 DEF Keeps, OneLoop, NoLoop, Resumes
<1>5. CASE Client(c)
  <2>1. CASE \E kind \in KindsOf[c], keep \in BOOLEAN : Send(c, kind, keep)
    <3>1. PICK input : http' = [http EXCEPT ![c].input = input]
      BY <1>1, <2>1 DEF Send
    <3>2. http' = [http EXCEPT ![c] = [session EXCEPT !.input = input]]
      BY <1>1, <3>1
    <3>3. Keeps(session, [session EXCEPT !.input = input])
      <4> DEFINE new == [session EXCEPT !.input = input]
      <4>1. /\ new.ready = session.ready /\ new.held = session.held
            /\ new.resume = session.resume /\ new.reading = session.reading
        BY <1>1 DEF HttpObject
      <4> HIDE DEF new
      <4>2. Keeps(session, new)
        BY <1>3, <4>1
      <4> QED
        BY <4>2 DEF new
    <3> QED
      BY <1>2, <3>2, <3>3
  <2>2. CASE CloseClient(c)
    <3>1. \A d \in Conns : http'[d] = http[d]
      BY <2>2 DEF CloseClient
    <3> QED
      BY <3>1 DEF Keeps
  <2> QED
    BY <1>5, <2>1, <2>2 DEF Client
<1>6. CASE ReadDone(c)
  <2> DEFINE handler == Handler("on_read", Head(session.input))
             new == [Complete(session, handler)
                       EXCEPT !.reading = FALSE, !.input = Tail(session.input)]
  <2>1. /\ http' = [http EXCEPT ![c] = new] /\ session.reading
        /\ handler \in Handlers /\ handler.op = "on_read"
    BY <1>1, <1>6 DEF ReadDone, Handler, Handlers, HttpObject
  <2>2. /\ new.ready = Append(session.ready, handler) /\ ~new.reading
        /\ new.held = session.held /\ new.resume = session.resume
    BY <1>1 DEF Complete, HttpObject
  <2> HIDE DEF new, handler
  <2>3. /\ ReadsOf(new.ready) = ReadsOf(session.ready) \cup {Len(session.ready) + 1}
        /\ Len(session.ready) + 1 \in DOMAIN new.ready
    BY <1>1, <2>1, <2>2, ReadsOfAppend
  <2>4. OneLoop(session) => OneLoop(new)
    BY <2>1, <2>2, <2>3 DEF OneLoop, Resumes
  <2>5. ~NoLoop(session)
    BY <2>1 DEF NoLoop
  <2> QED
    BY <1>2, <2>1, <2>4, <2>5 DEF Keeps
<1>7. CASE ReadEnds(c)
  <2>1. PICK op \in {"end_of_stream", "read_error"} :
          http' = [http EXCEPT ![c] =
            [Complete(session, Handler(op, <<>>)) EXCEPT !.reading = FALSE]]
    BY <1>7 DEF ReadEnds
  <2> DEFINE new == [Complete(session, Handler(op, <<>>)) EXCEPT !.reading = FALSE]
  <2>2. /\ new.ready = Append(session.ready, Handler(op, <<>>)) /\ ~new.reading
        /\ new.held = session.held /\ new.resume = session.resume
    BY <1>1 DEF Complete, HttpObject
  <2>3. Handler(op, <<>>) \in Handlers
    BY DEF Handler, Handlers
  <2> HIDE DEF new
  <2>4. Keeps(session, new)
    BY <1>4, <2>2, <2>3
  <2> QED
    BY <1>2, <2>1, <2>4 DEF new
<1>8. CASE Deliver(c) \/ WriteDone(c) \/ WriteFails(c)
  <2>1. ASSUME NEW op \in {"on_write", "write_error"}, NEW data,
               Handler(op, data) \in Handlers
        PROVE  /\ Keeps(session, [Complete(session, Handler(op, data))
                                    EXCEPT !.writing = <<>>])
               /\ Keeps(session, [Complete(session, Handler(op, data))
                                    EXCEPT !.writing = <<>>, !.delivered = FALSE])
    <3> DEFINE one == [Complete(session, Handler(op, data)) EXCEPT !.writing = <<>>]
               two == [Complete(session, Handler(op, data))
                         EXCEPT !.writing = <<>>, !.delivered = FALSE]
    <3>1. /\ one.ready = Append(session.ready, Handler(op, data))
          /\ one.held = session.held /\ one.resume = session.resume
          /\ one.reading = session.reading
          /\ two.ready = Append(session.ready, Handler(op, data))
          /\ two.held = session.held /\ two.resume = session.resume
          /\ two.reading = session.reading
      BY <1>1 DEF Complete, HttpObject
    <3> HIDE DEF one, two
    <3>2. Keeps(session, one) /\ Keeps(session, two)
      BY <1>4, <2>1, <3>1
    <3> QED
      BY <3>2 DEF one, two
  <2>2. ASSUME session.writing # <<>>
        PROVE  Handler("on_write", Head(session.writing)) \in Handlers
    <3>1. Head(session.writing) \in Responses
      BY <1>1, <2>2 DEF HttpObject
    <3> QED
      BY <3>1 DEF Handler, Handlers
  <2>3. Handler("write_error", <<>>) \in Handlers
    BY DEF Handler, Handlers
  <2>4. CASE Deliver(c)
    <3>1. Keeps(session, [session EXCEPT !.delivered = TRUE])
      <4> DEFINE new == [session EXCEPT !.delivered = TRUE]
      <4>1. /\ new.ready = session.ready /\ new.held = session.held
            /\ new.resume = session.resume /\ new.reading = session.reading
        BY <1>1 DEF HttpObject
      <4> HIDE DEF new
      <4>2. Keeps(session, new)
        BY <1>3, <4>1
      <4> QED
        BY <4>2 DEF new
    <3> QED
      BY <1>2, <2>1, <2>2, <2>4, <3>1 DEF Deliver
  <2>5. CASE WriteDone(c)
    <3>1. Len(session.writing) = 1
      BY <2>5 DEF WriteDone, IInv, OneHandler
    <3>2. session.writing # <<>>
      <4>1. Len(<<>>) = 0
        OBVIOUS
      <4>2. session.writing = <<>> => Len(session.writing) = Len(<<>>)
        BY Zenon
      <4> QED
        BY <3>1, <4>1, <4>2
    <3> QED
      BY <1>2, <2>1, <2>2, <2>5, <3>2 DEF WriteDone
  <2>6. CASE WriteFails(c)
    BY <1>2, <2>1, <2>3, <2>6 DEF WriteFails
  <2> QED
    BY <1>8, <2>4, <2>5, <2>6
<1> QED
  BY <1>5, <1>6, <1>7, <1>8 DEF Io

\* A handler takes the loop off the strand and gives it to do_write, or, when it
\* throws, to nobody.
LEMMA StartKeepsLoops ==
  ASSUME IInv, NEW t \in Threads, NEW c \in Conns, Start(t, c)
  PROVE  /\ \A d \in Conns : Keeps(http[d], http'[d])
         /\ serving'[t] = "dead" /\ OneLoop(http[c]) =>
              ~NoLoop(http[c]) /\ NoLoop(http'[c])
         /\ http[c].ready # <<>>
         /\ \A d \in Conns : d # c => http'[d] = http[d]
         /\ \A u \in Threads : u # t => serving'[u] = serving[u]
         /\ serving'[t] = "dead" \/ serving'[t] = "idle" \/ serving'[t] = c
<1> USE HttpAssumption
<1> DEFINE session == http[c]
           handler == Head(session.ready)
           popped == [session EXCEPT !.ready = Tail(@)]
           after == Run(popped, handler)
           next == IF Throws(handler) THEN "dead"
                   ELSE IF after.held # <<>> THEN c ELSE "idle"
<1>1. /\ http \in [Conns -> HttpObject] /\ session \in HttpObject
      /\ session.ready \in Seq(Handlers)
      /\ serving \in [Threads -> Conns \cup {"idle", "dead"}]
  BY DEF IInv, TypeOK, HttpObject
<1>2. /\ session.ready # <<>> /\ session.held = <<>> /\ Good(session)
      /\ http' = [http EXCEPT ![c] = after]
      /\ serving' = [serving EXCEPT ![t] = next]
  BY GoodSessions DEF Start, IInv, OneHandler
<1>3. /\ after.ready = Tail(session.ready)
      /\ after.reading = session.reading
      /\ handler.op # "on_read" \/ Throws(handler) => after.held = <<>>
  <2> HIDE DEF handler, popped
  <2>1. handler = Head(session.ready) /\ popped = [session EXCEPT !.ready = Tail(@)]
    BY DEF handler, popped
  <2>2. Good(session) /\ session.ready # <<>> /\ session.held = <<>>
    BY <1>2
  <2>3. after = Run(popped, handler)
    OBVIOUS
  <2> HIDE DEF after, session
  <2>4. /\ after.ready = Tail(session.ready)
        /\ Untaken(session, after)
        /\ handler.op # "on_read" \/ Throws(handler) => after.held = <<>>
    BY <2>1, <2>2, <2>3, RunShape
  <2> QED
    BY <2>4, Zenon DEF Untaken
<1>4. http'[c] = after /\ serving'[t] = next
  BY <1>1, <1>2
<1>5. next = "dead" <=> Throws(handler)
  BY <1>1
<1>6. Throws(handler) => handler.op = "on_read"
  BY DEF Throws
<1>7. /\ \A d \in Conns : d # c => http'[d] = http[d]
      /\ \A u \in Threads : u # t => serving'[u] = serving[u]
      /\ next = "dead" \/ next = "idle" \/ next = c
  BY <1>1, <1>2
<1> HIDE DEF after, next
<1>8. ASSUME Keeps(session, after),
             OneLoop(session) /\ Throws(handler) => ~NoLoop(session) /\ NoLoop(after)
      PROVE  /\ \A d \in Conns : Keeps(http[d], http'[d])
             /\ serving'[t] = "dead" /\ OneLoop(http[c]) =>
                  ~NoLoop(http[c]) /\ NoLoop(http'[c])
  <2>1. \A d \in Conns : Keeps(http[d], http'[d])
    BY <1>4, <1>7, <1>8 DEF Keeps
  <2> QED
    BY <1>4, <1>5, <1>8, <2>1
<1>9. CASE handler.op = "on_read"
  <2>1. ReadsOf(session.ready) # {}
    BY <1>1, <1>2, <1>9, ReadsOfTail
  <2>2. OneLoop(session) => ReadsOf(Tail(session.ready)) = {} /\ ~session.reading
    BY <1>1, <1>2, <1>9, <2>1, ReadsOfTail DEF OneLoop
  <2>3. OneLoop(session) => OneLoop(after)
    BY <1>3, <2>2 DEF OneLoop
  <2>4. ~NoLoop(session)
    BY <2>1 DEF NoLoop
  <2>5. OneLoop(session) /\ Throws(handler) => NoLoop(after)
    BY <1>3, <2>2 DEF NoLoop, Resumes
  <2>6. Keeps(session, after)
    BY <2>3, <2>4 DEF Keeps
  <2> QED
    BY <1>2, <1>4, <1>7, <1>8, <2>4, <2>5, <2>6
<1>10. CASE handler.op # "on_read"
  <2>1. after.held = <<>> /\ ~Throws(handler)
    BY <1>3, <1>6, <1>10
  <2>2. /\ ReadsOf(session.ready) = {} => ReadsOf(after.ready) = {}
        /\ \A k \in DOMAIN session.ready : ReadsOf(session.ready) = {k} =>
             \E l \in DOMAIN after.ready : ReadsOf(after.ready) = {l}
    BY <1>1, <1>2, <1>3, <1>10, ReadsOfTail
  <2>3. Keeps(session, after)
    BY <1>3, <2>1, <2>2 DEF Keeps, OneLoop, NoLoop, Resumes
  <2> QED
    BY <1>2, <1>4, <1>7, <1>8, <2>1, <2>3
<1> QED
  BY <1>9, <1>10

\* The second half of a handler reads again only if it has the loop.
LEMMA AcquireKeepsLoops ==
  ASSUME IInv, NEW t \in Threads, NEW c \in Conns, Acquire(t, c)
  PROVE  \A d \in Conns : Keeps(http[d], http'[d])
<1> DEFINE session == http[c]
           after == [session EXCEPT !.permits = session.permits - 1,
                                    !.writing = session.held,
                                    !.held = <<>>,
                                    !.reading = \/ session.reading
                                                \/ /\ session.resume
                                                   /\ Len(session.queue) < QueueLimit]
<1>1. http \in [Conns -> HttpObject] /\ session \in HttpObject
  BY DEF IInv, TypeOK
<1>2. Len(session.held) = 1
  BY DEF Acquire, IInv, OneHandler, Busy
<1>3. session.held # <<>>
  <2>1. Len(<<>>) = 0
    OBVIOUS
  <2>2. session.held = <<>> => Len(session.held) = Len(<<>>)
    BY Zenon
  <2> QED
    BY <1>2, <2>1, <2>2
<1>4. http' = [http EXCEPT ![c] = after]
  BY DEF Acquire
<1>5. /\ after.ready = session.ready /\ after.held = <<>>
      /\ after.reading => session.reading \/ session.resume
  BY <1>1 DEF HttpObject
<1> HIDE DEF after
<1>6. Keeps(session, after)
  BY <1>3, <1>5 DEF Keeps, OneLoop, NoLoop, Resumes
<1> QED
  BY <1>1, <1>4, <1>6 DEF Keeps

-----------------------------------------------------------------------------
\* A connection that has cost a thread has no read loop any more, or was never
\* accepted and never will be.
Spent ==
  \A t \in Threads, c \in Conns :
    killedBy[t] = c => IF c \in accepted THEN NoLoop(http[c]) ELSE acceptor = "deaf"

\* Nothing happens on a connection before it is accepted.
Untouched == \A c \in Conns \ accepted : http[c].ready = <<>> /\ http[c].held = <<>>

PInv ==
  /\ IInv
  /\ \A c \in Conns : OneLoop(http[c])
  /\ Untouched
  /\ killedBy \in [Threads -> Conns \cup {Nobody}]
  /\ stage = "starting" => \A t \in Threads : killedBy[t] = Nobody
  /\ Spent
  /\ OneThreadPerConnection

\* A step on which nobody is killed.
LEMMA HarmlessStep ==
  ASSUME PInv, IInv', \A c \in Conns : Keeps(http[c], http'[c]),
         UNCHANGED killedBy,
         accepted \subseteq accepted', accepted' # accepted => acceptor = "accepting",
         acceptor = "deaf" => acceptor' = "deaf",
         \A c \in Conns \ accepted' :
           http'[c].ready = http[c].ready /\ http'[c].held = http[c].held,
         stage' = "starting" => stage = "starting",
         \A t \in Threads : serving'[t] = "dead" => serving[t] = "dead" \/ stopped',
         stopped => stopped'
  PROVE  PInv'
<1>1. (\A c \in Conns : OneLoop(http[c]))' /\ Untouched'
  BY DEF PInv, Keeps, Untouched
<1>2. Spent'
  <2> SUFFICES ASSUME NEW t \in Threads, NEW c \in Conns, killedBy[t] = c
               PROVE  IF c \in accepted' THEN NoLoop(http'[c]) ELSE acceptor' = "deaf"
    BY DEF Spent
  <2>1. IF c \in accepted THEN NoLoop(http[c]) ELSE acceptor = "deaf"
    BY DEF PInv, Spent
  <2> QED
    BY <2>1 DEF Keeps
<1>3. OneThreadPerConnection'
  BY DEF PInv, OneThreadPerConnection
<1> QED
  BY <1>1, <1>2, <1>3 DEF PInv

\* A step on which thread t is lost to connection c.
LEMMA KillingStep ==
  ASSUME PInv, IInv', NEW t \in Threads, NEW c \in Conns,
         \A d \in Conns : Keeps(http[d], http'[d]),
         killedBy' = [killedBy EXCEPT ![t] = c],
         \A u \in Threads : killedBy[u] # c,
         \A u \in Threads : u # t => serving'[u] = serving[u],
         IF c \in accepted THEN NoLoop(http'[c]) ELSE acceptor' = "deaf",
         UNCHANGED <<accepted, stage, stopped>>, stage = "running",
         acceptor = "deaf" => acceptor' = "deaf",
         \A d \in Conns \ accepted :
           http'[d].ready = http[d].ready /\ http'[d].held = http[d].held
  PROVE  PInv'
<1> USE ProcessAssumption DEF Nobody
<1>1. (\A d \in Conns : OneLoop(http[d]))' /\ Untouched'
  BY DEF PInv, Keeps, Untouched
<1>2. killedBy \in [Threads -> Conns \cup {Nobody}]
  BY DEF PInv
<1>3. /\ killedBy' \in [Threads -> Conns \cup {Nobody}]
      /\ killedBy'[t] = c
      /\ \A u \in Threads : u # t => killedBy'[u] = killedBy[u]
  BY <1>2
<1>4. Spent'
  <2> SUFFICES ASSUME NEW u \in Threads, NEW d \in Conns, killedBy'[u] = d
               PROVE  IF d \in accepted THEN NoLoop(http'[d]) ELSE acceptor' = "deaf"
    BY DEF Spent
  <2>1. CASE u = t
    BY <2>1, <1>3
  <2>2. CASE u # t
    <3>1. killedBy[u] = d
      BY <2>2, <1>3
    <3>2. IF d \in accepted THEN NoLoop(http[d]) ELSE acceptor = "deaf"
      BY <3>1 DEF PInv, Spent
    <3> QED
      BY <3>2 DEF Keeps
  <2> QED
    BY <2>1, <2>2
<1>5. OneThreadPerConnection'
  <2>1. \A u \in Threads : serving'[u] = "dead" => stopped' \/ killedBy'[u] # Nobody
    BY <1>3 DEF PInv, OneThreadPerConnection
  <2>2. \A u, v \in Threads :
          killedBy'[u] = killedBy'[v] /\ killedBy'[u] # Nobody => u = v
    BY <1>3 DEF PInv, OneThreadPerConnection
  <2> QED
    BY <2>1, <2>2 DEF OneThreadPerConnection
<1> QED
  BY <1>1, <1>3, <1>4, <1>5 DEF PInv

LEMMA InitPInv == ProcessInit => PInv
<1> USE ProcessAssumption, HttpAssumption DEF Nobody
<1> SUFFICES ASSUME ProcessInit PROVE PInv
  OBVIOUS
<1>1. IInv
  BY InitIInv DEF ProcessInit
<1>2. \A c \in Conns : http[c].ready = <<>> /\ http[c].held = <<>>
  BY DEF ProcessInit, Init
<1>3. \A c \in Conns : OneLoop(http[c])
  <2>1. ReadsOf(<<>>) = {}
    BY DEF ReadsOf
  <2>2. \A c \in Conns : ReadsOf(http[c].ready) = ReadsOf(<<>>)
    BY <1>2, Zenon
  <2> QED
    BY <1>2, <2>1, <2>2 DEF OneLoop, Resumes
<1>4. /\ \A t \in Threads : killedBy[t] = Nobody /\ serving[t] = "idle"
      /\ killedBy \in [Threads -> Conns \cup {Nobody}]
  BY DEF ProcessInit, Init
<1> QED
  BY <1>1, <1>2, <1>3, <1>4 DEF PInv, Untouched, Spent, OneThreadPerConnection

LEMMA NextPInv == PInv /\ [ProcessNext]_serverVars => PInv'
<1> USE HttpAssumption, ProcessAssumption DEF Nobody
<1> SUFFICES ASSUME PInv, [ProcessNext]_serverVars PROVE PInv'
  OBVIOUS
<1>1. IInv /\ IInv'
  BY ProcessKeepsIInv DEF PInv
<1>2. \A c \in Conns : Keeps(http[c], http[c])
  BY DEF Keeps
<1>3. CASE UNCHANGED serverVars
  BY <1>1, <1>2, <1>3, HarmlessStep DEF serverVars, vars, processVars
<1>4. CASE FailToStart \/ Signal \/ Return
  BY <1>1, <1>2, <1>4, HarmlessStep DEF FailToStart, Signal, Return, vars
<1>5. CASE StartServer
  <2>1. \A t \in Threads : killedBy'[t] = Nobody
    BY <1>5 DEF PInv, StartServer
  <2>2. Spent'
    BY <2>1 DEF Spent
  <2> QED
    BY <1>1, <1>5, <2>1, <2>2
       DEF PInv, StartServer, vars, Untouched, OneThreadPerConnection
<1>6. ASSUME NEW c \in Conns, ClientStep(c) \/ IoDone(c) \/ ReadAborts(c)
      PROVE  PInv'
  <2>1. /\ Client(c) \/ Io(c)
        /\ UNCHANGED processVars
    BY <1>6 DEF ClientStep, IoDone, ReadAborts, Client, Io
  <2>2. UNCHANGED serving
    BY <2>1 DEF Client, Io, Send, CloseClient, ReadDone, ReadEnds, Deliver,
                WriteDone, WriteFails
  <2>3. \A d \in Conns : Keeps(http[d], http'[d])
    BY <1>1, <2>1, IoKeepsLoops
  <2>4. \A d \in Conns \ accepted : http'[d] = http[d]
    <3>1. http \in [Conns -> HttpObject]
      BY <1>1 DEF IInv, TypeOK
    <3>2. CASE c \in accepted
      <4>1. \A d \in Conns : d # c => http'[d] = http[d]
        BY <2>1, <3>1 DEF Client, Io, Send, CloseClient, ReadDone, ReadEnds, Deliver,
                          WriteDone, WriteFails
      <4> QED
        BY <3>2, <4>1
    <3>3. CASE c \notin accepted
      <4>1. CloseClient(c)
        BY <1>6, <3>3 DEF ClientStep, IoDone, ReadAborts
      <4> QED
        BY <4>1 DEF CloseClient
    <3> QED
      BY <3>2, <3>3
  <2> QED
    BY <1>1, <2>1, <2>2, <2>3, <2>4, HarmlessStep DEF processVars
<1>7. ASSUME NEW t \in Threads, OnSignal(t) \/ OnAcceptError(t) PROVE PInv'
  BY <1>1, <1>2, <1>7, HarmlessStep DEF OnSignal, OnAcceptError, vars
<1>8. ASSUME NEW t \in Threads, LeaveRun(t) PROVE PInv'
  <2>1. \A u \in Threads : serving'[u] = "dead" => serving[u] = "dead" \/ stopped'
    BY <1>8 DEF LeaveRun, processVars
  <2> QED
    BY <1>1, <1>2, <1>8, <2>1, HarmlessStep DEF LeaveRun, processVars
<1>9. ASSUME NEW t \in Threads, NEW c \in Conns, OnAccept(t, c) PROVE PInv'
  <2>1. /\ UNCHANGED <<killedBy, client, http, serving, acceptor, stage, stopped>>
        /\ acceptor = "accepting" /\ accepted' = accepted \cup {c}
    BY <1>9 DEF OnAccept, vars
  <2> QED
    BY <1>1, <1>2, <2>1, HarmlessStep
<1>10. ASSUME NEW t \in Threads, NEW c \in Conns, OnAcceptThrows(t, c) PROVE PInv'
  <2>1. /\ UNCHANGED <<client, http, accepted, stage, stopped>>
        /\ stage = "running" /\ acceptor = "accepting" /\ acceptor' = "deaf"
        /\ c \notin accepted
        /\ serving' = [serving EXCEPT ![t] = "dead"]
        /\ killedBy' = [killedBy EXCEPT ![t] = c]
    BY <1>10 DEF OnAcceptThrows, InRun
  <2>2. \A u \in Threads : killedBy[u] # c
    BY <2>1 DEF PInv, Spent
  <2>3. \A u \in Threads : u # t => serving'[u] = serving[u]
    BY <2>1, <1>1 DEF IInv, TypeOK
  <2> QED
    BY <1>1, <1>2, <2>1, <2>2, <2>3, KillingStep
<1>11. ASSUME NEW t \in Threads, NEW c \in Conns, StartHandler(t, c) PROVE PInv'
  <2>1. /\ Start(t, c) /\ UNCHANGED <<stage, acceptor, accepted, stopped>>
        /\ stage = "running"
        /\ killedBy' = [killedBy EXCEPT ![t] = IF serving'[t] = "dead" THEN c ELSE killedBy[t]]
    BY <1>11 DEF StartHandler, InRun
  <2>2. /\ \A d \in Conns : Keeps(http[d], http'[d])
        /\ serving'[t] = "dead" /\ OneLoop(http[c]) =>
              ~NoLoop(http[c]) /\ NoLoop(http'[c])
        /\ http[c].ready # <<>>
        /\ \A d \in Conns : d # c => http'[d] = http[d]
        /\ \A u \in Threads : u # t => serving'[u] = serving[u]
    BY <1>1, <2>1, StartKeepsLoops
  <2>3. c \in accepted /\ OneLoop(http[c])
    BY <2>2 DEF PInv, Untouched
  <2>4. \A d \in Conns \ accepted : http'[d] = http[d]
    BY <2>2, <2>3
  <2>5. killedBy \in [Threads -> Conns \cup {Nobody}]
    BY DEF PInv
  <2>6. CASE serving'[t] = "dead"
    <3>1. \A u \in Threads : killedBy[u] # c
      BY <2>2, <2>3, <2>6 DEF PInv, Spent
    <3> QED
      BY <1>1, <2>1, <2>2, <2>3, <2>4, <2>6, <3>1, KillingStep
  <2>7. CASE serving'[t] # "dead"
    <3>1. killedBy' = killedBy
      BY <2>1, <2>5, <2>7
    <3>2. \A u \in Threads : serving'[u] = "dead" => serving[u] = "dead"
      BY <2>2, <2>7
    <3> QED
      BY <1>1, <2>1, <2>2, <2>4, <3>1, <3>2, HarmlessStep
  <2> QED
    BY <2>6, <2>7
<1>12. ASSUME NEW t \in Threads, NEW c \in Conns, FinishHandler(t, c) PROVE PInv'
  <2>1. Acquire(t, c) /\ UNCHANGED processVars
    BY <1>12 DEF FinishHandler
  <2>2. \A d \in Conns : Keeps(http[d], http'[d])
    BY <1>1, <2>1, AcquireKeepsLoops
  <2>3. /\ \A d \in Conns : d # c => http'[d] = http[d]
        /\ \A u \in Threads : serving'[u] = "dead" => serving[u] = "dead"
    BY <1>1, <2>1 DEF Acquire, IInv, TypeOK
  <2>4. c \in accepted
    <3>1. Len(http[c].held) = 1
      BY <1>1, <2>1 DEF Acquire, IInv, OneHandler, Busy
    <3>2. Len(<<>>) = 0
      OBVIOUS
    <3>3. http[c].held = <<>> => Len(http[c].held) = Len(<<>>)
      BY Zenon
    <3> QED
      BY <3>1, <3>2, <3>3 DEF PInv, Untouched
  <2> QED
    BY <1>1, <2>1, <2>2, <2>3, <2>4, HarmlessStep DEF processVars
<1>13. ASSUME NEW t \in Threads, Thread(t) PROVE PInv'
  BY <1>7, <1>8, <1>9, <1>10, <1>11, <1>12, <1>13 DEF Thread
<1> QED
  BY <1>3, <1>4, <1>5, <1>6, <1>13 DEF ProcessNext

\* However many requests make a handler throw, and on whichever threads, a
\* connection costs the pool one thread at most, and the listener none but the
\* last one it will ever cost.
THEOREM ThreadsLost == ProcessSpec => []OneThreadPerConnection
<1>1. PInv => OneThreadPerConnection
  BY DEF PInv
<1> QED
  BY <1>1, InitPInv, NextPInv, PTL DEF ProcessSpec
=============================================================================

---------------------------- MODULE HttpSession -----------------------------
(***************************************************************************)
(* The HTTP connections: http_session, whose handlers run on a strand per  *)
(* connection, on the threads of main that call ioc.run().                 *)
(*                                                                         *)
(* do_write waits for write_semaphore on the thread that runs the handler, *)
(* so a handler is two steps: up to the wait, and after it.  While it      *)
(* waits, its thread serves nobody and its strand runs nothing else.       *)
(***************************************************************************)
EXTENDS Integers, Sequences

CONSTANTS
  Conns,        \* connections, one http_session each
  Threads,      \* threads that run the io_context
  KindsOf,      \* kinds of request each client sends
  QueueLimit,   \* http_session::queue_limit
  MaxRequests,  \* bound: requests sent over each connection
  Pipeliners,   \* clients that may send before they have all their responses
  Prompt        \* TRUE: on_write is queued before the client can react

ASSUME HttpAssumption ==
  /\ Conns \cap {"idle", "dead"} = {}
  /\ KindsOf \in [Conns -> SUBSET {"get", "upgrade", "stale", "throws"}]
  /\ QueueLimit \in Nat \ {0}
  /\ MaxRequests \in [Conns -> Nat]
  /\ Pipeliners \subseteq Conns /\ Prompt \in BOOLEAN

VARIABLES
  client,   \* what each client has sent and received
  http,     \* the http_session objects and their sockets
  serving   \* the connection each thread runs a handler of, "idle" or "dead"

vars == <<client, http, serving>>

-----------------------------------------------------------------------------
\* "get": handle_request makes a response.  "upgrade": a websocket upgrade with
\* the nonce in force.  "stale": one without, answered 401.  "throws": on_read
\* throws, as an upgrade without credentials does.
Kinds == {"get", "upgrade", "stale", "throws"}

Request == [n : Nat, kind : Kinds, keep : BOOLEAN]

Response(req) == [n |-> req.n, keep |-> req.keep]

Responses == [n : Nat, keep : BOOLEAN]

Handler(op, data) == [op |-> op, data |-> data]

Handlers ==
  [op : {"on_read"}, data : Request] \cup [op : {"on_write"}, data : Responses]
    \cup [op : {"end_of_stream", "read_error", "write_error"}, data : {<<>>}]

\* A completion is queued on the connection's strand.
Complete(session, handler) == [session EXCEPT !.ready = Append(@, handler)]

Busy(c) == \E t \in Threads : serving[t] = c

-----------------------------------------------------------------------------
\* The clients and the network.

Send(c, kind, keep) ==
  LET req == [n |-> client[c].sent + 1, kind |-> kind, keep |-> keep]
  IN  /\ client[c].open
      /\ client[c].sent < MaxRequests[c]
      /\ c \in Pipeliners \/ Len(client[c].got) = client[c].sent
      /\ client' = [client EXCEPT ![c].sent = @ + 1]
      /\ http' = [http EXCEPT ![c].input = Append(@, req)]
      /\ UNCHANGED serving

CloseClient(c) ==
  /\ client[c].open
  /\ client' = [client EXCEPT ![c].open = FALSE]
  /\ UNCHANGED <<http, serving>>

\* async_read completes: with a request, at the end of the stream, or with an
\* error or the 30 seconds' timeout.
ReadDone(c) ==
  /\ http[c].reading
  /\ http[c].input # <<>>
  /\ http' = [http EXCEPT ![c] =
       [Complete(http[c], Handler("on_read", Head(http[c].input)))
          EXCEPT !.reading = FALSE, !.input = Tail(http[c].input)]]
  /\ UNCHANGED <<client, serving>>

ReadEnds(c) ==
  /\ http[c].reading
  /\ http[c].input = <<>>
  /\ \/ /\ ~client[c].open
        /\ http' = [http EXCEPT ![c] =
             [Complete(http[c], Handler("end_of_stream", <<>>)) EXCEPT !.reading = FALSE]]
     \/ http' = [http EXCEPT ![c] =
          [Complete(http[c], Handler("read_error", <<>>)) EXCEPT !.reading = FALSE]]
  /\ UNCHANGED <<client, serving>>

\* The last byte of the response in flight reaches the client ...
Deliver(c) ==
  /\ http[c].writing # <<>>
  /\ ~http[c].delivered
  /\ client[c].open
  /\ ~http[c].shut
  /\ ~http[c].released
  /\ client' = [client EXCEPT ![c].got = Append(@, Head(http[c].writing).n)]
  /\ http' = [http EXCEPT ![c] =
       IF Prompt
       THEN [Complete(http[c], Handler("on_write", Head(http[c].writing)))
               EXCEPT !.writing = <<>>]
       ELSE [http[c] EXCEPT !.delivered = TRUE]]
  /\ UNCHANGED serving

\* ... and some time later the completion of async_write is queued.
WriteDone(c) ==
  /\ http[c].delivered
  /\ http' = [http EXCEPT ![c] =
       [Complete(http[c], Handler("on_write", Head(http[c].writing)))
          EXCEPT !.writing = <<>>, !.delivered = FALSE]]
  /\ UNCHANGED <<client, serving>>

\* The peer is gone, or do_close or release_socket came before the write.
WriteFails(c) ==
  /\ http[c].writing # <<>>
  /\ ~http[c].delivered
  /\ ~client[c].open \/ http[c].shut \/ http[c].released
  /\ http' = [http EXCEPT ![c] =
       [Complete(http[c], Handler("write_error", <<>>)) EXCEPT !.writing = <<>>]]
  /\ UNCHANGED <<client, serving>>

-----------------------------------------------------------------------------
\* Handlers of http_session.  Each is given the session with its completion
\* already off the strand.

\* Mutant: the response being sent stays in the queue.
DoWrite_KeepsFront(session, resume) ==
  [session EXCEPT !.held = <<Head(session.queue)>>, !.resume = resume]

\* do_write up to the semaphore: the oldest response is taken off the queue and
\* will be sent by the second half, Acquire, which then reads again if resume.
DoWrite(session, resume) ==
  [session EXCEPT !.held = <<Head(session.queue)>>,
                  !.queue = Tail(session.queue),
                  !.resume = resume]

\* queue_write: start the write loop if there was no work before.
QueueWrite(session, response, resume) ==
  LET longer == [session EXCEPT !.queue = Append(@, response)]
  IN  IF Len(longer.queue) = 1 THEN DoWrite(longer, resume)
      ELSE [longer EXCEPT !.reading = resume /\ Len(longer.queue) < QueueLimit]

\* do_close: shut down our side; nothing more is started.
DoClose(session) == [session EXCEPT !.shut = TRUE]

\* Mutant: the next read is begun before the request is looked at.
OnRead_ReadsAgain(session, req) ==
  CASE req.kind = "get"     -> QueueWrite(session, Response(req), TRUE)
    [] req.kind = "stale"   -> QueueWrite(session, Response(req), FALSE)
    [] req.kind = "upgrade" -> [session EXCEPT !.released = TRUE]
    [] req.kind = "throws"  -> [session EXCEPT !.reading = TRUE]

OnRead(session, req) ==
  CASE req.kind = "get"     -> QueueWrite(session, Response(req), TRUE)
    [] req.kind = "stale"   -> QueueWrite(session, Response(req), FALSE)
    [] req.kind = "upgrade" -> [session EXCEPT !.released = TRUE]
    [] req.kind = "throws"  -> session

\* Mutants: the permit is not released; it is released twice at the close.
OnWrite_KeepsPermit(session, response) ==
  IF ~response.keep THEN DoClose(session) ELSE session
OnWrite_ReleasesTwice(session, response) ==
  IF ~response.keep THEN DoClose([session EXCEPT !.permits = 2])
  ELSE [session EXCEPT !.permits = 1]

OnWrite(session, response) ==
  LET released == [session EXCEPT !.permits = @ + 1]
  IN  IF ~response.keep THEN DoClose(released)
      ELSE IF released.queue = <<>> THEN released
      ELSE DoWrite(released, Len(released.queue) = QueueLimit)

Run(session, handler) ==
  CASE handler.op = "on_read"       -> OnRead(session, handler.data)
    [] handler.op = "end_of_stream" -> DoClose(session)
    [] handler.op = "read_error"    -> session
    [] handler.op = "on_write"      -> OnWrite(session, handler.data)
    [] handler.op = "write_error"   -> [session EXCEPT !.permits = @ + 1]

Throws(handler) == handler.op = "on_read" /\ handler.data.kind = "throws"

\* Mutant: two threads may be in one strand.
Start_NoStrand(t, c) ==
  /\ serving[t] = "idle"
  /\ http[c].ready # <<>>
  /\ LET handler == Head(http[c].ready)
         after == Run([http[c] EXCEPT !.ready = Tail(@)], handler)
     IN  /\ http' = [http EXCEPT ![c] = after]
         /\ serving' = [serving EXCEPT ![t] =
              IF Throws(handler) THEN "dead"
              ELSE IF after.held # <<>> THEN c ELSE "idle"]
  /\ UNCHANGED client

\* A free thread runs the next handler of a strand no other thread is in.
Start(t, c) ==
  /\ serving[t] = "idle"
  /\ ~Busy(c)
  /\ http[c].ready # <<>>
  /\ LET handler == Head(http[c].ready)
         after == Run([http[c] EXCEPT !.ready = Tail(@)], handler)
     IN  /\ http' = [http EXCEPT ![c] = after]
         /\ serving' = [serving EXCEPT ![t] =
              IF Throws(handler) THEN "dead"
              ELSE IF after.held # <<>> THEN c ELSE "idle"]
  /\ UNCHANGED client

\* Mutant: the semaphore is not waited for.
Acquire_NoWait(t, c) ==
  /\ serving[t] = c
  /\ http' = [http EXCEPT ![c] =
       [http[c] EXCEPT !.writing = http[c].held,
                       !.held = <<>>,
                       !.reading = http[c].reading \/ http[c].resume]]
  /\ serving' = [serving EXCEPT ![t] = "idle"]
  /\ UNCHANGED client

\* write_semaphore.acquire() returns: the write begins, the handler ends.
Acquire(t, c) ==
  /\ serving[t] = c
  /\ http[c].permits > 0
  /\ http' = [http EXCEPT ![c] =
       [http[c] EXCEPT !.permits = http[c].permits - 1,
                       !.writing = http[c].held,
                       !.held = <<>>,
                       !.reading = \/ http[c].reading
                                   \/ /\ http[c].resume
                                      /\ Len(http[c].queue) < QueueLimit]]
  /\ serving' = [serving EXCEPT ![t] = "idle"]
  /\ UNCHANGED client

-----------------------------------------------------------------------------
\* http_session::run has called do_read.
Init ==
  /\ client = [c \in Conns |-> [open |-> TRUE, sent |-> 0, got |-> <<>>]]
  /\ http = [c \in Conns |->
       [input |-> <<>>, reading |-> TRUE, writing |-> <<>>, delivered |-> FALSE,
        ready |-> <<>>, queue |-> <<>>, permits |-> 1, held |-> <<>>,
        resume |-> FALSE, shut |-> FALSE, released |-> FALSE]]
  /\ serving = [t \in Threads |-> "idle"]

Client(c) ==
  (\E kind \in KindsOf[c], keep \in BOOLEAN : Send(c, kind, keep)) \/ CloseClient(c)

Io(c) == ReadDone(c) \/ ReadEnds(c) \/ Deliver(c) \/ WriteDone(c) \/ WriteFails(c)

Pool(t) == \E c \in Conns : Start(t, c) \/ Acquire(t, c)

Next ==
  \/ \E c \in Conns : Client(c) \/ Io(c)
  \/ \E t \in Threads : Pool(t)

Spec == Init /\ [][Next]_vars

\* Requests that have arrived are read, responses are delivered or fail, their
\* completions are queued, and a thread that can go on does.
Fairness ==
  /\ \A c \in Conns :
       /\ WF_vars(ReadDone(c)) /\ WF_vars(WriteDone(c))
       /\ WF_vars(Deliver(c) \/ WriteFails(c))
       /\ \A t \in Threads : WF_vars(Acquire(t, c))
       /\ SF_vars(\E t \in Threads : Start(t, c))

FairSpec == Spec /\ Fairness

-----------------------------------------------------------------------------
HttpObject ==
  [input : Seq(Request), reading : BOOLEAN, writing : Seq(Responses),
   delivered : BOOLEAN, ready : Seq(Handlers), queue : Seq(Responses),
   permits : {0, 1}, held : Seq(Responses), resume : BOOLEAN,
   shut : BOOLEAN, released : BOOLEAN]

TypeOK ==
  /\ client \in [Conns -> [open : BOOLEAN, sent : Nat, got : Seq(Nat)]]
  /\ http \in [Conns -> HttpObject]
  /\ serving \in [Threads -> Conns \cup {"idle", "dead"}]

\* The completions of writes in a strand's queue.
WritesOf(ready) ==
  {k \in DOMAIN ready : ready[k].op \in {"on_write", "write_error"}}

\* The permit of write_semaphore is never lost nor released twice: it is free,
\* or with the one write in flight, or with the completion of that write on the
\* strand.  So no two async_writes overlap on a connection (http_session.cpp:135
\* "prevent multiple simultaneous async writes").
PermitAccounting ==
  \A c \in Conns :
    LET done == WritesOf(http[c].ready)
    IN  \/ http[c].permits = 1 /\ http[c].writing = <<>> /\ done = {}
        \/ http[c].permits = 0 /\ Len(http[c].writing) = 1 /\ done = {}
        \/ /\ http[c].permits = 0 /\ http[c].writing = <<>>
           /\ \E k \in DOMAIN http[c].ready : done = {k}

\* A client gets its responses one by one, in the order of its requests, however
\* reads, writes and their completions interleave on the threads.
ResponsesInOrder ==
  \A c \in Conns : \A k \in DOMAIN client[c].got : client[c].got[k] = k

\* do_write empties the queue before it waits, so between handlers there is
\* never anything in response_queue, and queue_limit is never reached.
QueueNeverFills == \A c \in Conns : http[c].queue = <<>>

\* A handler waits for a permit that only a later handler could release.
Wedged(c) == Busy(c) /\ http[c].permits = 0

\* Once do_write waits behind a write in flight it waits for ever, and with it
\* its thread: on_write, which would release the permit, is queued on the same
\* strand.
WedgedForEver == [][\A c \in Conns : Wedged(c) => Wedged(c)']_vars

\* A client that sends a request only after the last response, and whose
\* request is read only after on_write is queued, never wedges its connection.
NeverWedged == \A c \in Conns : ~Wedged(c)

\* http_session.cpp:105 "send the response back": a request that has arrived on
\* a connection being read is answered, unless one side closes.
RequestsAnswered ==
  \A c \in Conns :
    http[c].reading /\ http[c].input # <<>>
    ~> \/ Len(client[c].got) = client[c].sent
       \/ ~client[c].open \/ http[c].shut \/ http[c].released
=============================================================================

--------------------------- MODULE DeliveryProofs ----------------------------
(***************************************************************************)
(* Proof that Bridge implements Broadcast, for any numbers of sessions and *)
(* gates, any messages and any cut of the serial line into reads.          *)
(*                                                                         *)
(* Beyond the invariant of Bridge, every entry of a queue or a buffer must *)
(* say what the log has at its number, so that the report a page receives  *)
(* is the one it has to be shown next.                                     *)
(***************************************************************************)
EXTENDS Delivery, BridgeProofs

\* Entries that say what the log says.
Recorded ==
  {e \in Entries(ArduinoMessages) :
     e.n \in DOMAIN log /\ log[e.n] = StatesOf(e.body)}

Carries(w, entries) == w.buffer \in Seq(entries) /\ w.queue \in Seq(entries)

\* A session whose credentials were refused never starts a loop, and nobody
\* goes before he comes.
Placed(w, up) ==
  /\ w.permissions = "Blocked" => w.reader \in {"none", "ended"} /\ w.writer = "none"
  /\ w.reader = "none" => up

History ==
  /\ log \in Seq(Reports) /\ Len(log) = popped + Len(imq)
  /\ imq \in Seq(Recorded)
  /\ \A s \in Sessions : Carries(ws[s], Recorded) /\ Placed(ws[s], page[s].up)

HInv == IInv(ArduinoMessages) /\ History

-----------------------------------------------------------------------------
\* The log.

\* A handler leaves the log alone unless one more message has gone through
\* incoming_message_queue, which is then at its end.
LEMMA LogStep ==
  ASSUME HInv, DeliveryNext
  PROVE  /\ popped' + Len(imq') = popped + Len(imq) => log' = log
         /\ popped' = popped /\ Len(imq') = Len(imq) + 1 =>
              log' = Append(log, StatesOf(imq'[Len(imq')].body))
<1>1. /\ log \in Seq(Reports) /\ Len(log) = popped + Len(imq)
      /\ popped \in Nat /\ Len(imq) \in Nat
  BY DEF HInv, History, IInv, Typed
<1>2. log' = log \o Entering /\ popped' \in Nat /\ Len(imq') \in Nat
  <2>1. IInv(ArduinoMessages)'
    BY NextIInv DEF HInv, DeliveryNext
  <2>2. imq' \in Seq(Entries(ArduinoMessages)) /\ popped' \in Nat
    BY <2>1 DEF IInv, Typed
  <2>3. Len(imq') \in Nat
    BY <2>2
  <2>4. log' = log \o Entering
    BY DEF DeliveryNext
  <2> QED
    BY <2>2, <2>3, <2>4
<1>3. ASSUME popped' + Len(imq') = popped + Len(imq)
      PROVE  log' = log
  <2>1. popped' + Len(imq') - Len(log) = 0
    BY <1>1, <1>2, <1>3
  <2>2. Entering = <<>>
    BY <2>1 DEF Entering
  <2> QED
    BY <1>1, <1>2, <2>2, ConcatEmptySeq
<1>4. ASSUME popped' = popped, Len(imq') = Len(imq) + 1
      PROVE  log' = Append(log, StatesOf(imq'[Len(imq')].body))
  <2> DEFINE report == StatesOf(imq'[Len(imq')].body)
  <2>1. /\ popped' + Len(imq') - Len(log) = 1
        /\ Len(log) + 1 - popped' = Len(imq')
    BY <1>1, <1>2, <1>4
  <2>2. Entering = [k \in 1 .. 1 |-> StatesOf(imq'[Len(log) + k - popped'].body)]
    BY <2>1 DEF Entering
  <2>3. Entering = [k \in 1 .. 1 |-> report]
    BY <2>1, <2>2
  <2> HIDE DEF report
  <2>4. <<report>> = [k \in 1 .. 1 |-> report]
    OBVIOUS
  <2>5. log \in Seq(Reports \cup {report}) /\ report \in Reports \cup {report}
    BY <1>1, SeqMonotonic, Reports \subseteq Reports \cup {report}
  <2>6. Append(log, report) = log \o <<report>>
    BY <2>5, AppendIsConcat
  <2> QED
    BY <1>2, <2>3, <2>4, <2>6 DEF report
<1> QED
  BY <1>3, <1>4

\* What is recorded stays recorded.
LEMMA RecordedGrows ==
  ASSUME log \in Seq(Reports),
         log' = log \/ \E report \in Reports : log' = Append(log, report)
  PROVE  /\ log' \in Seq(Reports)
         /\ Recorded \subseteq Recorded'
         /\ \A seq \in Seq(Recorded) : seq \in Seq(Recorded')
         /\ \A w : Carries(w, Recorded) => Carries(w, Recorded')
<1>1. /\ log' \in Seq(Reports)
      /\ \A k \in DOMAIN log : k \in DOMAIN log' /\ log'[k] = log[k]
  <2>1. CASE log' = log
    BY <2>1
  <2>2. ASSUME NEW report \in Reports, log' = Append(log, report)
        PROVE  /\ log' \in Seq(Reports)
               /\ \A k \in DOMAIN log : k \in DOMAIN log' /\ log'[k] = log[k]
    BY <2>2, AppendProperties, LenProperties
  <2> QED
    BY <2>1, <2>2
<1>2. Recorded \subseteq Recorded'
  BY <1>1 DEF Recorded
<1>3. \A seq \in Seq(Recorded) : seq \in Seq(Recorded')
  BY <1>2, SeqMonotonic
<1> QED
  BY <1>1, <1>2, <1>3 DEF Carries

-----------------------------------------------------------------------------
\* What Broadcast sees.

Seen == <<log, Waiting, Reading, At, Listening, Shows>>

\* What has to be shown of a step of the code.
Promised == History' /\ (UNCHANGED Seen \/ Abstract!Next)

\* Broadcast does not see which loop a session is in, nor its queue.
LEMMA NothingSeen ==
  ASSUME log' = log, last' = last,
         \A s \in Sessions :
           /\ ws'[s].reader = "none" <=> ws[s].reader = "none"
           /\ ws'[s].permissions = ws[s].permissions
           /\ page'[s].up = page[s].up
           /\ page'[s].configured = page[s].configured
           /\ page'[s].shown = page[s].shown
  PROVE  UNCHANGED Seen
BY DEF Seen, Waiting, Reading, At, Listening, Shows, Served, Born

LEMMA HistoryKept ==
  ASSUME HInv, log' = log, popped' + Len(imq') = popped + Len(imq),
         imq' \in Seq(Recorded),
         \A s \in Sessions : Carries(ws'[s], Recorded) /\ Placed(ws'[s], page'[s].up)
  PROVE  History'
<1>1. Recorded' = Recorded
  BY DEF Recorded
<1> QED
  BY <1>1 DEF HInv, History

\* A step of the port, of the board or of a controller's session.
LEMMA OutOfSight ==
  ASSUME HInv, DeliveryNext, UNCHANGED <<ws, imq, popped, page, last>>
  PROVE  Promised
<1>1. log' = log
  BY LogStep
<1>2. UNCHANGED Seen
  BY <1>1, NothingSeen
<1>3. History'
  BY <1>1, HistoryKept DEF HInv, History
<1> QED
  BY <1>2, <1>3 DEF Promised

\* A handler of one session that leaves its page alone.
LEMMA HandlerPromised ==
  ASSUME HInv, DeliveryNext, NEW s \in Sessions, NEW w,
         ws' = [ws EXCEPT ![s] = w],
         Carries(w, Recorded), w.permissions = ws[s].permissions,
         ws[s].reader # "none", w.reader # "none", Placed(w, page[s].up),
         UNCHANGED <<imq, popped, page, last>>
  PROVE  Promised
<1>1. log' = log
  BY LogStep
<1>2. \A r \in Sessions : ws'[r] = IF r = s THEN w ELSE ws[r]
  BY DEF HInv, IInv, Typed
<1>3. UNCHANGED Seen
  BY <1>1, <1>2, NothingSeen
<1>4. History'
  BY <1>1, <1>2, HistoryKept DEF HInv, History
<1> QED
  BY <1>3, <1>4 DEF Promised

\* do_write moves entries and does not change them.
LEMMA DoWriteCarries ==
  ASSUME NEW entries, NEW w \in WsObjects(ArduinoMessages), Carries(w, entries)
  PROVE  Carries(SessionDoWrite(w), entries)
<1>1. w.queue \in Seq(entries)
  BY DEF Carries
<1>2. CASE w.queue = <<>>
  <2>1. SessionDoWrite(w) = [w EXCEPT !.writer = "posted", !.buffer = <<>>]
    BY <1>2 DEF SessionDoWrite
  <2> QED
    BY <1>1, <1>2, <2>1, EmptySeq DEF Carries, WsObjects
<1>3. CASE w.queue # <<>>
  <2> DEFINE front == <<Head(w.queue)>>
             rest == Tail(w.queue)
  <2>1. SessionDoWrite(w) =
          [w EXCEPT !.writer = "writing", !.failing = w.reader = "ended",
                    !.buffer = front, !.queue = rest]
    BY <1>3 DEF SessionDoWrite
  <2>2. front \in Seq(entries) /\ rest \in Seq(entries)
    BY <1>1, <1>3, HeadTail
  <2> HIDE DEF front, rest
  <2> QED
    BY <2>1, <2>2 DEF Carries, WsObjects
<1> QED
  BY <1>2, <1>3

-----------------------------------------------------------------------------
\* The handlers of a session.

LEMMA OnAcceptPromised ==
  ASSUME HInv, DeliveryNext, NEW s \in Sessions, OnAccept(s)
  PROVE  Promised
<1> DEFINE v == ws[s]
<1>1. /\ v \in WsObjects(ArduinoMessages) /\ Carries(v, Recorded)
      /\ Placed(v, page[s].up) /\ v.reader = "accepting"
  BY DEF HInv, IInv, Typed, History, OnAccept
<1>2. UNCHANGED <<imq, popped, page, last>>
  BY DEF OnAccept, pageVars
<1>3. v.permissions # "Blocked"
  BY <1>1 DEF Placed
<1>4. CASE page[s].up
  <2> DEFINE w == [v EXCEPT !.reader = "reading"]
  <2>1. /\ w \in WsObjects(ArduinoMessages) /\ w.reader = "reading"
        /\ w.permissions = v.permissions /\ Carries(w, Recorded)
    BY <1>1 DEF WsObjects, Carries
  <2>2. ws' = [ws EXCEPT ![s] = SessionDoWrite(w)]
    BY <1>4 DEF OnAccept
  <2> HIDE DEF w
  <2> DEFINE after == SessionDoWrite(w)
  <2>3. /\ Carries(after, Recorded)
        /\ after.permissions = v.permissions /\ after.reader = "reading"
    BY <2>1, DoWriteCarries, DoWriteKeeps
  <2>4. Placed(after, page[s].up)
    BY <1>3, <2>3 DEF Placed
  <2> HIDE DEF after
  <2>5. ws' = [ws EXCEPT ![s] = after]
    BY <2>2 DEF after
  <2> QED
    BY <1>1, <1>2, <2>3, <2>4, <2>5, HandlerPromised
<1>5. CASE ~page[s].up
  <2> DEFINE w == [v EXCEPT !.reader = "ended"]
  <2>1. /\ w.reader = "ended" /\ w.permissions = v.permissions
        /\ Carries(w, Recorded) /\ ws' = [ws EXCEPT ![s] = w]
    BY <1>1, <1>5 DEF WsObjects, Carries, OnAccept
  <2>2. Placed(w, page[s].up)
    BY <1>3, <2>1 DEF Placed
  <2> HIDE DEF w
  <2> QED
    BY <1>1, <1>2, <2>1, <2>2, HandlerPromised
<1> QED
  BY <1>4, <1>5

LEMMA EndPromised ==
  ASSUME HInv, DeliveryNext, NEW s \in Sessions, OnReadError(s) \/ OnWriteError(s)
  PROVE  Promised
<1> DEFINE v == ws[s]
           w == IF OnReadError(s) THEN [v EXCEPT !.reader = "ended"]
                                  ELSE [v EXCEPT !.writer = "ended", !.buffer = <<>>]
<1>1. /\ v \in WsObjects(ArduinoMessages) /\ Carries(v, Recorded)
      /\ Placed(v, page[s].up)
      /\ v.reader = "none" => v.writer = "none"
  BY DEF HInv, IInv, Typed, History, SessionsSound, Sound
<1>2. UNCHANGED <<imq, popped, page, last>> /\ ws' = [ws EXCEPT ![s] = w]
  BY DEF OnReadError, OnWriteError, pageVars
<1>3. CASE OnReadError(s)
  <2>1. v.reader = "reading"
    BY <1>3 DEF OnReadError
  <2>2. /\ w.reader = "ended" /\ w.permissions = v.permissions
        /\ w.writer = v.writer /\ Carries(w, Recorded)
    BY <1>1, <1>3 DEF WsObjects, Carries
  <2>3. Placed(w, page[s].up)
    BY <1>1, <2>1, <2>2 DEF Placed
  <2> HIDE DEF w
  <2> QED
    BY <1>2, <2>1, <2>2, <2>3, HandlerPromised
<1>4. CASE ~OnReadError(s)
  <2>1. v.writer = "writing" /\ v.reader # "none"
    BY <1>1, <1>4 DEF OnWriteError
  <2>2. <<>> \in Seq(Recorded)
    BY EmptySeq
  <2>3. /\ w.reader = v.reader /\ w.permissions = v.permissions
        /\ Carries(w, Recorded)
    BY <1>1, <1>4, <2>2 DEF WsObjects, Carries
  <2>4. Placed(w, page[s].up)
    BY <1>1, <2>1, <2>3 DEF Placed
  <2> HIDE DEF w
  <2> QED
    BY <1>2, <2>1, <2>3, <2>4, HandlerPromised
<1> QED
  BY <1>3, <1>4

\* The session whose loop begins to write, or has written.
LEMMA Writing ==
  ASSUME HInv, NEW s \in Sessions, ws[s].writer \in {"posted", "writing"}
  PROVE  /\ ws[s].permissions # "Blocked" /\ ws[s].reader # "none"
         /\ LET w == SessionDoWrite(ws[s])
            IN  /\ Carries(w, Recorded) /\ Placed(w, page[s].up)
                /\ w.permissions = ws[s].permissions /\ w.reader = ws[s].reader
<1> DEFINE w == SessionDoWrite(ws[s])
<1>1. /\ ws[s] \in WsObjects(ArduinoMessages) /\ Carries(ws[s], Recorded)
      /\ Placed(ws[s], page[s].up)
      /\ ws[s].reader = "none" => ws[s].writer = "none"
  BY DEF HInv, IInv, Typed, History, SessionsSound, Sound
<1>2. /\ Carries(w, Recorded)
      /\ w.permissions = ws[s].permissions /\ w.reader = ws[s].reader
  BY <1>1, DoWriteCarries, DoWriteKeeps
<1> HIDE DEF w
<1>3. ws[s].permissions # "Blocked" /\ ws[s].reader # "none"
  BY <1>1 DEF Placed
<1>4. Placed(w, page[s].up)
  BY <1>2, <1>3 DEF Placed
<1> QED
  BY <1>2, <1>3, <1>4 DEF w

LEMMA DoWritePromised ==
  ASSUME HInv, DeliveryNext, NEW s \in Sessions, DoWrite(s)
  PROVE  Promised
<1> DEFINE w == SessionDoWrite(ws[s])
<1>1. /\ ws' = [ws EXCEPT ![s] = w] /\ UNCHANGED <<imq, popped, page, last>>
      /\ ws[s].writer = "posted"
  BY DEF DoWrite, pageVars
<1>2. /\ ws[s].reader # "none" /\ Carries(w, Recorded) /\ Placed(w, page[s].up)
      /\ w.permissions = ws[s].permissions /\ w.reader = ws[s].reader
  BY <1>1, Writing
<1> HIDE DEF w
<1> QED
  BY <1>1, <1>2, HandlerPromised

\* The report that reaches an open page is the next one of the log.
LEMMA NextOfLog ==
  ASSUME HInv, NEW s \in Sessions, ws[s].writer = "writing", page[s].up
  PROVE  LET report == Head(ws[s].buffer)
         IN  /\ report \in Entries(ArduinoMessages)
             /\ report.n = last[s] + 1 /\ last[s] < Len(log)
             /\ StatesOf(report.body) = log[last[s] + 1]
<1> DEFINE buffer == ws[s].buffer
           queue == ws[s].queue
<1>1. ws[s].permissions # "Blocked" /\ ws[s].reader # "none"
  BY Writing
<1>2. /\ buffer \in Seq(Recorded) /\ queue \in Seq(Recorded) /\ Len(buffer) = 1
      /\ Numbered(buffer \o queue, last[s], popped)
      /\ last[s] \in Nat /\ popped \in Nat
  BY <1>1 DEF HInv, IInv, Typed, History, Carries, SessionsSound, Sound
<1>3. log \in Seq(Reports) /\ DOMAIN log = 1 .. Len(log)
  BY LenProperties DEF HInv, History
<1> HIDE DEF buffer, queue
<1> DEFINE seq == buffer \o queue
<1>4. seq \in Seq(Recorded) /\ seq # <<>> /\ Head(seq) = Head(buffer)
  BY <1>2, BufferFirst
<1> HIDE DEF seq
<1>5. Head(seq).n = last[s] + 1 /\ Head(seq) \in Recorded
  BY <1>2, <1>4, NumberedTail, HeadTail DEF seq
<1>6. Head(seq).n \in 1 .. Len(log) /\ StatesOf(Head(seq).body) = log[Head(seq).n]
  BY <1>3, <1>5 DEF Recorded
<1>7. Head(seq) \in Entries(ArduinoMessages) /\ Len(log) \in Nat
  BY <1>3, <1>5, LenProperties DEF Recorded
<1> QED
  BY <1>2, <1>4, <1>5, <1>6, <1>7 DEF buffer

LEMMA OnWritePromised ==
  ASSUME HInv, DeliveryNext, NEW s \in Sessions, OnWrite(s)
  PROVE  Promised
<1> DEFINE w == SessionDoWrite(ws[s])
           report == Head(ws[s].buffer)
<1>1. /\ ws' = [ws EXCEPT ![s] = w] /\ UNCHANGED <<imq, popped>>
      /\ IF page[s].up THEN Receive(s, report) ELSE UNCHANGED pageVars
      /\ ws[s].writer = "writing"
  BY DEF OnWrite
<1>2. /\ ws[s].reader # "none" /\ ws[s].permissions # "Blocked"
      /\ Carries(w, Recorded) /\ Placed(w, page[s].up)
      /\ w.permissions = ws[s].permissions /\ w.reader = ws[s].reader
  BY <1>1, Writing
<1> HIDE DEF w
<1>3. CASE ~page[s].up
  BY <1>1, <1>2, <1>3, HandlerPromised DEF pageVars
<1>4. CASE page[s].up
  <2>1. /\ report \in Entries(ArduinoMessages)
        /\ report.n = last[s] + 1 /\ last[s] < Len(log)
        /\ StatesOf(report.body) = log[last[s] + 1]
    BY <1>1, <1>4, NextOfLog
  <2>2. log' = log
    BY <1>1, LogStep
  <2>3. \A r \in Sessions : ws'[r] = IF r = s THEN w ELSE ws[r]
    BY <1>1 DEF HInv, IInv, Typed
  <2> HIDE DEF report
  <2>4. /\ \A r \in Sessions : last'[r] = IF r = s THEN report.n ELSE last[r]
        /\ \A r \in Sessions : /\ page'[r].up = page[r].up
                               /\ page'[r].configured = page[r].configured
                               /\ r # s => page'[r] = page[r]
        /\ page'[s].shown =
              IF page[s].configured
              THEN [g \in GateIds |-> IF g \in DOMAIN StatesOf(report.body)
                                      THEN StatesOf(report.body)[g]
                                      ELSE page[s].shown[g]]
              ELSE page[s].shown
    BY <1>1, <1>4, <2>1, ReceiveTyped DEF HInv, IInv
  <2>5. History'
    BY <1>1, <1>2, <2>2, <2>3, <2>4, HistoryKept DEF HInv, History
  <2>6. UNCHANGED <<Waiting, Reading, Listening>>
    BY <1>2, <2>3, <2>4 DEF Waiting, Reading, Listening, Served, Born
  <2>7. s \in Reading /\ At[s] = last[s]
    BY <1>2, <1>4 DEF Reading, Served, Born, At
  <2>8. At' = [At EXCEPT ![s] = At[s] + 1]
    BY <1>2, <2>1, <2>3, <2>4, <2>7 DEF At
  <2>9. Shows' = IF s \in Listening
                 THEN [Shows EXCEPT ![s] = Abstract!Overlay(Shows[s], log[At[s] + 1])]
                 ELSE Shows
    BY <2>1, <2>4, <2>7 DEF Shows, Listening, Abstract!Overlay
  <2>10. Abstract!Show(s)
    BY <2>1, <2>2, <2>6, <2>7, <2>8, <2>9 DEF Abstract!Show
  <2> QED
    BY <2>5, <2>10 DEF Promised, Abstract!Next
<1> QED
  BY <1>3, <1>4

-----------------------------------------------------------------------------
\* The registry, the port and the clients.

\* add_session lets a page in where every other page has got, or earlier.
LEMMA UpgradePromised ==
  ASSUME HInv, DeliveryNext, NEW s \in Sessions,
         NEW permissions \in Permissions, Upgrade(s, permissions)
  PROVE  Promised
<1> DEFINE w == [ws[s] EXCEPT !.permissions = permissions,
                              !.reader = IF permissions = "Blocked"
                                         THEN "ended" ELSE "accepting"]
<1>1. /\ ws[s] \in WsObjects(ArduinoMessages) /\ ws[s].reader = "none"
      /\ Carries(ws[s], Recorded) /\ page[s].up
      /\ ws[s].writer = "none" /\ ws[s].permissions = "Blocked"
  BY DEF HInv, IInv, Typed, History, SessionsSound, Sound, Placed, Upgrade, Born
<1>2. /\ ws' = [ws EXCEPT ![s] = w] /\ w.permissions = permissions
      /\ w.reader = IF permissions = "Blocked" THEN "ended" ELSE "accepting"
      /\ w.writer = "none" /\ Carries(w, Recorded)
  BY <1>1 DEF WsObjects, Carries, Upgrade
<1> HIDE DEF w
<1>3. /\ UNCHANGED <<imq, popped, page>>
      /\ last' = [last EXCEPT ![s] = popped]
  BY DEF Upgrade
<1>4. log' = log
  BY <1>3, LogStep
<1>5. /\ \A r \in Sessions : ws'[r] = IF r = s THEN w ELSE ws[r]
      /\ \A r \in Sessions : last'[r] = IF r = s THEN popped ELSE last[r]
  BY <1>2, <1>3 DEF HInv, IInv, Typed
<1>6. History'
  <2>1. Placed(w, page[s].up)
    BY <1>2 DEF Placed
  <2> QED
    BY <1>2, <1>3, <1>4, <1>5, <2>1, HistoryKept DEF HInv, History
<1>7. s \in Waiting /\ s \notin Reading /\ Waiting' = Waiting \ {s}
  BY <1>1, <1>2, <1>5 DEF Waiting, Reading, Served, Born
<1>8. UNCHANGED <<Listening, Shows>>
  BY <1>3 DEF Listening, Shows
<1>9. CASE permissions = "Blocked"
  <2>1. Reading' = Reading \ {s}
    BY <1>2, <1>3, <1>5, <1>9 DEF Reading, Served, Born
  <2>2. At' = At
    BY <1>1, <1>2, <1>5, <1>9 DEF At
  <2> QED
    BY <1>4, <1>6, <1>7, <1>8, <2>1, <2>2 DEF Promised, Abstract!Next, Abstract!Leave
<1>10. CASE permissions # "Blocked"
  <2>1. Reading' = Reading \cup {s}
    BY <1>1, <1>2, <1>3, <1>5, <1>10 DEF Reading, Served, Born
  <2>2. At' = [At EXCEPT ![s] = popped]
    <3>1. \A r \in Sessions : At'[r] = IF r = s THEN popped ELSE At[r]
      BY <1>2, <1>5, <1>10 DEF At
    <3>2. /\ At = [r \in Sessions |-> At[r]]
          /\ At' = [r \in Sessions |-> At'[r]]
      BY DEF At
    <3> QED
      BY <3>1, <3>2
  <2>3. popped \in 0 .. Len(log)
    BY DEF HInv, IInv, Typed, History
  <2>4. ASSUME NEW other \in Reading PROVE At[other] <= popped
    <3>1. /\ Numbered(ws[other].buffer \o ws[other].queue, last[other], popped)
          /\ ws[other].buffer \in Seq(Recorded) /\ ws[other].queue \in Seq(Recorded)
          /\ last[other] \in Nat /\ popped \in Nat
          /\ other \in Sessions /\ At[other] = last[other]
      BY <2>4 DEF HInv, IInv, Typed, History, Carries, SessionsSound, Sound,
                  Reading, Served, Born, At
    <3> DEFINE pending == Len(ws[other].buffer \o ws[other].queue)
    <3>2. pending \in Nat
      BY <3>1, ConcatProperties, LenProperties
    <3>3. last[other] + pending = popped
      BY <3>1 DEF Numbered
    <3>4. last[other] \in Nat /\ popped \in Nat /\ At[other] = last[other]
      BY <3>1
    <3> HIDE DEF pending
    <3> QED
      BY <3>2, <3>3, <3>4
  <2>5. Abstract!Join(s)
    BY <1>4, <1>7, <1>8, <2>1, <2>2, <2>3, <2>4 DEF Abstract!Join
  <2> QED
    BY <1>6, <2>5 DEF Promised, Abstract!Next
<1> QED
  BY <1>9, <1>10

LEMMA ConfigLoadedPromised ==
  ASSUME HInv, DeliveryNext, NEW s \in Sessions, ConfigLoaded(s)
  PROVE  Promised
<1>1. /\ UNCHANGED <<ws, imq, popped, last>>
      /\ page' = [page EXCEPT ![s].configured = TRUE]
      /\ page \in [Sessions -> PageObjects(ArduinoMessages)]
  BY DEF ConfigLoaded, serverVars, HInv, IInv, Typed
<1>2. /\ \A r \in Sessions : page'[r].up = page[r].up /\ page'[r].shown = page[r].shown
      /\ \A r \in Sessions : page'[r].configured <=> page[r].configured \/ r = s
  BY <1>1 DEF PageObjects
<1>3. log' = log
  BY <1>1, LogStep
<1>4. History'
  BY <1>1, <1>2, <1>3, HistoryKept DEF HInv, History
<1>5. /\ UNCHANGED <<Waiting, Reading, At, Shows>>
      /\ Listening' = Listening \cup {s}
  BY <1>1, <1>2 DEF Waiting, Reading, At, Shows, Listening, Served, Born
<1> QED
  BY <1>3, <1>4, <1>5 DEF Promised, Abstract!Next, Abstract!Listen

LEMMA DisconnectPromised ==
  ASSUME HInv, DeliveryNext, NEW s \in Sessions, Disconnect(s)
  PROVE  Promised
<1>1. /\ UNCHANGED <<ws, imq, popped, last>>
      /\ page' = [page EXCEPT ![s].up = FALSE]
      /\ page \in [Sessions -> PageObjects(ArduinoMessages)]
      /\ ws[s].reader # "none"
  BY DEF Disconnect, Born, serverVars, HInv, IInv, Typed
<1>2. /\ \A r \in Sessions : /\ page'[r].configured = page[r].configured
                             /\ page'[r].shown = page[r].shown
      /\ \A r \in Sessions : page'[r].up <=> page[r].up /\ r # s
  BY <1>1 DEF PageObjects
<1>3. log' = log
  BY <1>1, LogStep
<1>4. History'
  BY <1>1, <1>2, <1>3, HistoryKept DEF HInv, History, Placed
<1>5. /\ UNCHANGED <<At, Shows, Listening>>
      /\ Waiting' = Waiting \ {s} /\ Reading' = Reading \ {s}
  BY <1>1, <1>2 DEF Waiting, Reading, At, Shows, Listening, Served, Born
<1> QED
  BY <1>3, <1>4, <1>5 DEF Promised, Abstract!Next, Abstract!Leave

\* update hands out the report that has waited longest: the log stays as it is.
LEMMA UpdatePromised ==
  ASSUME HInv, DeliveryNext, Update
  PROVE  Promised
<1> DEFINE live == {s \in sessions : ~Expired(s)}
           report == Head(imq)
<1>1. CASE UNCHANGED <<ws, imq, popped>>
  BY <1>1, OutOfSight DEF Update, pageVars
<1>2. CASE ~UNCHANGED <<ws, imq, popped>>
  <2>1. /\ imq # <<>> /\ imq' = Tail(imq) /\ popped' = popped + 1
        /\ ws' = [s \in Sessions |->
                   IF s \in live
                   THEN [ws[s] EXCEPT !.queue = Append(ws[s].queue, report)]
                   ELSE ws[s]]
        /\ UNCHANGED <<page, last>>
    BY <1>2 DEF Update, pageVars
  <2>2. imq \in Seq(Recorded) /\ popped \in Nat
    BY DEF HInv, History, IInv, Typed
  <2>3. /\ report \in Recorded /\ imq' \in Seq(Recorded)
        /\ popped' + Len(imq') = popped + Len(imq)
    BY <2>1, <2>2, HeadTailProperties
  <2>4. log' = log
    BY <2>3, LogStep
  <2> HIDE DEF report, live
  <2>5. ASSUME NEW s \in Sessions
        PROVE  /\ Carries(ws'[s], Recorded)
               /\ ws'[s].reader = ws[s].reader /\ ws'[s].writer = ws[s].writer
               /\ ws'[s].permissions = ws[s].permissions
    <3> DEFINE queue == Append(ws[s].queue, report)
    <3>1. /\ ws[s] \in WsObjects(ArduinoMessages) /\ Carries(ws[s], Recorded)
      BY DEF HInv, IInv, Typed, History
    <3>2. queue \in Seq(Recorded)
      BY <2>3, <3>1, AppendProperties DEF Carries
    <3>3. ws'[s] = ws[s] \/ ws'[s] = [ws[s] EXCEPT !.queue = queue]
      BY <2>1
    <3> HIDE DEF queue
    <3> QED
      BY <3>1, <3>2, <3>3 DEF Carries, WsObjects
  <2>6. History'
    BY <2>1, <2>3, <2>4, <2>5, HistoryKept DEF HInv, History, Placed
  <2>7. UNCHANGED Seen
    BY <2>1, <2>4, <2>5, NothingSeen
  <2> QED
    BY <2>6, <2>7 DEF Promised
<1> QED
  BY <1>1, <1>2

\* arduino_messenger::on_read publishes what it has parsed.
LEMMA ComOnReadPromised ==
  ASSUME HInv, DeliveryNext, NEW k \in 0 .. Len(tx), NEW more \in BOOLEAN,
         ComOnRead(k, more)
  PROVE  Promised
<1>1. UNCHANGED <<ws, popped, page, last>>
  BY DEF ComOnRead, pageVars
<1>2. CASE imq' = imq
  BY <1>1, <1>2, OutOfSight
<1>3. CASE imq' # imq
  <2>1. PICK type \in StrToType(Head(tx).type) :
          imq' = Append(imq, [n |-> popped + Len(imq) + 1, type |-> type, body |-> Head(tx)])
    BY <1>3 DEF ComOnRead
  <2> DEFINE e == [n |-> popped + Len(imq) + 1, type |-> type, body |-> Head(tx)]
             report == StatesOf(Head(tx))
  <2>2. /\ imq \in Seq(Recorded) /\ log \in Seq(Reports) /\ tx \in Seq(ArduinoMessages)
        /\ Len(log) = popped + Len(imq) /\ popped \in Nat /\ Len(imq) \in Nat
    BY DEF HInv, History, IInv, Typed
  <2>3. Head(tx) \in ArduinoMessages /\ type \in MessageType
    <3>1. k = 1
      BY <1>3 DEF ComOnRead
    <3>2. Head(tx) \in ArduinoMessages
      BY <2>2, <3>1
    <3> QED
      BY <2>1, <3>2 DEF StrToType
  <2>4. e \in Entries(ArduinoMessages) /\ e.n = Len(log) + 1 /\ e.body = Head(tx)
    BY <2>2, <2>3 DEF Entries
  <2>5. report \in Reports
    BY <2>3 DEF Reports
  <2> HIDE DEF e, report
  <2>6. imq' = Append(imq, e)
    BY <2>1 DEF e
  <2>7. Len(imq') = Len(imq) + 1 /\ imq'[Len(imq')] = e
    <3>1. imq \in Seq(Entries(ArduinoMessages))
      BY DEF HInv, IInv, Typed
    <3> QED
      BY <2>4, <2>6, <3>1, AppendProperties
  <2>8. log' = Append(log, report)
    BY <1>1, <2>4, <2>7, LogStep DEF report
  <2>9. /\ Recorded \subseteq Recorded' /\ log' \in Seq(Reports)
        /\ \A seq \in Seq(Recorded) : seq \in Seq(Recorded')
        /\ \A w : Carries(w, Recorded) => Carries(w, Recorded')
    BY <2>2, <2>5, <2>8, RecordedGrows
  <2>10. e \in Recorded'
    <3>1. Len(log') = Len(log) + 1 /\ log'[Len(log) + 1] = report /\ Len(log) \in Nat
      BY <2>2, <2>5, <2>8, AppendProperties, LenProperties
    <3>2. e.n \in DOMAIN log'
      BY <2>4, <2>9, <3>1
    <3> QED
      BY <2>4, <3>1, <3>2 DEF Recorded, report
  <2>11. imq' \in Seq(Recorded')
    BY <2>2, <2>6, <2>9, <2>10, AppendProperties
  <2>12. Len(log') = popped' + Len(imq')
    BY <1>1, <2>2, <2>5, <2>7, <2>8, AppendProperties
  <2>13. History'
    BY <1>1, <2>9, <2>11, <2>12 DEF HInv, History
  <2>14. UNCHANGED <<Waiting, Reading, At, Listening, Shows>>
    BY <1>1 DEF Waiting, Reading, At, Listening, Shows, Served, Born
  <2> QED
    BY <2>5, <2>8, <2>13, <2>14 DEF Promised, Abstract!Next, Abstract!Publish
<1> QED
  BY <1>2, <1>3

-----------------------------------------------------------------------------
LEMMA NextPromised == HInv /\ [DeliveryNext]_deliveryVars => HInv' /\ Promised
<1> SUFFICES ASSUME HInv, [DeliveryNext]_deliveryVars
             PROVE  HInv' /\ Promised
  OBVIOUS
<1>1. IInv(ArduinoMessages)'
  BY NextIInv DEF HInv, DeliveryNext, deliveryVars
<1>2. CASE UNCHANGED deliveryVars
  <2>1. UNCHANGED <<ws, imq, popped, page, last, log>>
    BY <1>2 DEF deliveryVars, vars, serverVars, pageVars
  <2>2. History' /\ UNCHANGED Seen
    BY <2>1 DEF HInv, History, Recorded, Seen, Waiting, Reading, At, Listening, Shows,
                Served, Born
  <2> QED
    BY <1>1, <2>2 DEF HInv, Promised
<1>3. CASE DeliveryNext
  <2>1. ASSUME \/ ComDoWrite \/ ComOnWrite \/ ComOnWriteError \/ ComOnReadError
               \/ Unplug \/ Board
        PROVE  Promised
    <3>1. UNCHANGED <<ws, imq, popped, page, last>>
      BY <2>1 DEF ComDoWrite, ComOnWrite, ComOnWriteError, ComOnReadError, Unplug, Board,
                  BoardReads, BoardWrites, serverVars, pageVars
    <3> QED
      BY <1>3, <3>1, OutOfSight
  <2>2. ASSUME NEW s \in Sessions, Clients(s)
        PROVE  Promised
    <3>1. CASE \E permissions \in PermissionsOf[s] : Upgrade(s, permissions)
      <4>1. PermissionsOf[s] \subseteq Permissions
        BY BridgeAssumption DEF Permissions
      <4> QED
        BY <1>3, <3>1, <4>1, UpgradePromised
    <3>2. ASSUME NEW msg \in ClientMessages, OnRead(s, msg)
          PROVE  Promised
      BY <1>3, <3>2, OutOfSight DEF OnRead, pageVars
    <3> QED
      BY <1>3, <2>2, <3>1, <3>2, ConfigLoadedPromised, DisconnectPromised DEF Clients
  <2>3. ASSUME NEW s \in Sessions, Session(s)
        PROVE  Promised
    BY <1>3, <2>3, OnAcceptPromised, EndPromised, DoWritePromised, OnWritePromised
       DEF Session
  <2>4. Promised
    BY <1>3, <2>1, <2>2, <2>3, UpdatePromised, ComOnReadPromised
       DEF DeliveryNext, Next, Server, Com
  <2> QED
    BY <1>1, <2>4 DEF HInv, Promised
<1> QED
  BY <1>2, <1>3

\* arduino_messenger, common_state and websocket_session keep the promise of
\* Broadcast: an open page is shown every report that the server has taken off
\* the line since the page was let in, one after the other, whatever the threads
\* of the pool do and whoever else comes, fails and goes.
THEOREM DeliveryImplementsBroadcast == DeliverySpec => ImplementsBroadcast
<1>1. DeliveryInit => HInv /\ Abstract!Init
  <2> SUFFICES ASSUME DeliveryInit
               PROVE  HInv /\ Abstract!Init
    OBVIOUS
  <2>1. /\ log = <<>> /\ imq = <<>> /\ popped = 0
        /\ \A s \in Sessions : /\ ws[s].permissions = "Blocked" /\ ws[s].reader = "none"
                               /\ ws[s].writer = "none"
                               /\ ws[s].buffer = <<>> /\ ws[s].queue = <<>>
                               /\ page[s].up /\ last[s] = 0
                               /\ page[s].shown = [g \in GateIds |-> "connecting"]
    BY DEF DeliveryInit, Init
  <2>2. <<>> \in Seq(Recorded) /\ <<>> \in Seq(Reports) /\ Len(<<>>) = 0
    BY EmptySeq
  <2>3. History
    <3>1. ASSUME NEW s \in Sessions
          PROVE  Carries(ws[s], Recorded) /\ Placed(ws[s], page[s].up)
      BY <2>1, <2>2 DEF Carries, Placed
    <3>2. Len(log) = popped + Len(imq)
      BY <2>1, <2>2
    <3> QED
      BY <2>1, <2>2, <3>1, <3>2 DEF History
  <2>4. IInv(ArduinoMessages)
    BY InitIInv DEF DeliveryInit
  <2>5. Abstract!Init
    BY <2>1 DEF Abstract!Init, Waiting, Reading, At, Listening, Shows, Served, Born
  <2> QED
    BY <2>3, <2>4, <2>5 DEF HInv
<1>2. HInv /\ [DeliveryNext]_deliveryVars => [Abstract!Next]_(Abstract!vars)
  BY NextPromised DEF Promised, Seen, Abstract!vars
<1>3. HInv /\ [DeliveryNext]_deliveryVars => HInv'
  BY NextPromised
<1> QED
  BY <1>1, <1>2, <1>3, PTL DEF DeliverySpec, ImplementsBroadcast, Abstract!Spec
=============================================================================

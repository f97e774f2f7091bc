----------------------------- MODULE JobEvents -----------------------------
(***************************************************************************)
(* The event stream of one build job: the per-client queues that a         *)
(* JobManager fans events out to (web/jobs/manager.py), what               *)
(* run_ensure_job and its log tail publish (web/jobs/runners.py), the      *)
(* GET /jobs/{id}/events handler that opens a stream and the cancel        *)
(* handler that closes the streams of a canceled job (web/routes/jobs.py). *)
(*                                                                         *)
(* Everything here runs on the event loop except the worker thread, which  *)
(* only appends to the log file.  A step is a stretch between two awaits.  *)
(***************************************************************************)
EXTENDS Naturals, Sequences

CONSTANTS
    Viewers,     \* clients that open the event stream
    Capacity,    \* asyncio.Queue(maxsize=1000)
    MaxLines     \* bound: lines the build writes to its log

ASSUME EventAssumption ==
    /\ Capacity \in Nat \ {0}
    /\ MaxLines \in Nat

VARIABLES
    jobRow,      \* the job's row: "active", "canceled" or "ended"
    runner,      \* where run_ensure_job stands
    written,     \* lines the build has written to the log file
    offset,      \* lines the tail has read from it
    stream,      \* state of each client's stream
    queue,       \* queue of each open stream
    got,         \* history: what each client was sent
    dropped,     \* history: an event was dropped for a client
    from         \* history: lines already published when a client joined

vars == <<jobRow, runner, written, offset, stream, queue, got, dropped, from>>

-----------------------------------------------------------------------------
Sentinel == "sentinel"

\* Log lines are numbered; "running", "final" (the last status) and "result"
\* are the other events.
Events  == (1..MaxLines) \X {"log"} \union {<<0, "running">>, <<0, "result">>, <<0, "final">>}
Items   == Events \union {<<0, Sentinel>>}

Open == {c \in Viewers : stream[c] = "open"}

\* put_nowait for each event of es in turn; what a full queue refuses
\* (QueueFull) is dropped.
OfferAll(q, es) ==
    LET room == Capacity - Len(q)
    IN  q \o SubSeq(es, 1, IF Len(es) < room THEN Len(es) ELSE room)

\* Mutant of OfferSentinel: the sentinel is dropped as any other event is.
OfferSentinelIfRoom(q) == IF Len(q) < Capacity THEN Append(q, <<0, Sentinel>>) ELSE q

\* publish_sentinel: make room by draining the oldest event.
OfferSentinel(q) ==
    Append(IF Len(q) < Capacity THEN q ELSE Tail(q), <<0, Sentinel>>)

LogLines(a, b) == [i \in 1..(b - a) |-> <<a + i, "log">>]

\* publish_event for every event of es, to every subscriber.
Publish(es) ==
    /\ queue' = [c \in Viewers |-> IF c \in Open THEN OfferAll(queue[c], es) ELSE queue[c]]
    /\ dropped' = [c \in Viewers |->
                      dropped[c] \/ (c \in Open /\ Len(queue[c]) + Len(es) > Capacity)]

\* publish_event for every event of es, then publish_sentinel.
PublishAndEnd(es) ==
    /\ queue' = [c \in Viewers |-> IF c \in Open THEN OfferSentinel(OfferAll(queue[c], es))
                                                 ELSE queue[c]]
    /\ dropped' = [c \in Viewers |->
                      dropped[c] \/ (c \in Open /\ Len(queue[c]) + Len(es) >= Capacity)]

-----------------------------------------------------------------------------
Init ==
    /\ jobRow = "active"
    /\ runner = "scheduled"
    /\ written = 0
    /\ offset = 0
    /\ stream = [c \in Viewers |-> "none"]
    /\ queue = [c \in Viewers |-> <<>>]
    /\ got = [c \in Viewers |-> <<>>]
    /\ dropped = [c \in Viewers |-> FALSE]
    /\ from = [c \in Viewers |-> 0]

\* run_ensure_job up to its first await, for a job canceled while queued ...
SkipCanceled ==
    /\ runner = "scheduled"
    /\ jobRow = "canceled"
    /\ runner' = "done"
    /\ PublishAndEnd(<< <<0, "final">> >>)
    /\ UNCHANGED <<jobRow, written, offset, stream, got, from>>

\* ... and for any other.
Start ==
    /\ runner = "scheduled"
    /\ jobRow # "canceled"
    /\ runner' = "thread"
    /\ Publish(<< <<0, "running">> >>)
    /\ UNCHANGED <<jobRow, written, offset, stream, got, from>>

\* The build appends a line to the log file.
WriteLog ==
    /\ runner = "thread"
    /\ written < MaxLines
    /\ written' = written + 1
    /\ UNCHANGED <<jobRow, runner, offset, stream, queue, got, dropped, from>>

\* One round of _tail_log: publish what was appended since the last round.
TailLog ==
    /\ runner \in {"thread", "returned"}
    /\ offset < written
    /\ Publish(LogLines(offset, written))
    /\ offset' = written
    /\ UNCHANGED <<jobRow, runner, written, stream, got, from>>

ThreadEnds ==
    /\ runner = "thread"
    /\ runner' = "returned"
    /\ UNCHANGED <<jobRow, written, offset, stream, queue, got, dropped, from>>

\* The coroutine resumes, records the outcome, publishes it and cancels the
\* tail.  A built job's status follows its result and a crashed build's an
\* error ("result" stands for both); the other endings have a status only.
RecordOutcome ==
    /\ runner = "returned"
    /\ runner' = "finishing"
    /\ jobRow' = IF jobRow = "canceled" THEN jobRow ELSE "ended"
    /\ \/ Publish(<< <<0, "final">> >>)
       \/ jobRow # "canceled" /\ Publish(<< <<0, "result">>, <<0, "final">> >>)
    /\ UNCHANGED <<written, offset, stream, got, from>>

\* Mutants of FlushAndEnd: the flush starts at the top of the file; it is
\* left out.
FlushFromTop ==
    /\ runner = "finishing"
    /\ runner' = "done"
    /\ PublishAndEnd(LogLines(0, written))
    /\ offset' = written
    /\ UNCHANGED <<jobRow, written, stream, got, from>>

EndUnflushed ==
    /\ runner = "finishing"
    /\ runner' = "done"
    /\ PublishAndEnd(<<>>)
    /\ UNCHANGED <<jobRow, written, offset, stream, got, from>>

\* The finally block after the tail was awaited: _flush_remaining from the
\* tail's offset, then the sentinel.
FlushAndEnd ==
    /\ runner = "finishing"
    /\ runner' = "done"
    /\ PublishAndEnd(LogLines(offset, written))
    /\ offset' = written
    /\ UNCHANGED <<jobRow, written, stream, got, from>>

\* The cancel handler: only a row that is still active is canceled, and its
\* streams are ended at once.
Cancel ==
    /\ jobRow = "active"
    /\ jobRow' = "canceled"
    /\ PublishAndEnd(<<>>)
    /\ UNCHANGED <<runner, written, offset, stream, got, from>>

-----------------------------------------------------------------------------
\* GET /jobs/{id}/events: the row exists, so the response is returned; the
\* queue is registered only when the response body is first iterated.
Accept(c) ==
    /\ stream[c] = "none"
    /\ stream' = [stream EXCEPT ![c] = "accepted"]
    /\ UNCHANGED <<jobRow, runner, written, offset, queue, got, dropped, from>>

Subscribe(c) ==
    /\ stream[c] = "accepted"
    /\ stream' = [stream EXCEPT ![c] = "open"]
    /\ queue' = [queue EXCEPT ![c] = <<>>]
    /\ from' = [from EXCEPT ![c] = offset]
    /\ UNCHANGED <<jobRow, runner, written, offset, got, dropped>>

\* The generator takes one item: an event is yielded, the sentinel ends the
\* stream and unregisters the queue.
Consume(c) ==
    /\ stream[c] = "open"
    /\ queue[c] # <<>>
    /\ IF Head(queue[c]) = <<0, Sentinel>>
       THEN /\ stream' = [stream EXCEPT ![c] = "ended"]
            /\ queue' = [queue EXCEPT ![c] = <<>>]
            /\ UNCHANGED got
       ELSE /\ queue' = [queue EXCEPT ![c] = Tail(@)]
            /\ got' = [got EXCEPT ![c] = Append(@, Head(queue[c]))]
            /\ UNCHANGED stream
    /\ UNCHANGED <<jobRow, runner, written, offset, dropped, from>>

\* The client goes away: the generator is closed and its queue unregistered.
Disconnect(c) ==
    /\ stream[c] \in {"accepted", "open"}
    /\ stream' = [stream EXCEPT ![c] = "gone"]
    /\ queue' = [queue EXCEPT ![c] = <<>>]
    /\ UNCHANGED <<jobRow, runner, written, offset, got, dropped, from>>

Runner == SkipCanceled \/ Start \/ ThreadEnds \/ RecordOutcome \/ FlushAndEnd

Next ==
    \/ Runner
    \/ WriteLog
    \/ TailLog
    \/ Cancel
    \/ \E c \in Viewers : Accept(c) \/ Subscribe(c) \/ Consume(c) \/ Disconnect(c)

\* The event loop runs the job's coroutine and every ready stream; the build
\* thread ends.  Clients need not connect, disconnect or cancel.
Fairness ==
    /\ WF_vars(Runner)
    /\ \A c \in Viewers : WF_vars(Subscribe(c)) /\ WF_vars(Consume(c))

Spec == Init /\ [][Next]_vars

FairSpec == Spec /\ Fairness

-----------------------------------------------------------------------------
\* Every variable keeps its type, and no queue grows past its capacity.
TypeOK ==
    /\ jobRow \in {"active", "canceled", "ended"}
    /\ runner \in {"scheduled", "thread", "returned", "finishing", "done"}
    /\ written \in 0..MaxLines
    /\ offset \in 0..written
    /\ stream \in [Viewers -> {"none", "accepted", "open", "ended", "gone"}]
    /\ queue \in [Viewers -> Seq(Items)]
    /\ \A c \in Viewers : Len(queue[c]) <= Capacity
    /\ got \in [Viewers -> Seq(Events)]
    /\ dropped \in [Viewers -> BOOLEAN]
    /\ from \in [Viewers -> 0..MaxLines]

\* The numbers of the log lines in a sequence of events, and that they grow.
Lines(es) == {es[i][1] : i \in {j \in DOMAIN es : es[j][2] = "log"}}

LinesOrdered(es) ==
    \A i, j \in DOMAIN es : i < j /\ es[i][2] = "log" /\ es[j][2] = "log" => es[i][1] < es[j][1]

\* A client is never sent a log line twice or out of order, although two
\* readers (the tail, and the flush that follows it) publish the same file.
LogInOrder == \A c \in Viewers : LinesOrdered(got[c] \o queue[c])

\* A client whose queue never overflowed and whose stream the runner ended
\* was sent every line published since it joined, up to the last one of the
\* build, once and in order: the hand-over from the tail to the flush loses
\* nothing.
CompleteStream ==
    \A c \in Viewers :
        stream[c] = "ended" /\ jobRow = "ended" /\ ~dropped[c]
            => LinesOrdered(got[c]) /\ Lines(got[c]) = (from[c] + 1)..written

\* A stream that is open before the runner ends, ends too: the sentinel gets
\* through a full queue ("missing the termination signal would leave clients
\* hanging", manager.py:101).
EarlyStreamEnds ==
    \A c \in Viewers :
        (stream[c] = "open" /\ runner # "done") ~> (stream[c] \in {"ended", "gone"})

\* The same for every stream, whenever it was opened.
EveryStreamEnds ==
    \A c \in Viewers : stream[c] = "open" ~> (stream[c] \in {"ended", "gone"})

=============================================================================

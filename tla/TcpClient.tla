------------------------------- MODULE TcpClient -------------------------------
(***************************************************************************)
(* The proxy's TCP client easy_tcp::CTcpClient: caller threads in          *)
(* ExecuteRequest and ExecuteRequestAsync, the thread m_async_worker that  *)
(* runs the io_service, and one connection.  The server answers requests   *)
(* in the order it gets them, if at all; it is external, and so is the     *)
(* network.                                                                *)
(*                                                                         *)
(* A response is two pieces of the byte stream, its header and its body,   *)
(* and carries the number of the request it answers, which the program     *)
(* cannot see: a reader takes whatever comes next.  What it makes of a     *)
(* piece it should not have got is Garbage.                                *)
(***************************************************************************)
EXTENDS Integers, Sequences

CONSTANTS
    Threads,       \* caller threads
    MaxRequests,   \* bound: calls
    MaxFaults      \* bound: broken connections and short reads

Reqs == 1..MaxRequests

ASSUME MaxRequestsAssumption == MaxRequests \in Nat \ {0}
ASSUME MaxFaultsAssumption == MaxFaults \in Nat
ASSUME ThreadsAssumption == "free" \notin Threads

VARIABLES
    created,     \* m_created
    link,        \* external: the connection
    stream,      \* external: pieces that have arrived and are not read
    outbox,      \* external: answers the server owes, [req, part to send next]
    mutex,       \* holder of m_socket_write_mutex, or "free"
    inProgress,  \* m_async_request_in_progress
    reads,       \* async_read_some operations queued at the socket
    aborted,     \* requests whose read was cancelled, handler not yet run
    io,          \* what the io thread is doing
    call,        \* per thread: the call it is in
    dangling,    \* per thread: handlers that refer to a stack frame it has left
    answer,      \* per synchronous request: what it returned
    calls,       \* per asynchronous request: how often its callback ran ...
    ok,          \* ... and whether it was given a response
    clean,       \* history: synchronous requests sent while nothing was under way
    next, faults

vars == <<created, link, stream, outbox, mutex, inProgress, reads, aborted, io,
          call, dangling, answer, calls, ok, clean, next, faults>>

external == <<link, stream, outbox>>
outcome  == <<answer, calls, ok>>
bounds   == <<next, faults>>

Failed   == 0      \* no response: ExecuteRequest returns 0
Garbage  == -1
Pending  == -2     \* the call has not returned, or is asynchronous

Idle    == [at |-> "idle", req |-> 0, async |-> FALSE, timed |-> FALSE,
            done |-> FALSE, failed |-> FALSE, expired |-> FALSE, got |-> 0]
Running == [at |-> "run", req |-> 0, got |-> 0]

HeaderIn(piece) == IF piece.part = "header" THEN piece.req ELSE Garbage

Fault == faults < MaxFaults /\ faults' = faults + 1

Init ==
    /\ created = FALSE
    /\ link = "down"
    /\ stream = <<>>
    /\ outbox = <<>>
    /\ mutex = "free"
    /\ inProgress = FALSE
    /\ reads = <<>>
    /\ aborted = <<>>
    /\ io = Running
    /\ call = [t \in Threads |-> Idle]
    /\ dangling = [t \in Threads |-> 0]
    /\ answer = [r \in Reqs |-> Pending]
    /\ calls = [r \in Reqs |-> 0]
    /\ ok = [r \in Reqs |-> FALSE]
    /\ clean = {}
    /\ next = 1
    /\ faults = 0

-----------------------------------------------------------------------------
(* The server and the network (external).                                  *)

\* The next piece of an answer arrives.
Deliver ==
    /\ link = "up"
    /\ outbox # <<>>
    /\ stream' = Append(stream, Head(outbox))
    /\ outbox' = IF Head(outbox).part = "header"
                   THEN <<[Head(outbox) EXCEPT !.part = "body"]>> \o Tail(outbox)
                   ELSE Tail(outbox)
    /\ UNCHANGED <<created, link, mutex, inProgress, reads, aborted, io, call,
                   dangling, outcome, clean, bounds>>

\* An answer that has begun to arrive arrives whole.
Complete == outbox # <<>> /\ Head(outbox).part = "body" /\ Deliver

Break ==
    /\ link = "up"
    /\ Fault
    /\ link' = "broken"
    /\ outbox' = <<>>
    /\ UNCHANGED <<created, stream, mutex, inProgress, reads, aborted, io, call,
                   dangling, outcome, clean, next>>

-----------------------------------------------------------------------------
(* Create and Destroy.  Nothing guards them against calls of other         *)
(* threads; callers are assumed to keep them apart.                        *)

Quiet == \A t \in Threads : call[t].at = "idle"

\* A failed connect leaves the object created as well.
Create ==
    /\ ~created
    /\ Quiet
    /\ created' = TRUE
    /\ \/ link' = "up" /\ UNCHANGED faults
       \/ Fault /\ link' = "broken"
    /\ UNCHANGED <<stream, outbox, mutex, inProgress, reads, aborted, io, call,
                   dangling, outcome, clean, next>>

\* The socket is closed, the io_service stopped and its thread joined: a thread
\* inside the blocking read of a body is waited for.  Handlers that have not
\* run are dropped.
Destroy ==
    /\ created
    /\ Quiet
    /\ io = Running
    /\ created' = FALSE
    /\ link' = "down"
    /\ stream' = <<>> /\ outbox' = <<>>
    /\ reads' = <<>> /\ aborted' = <<>>
    /\ dangling' = [t \in Threads |-> 0]
    /\ inProgress' = FALSE
    /\ UNCHANGED <<mutex, io, call, outcome, clean, bounds>>

-----------------------------------------------------------------------------
(* Callers.                                                                *)

Goto(t, point) == call' = [call EXCEPT ![t].at = point]

\* End of a call and of the mutex's guard.
Return(t) == call' = [call EXCEPT ![t] = Idle] /\ mutex' = "free"

Callback(r) == calls' = [calls EXCEPT ![r] = @ + 1] /\ inProgress' = FALSE

\* m_socket->cancel() ends every operation queued at the socket, those of
\* asynchronous requests too, whose handlers are run in the order of the queue.
Cancel(t) ==
    /\ \E n \in 0..Len(reads) : \E place \in [1..n -> DOMAIN reads] :
          /\ \A i, j \in 1..n : i < j => place[i] < place[j]
          /\ {place[i] : i \in 1..n} = {i \in DOMAIN reads : reads[i].async}
          /\ aborted' = aborted \o [i \in 1..n |-> reads[place[i]]]
    /\ reads' = <<>>

\* Handlers that outlive the frame they refer to: that of a read just cancelled,
\* and one that was about to run, of the timer or of a read that was complete.
LeaveFrame(t, pending) ==
    \E late \in {0, 1} : dangling' = [dangling EXCEPT ![t] = @ + pending + late]

ReadPosted(t) ==
    IF \E i \in DOMAIN reads : reads[i] = [req |-> call[t].req, async |-> FALSE]
      THEN 1 ELSE 0

\* An asynchronous request on an object that was not created goes on to a null
\* socket; callers are assumed not to make one.  Its timeout is not used.
Call(t, async, timed) ==
    /\ call[t].at = "idle"
    /\ next \in Reqs
    /\ next' = next + 1
    /\ async => created /\ ~timed
    /\ call' = [call EXCEPT ![t] = [Idle EXCEPT !.at = "lock", !.req = next,
                                                !.async = async, !.timed = timed]]
    /\ UNCHANGED <<created, external, mutex, inProgress, reads, aborted, io,
                   dangling, outcome, clean, faults>>

Lock_NoWait(t) ==
    /\ call[t].at = "lock"
    /\ mutex' = t
    /\ Goto(t, IF call[t].async THEN "admit" ELSE "send")
    /\ UNCHANGED <<created, external, inProgress, reads, aborted, io, dangling,
                   outcome, clean, bounds>>

Lock(t) ==
    /\ call[t].at = "lock"
    /\ mutex = "free"
    /\ mutex' = t
    /\ Goto(t, IF call[t].async THEN "admit" ELSE "send")
    /\ UNCHANGED <<created, external, inProgress, reads, aborted, io, dangling,
                   outcome, clean, bounds>>

\* ExecuteRequest without a connection object.
NotCreated(t) ==
    /\ call[t].at = "send"
    /\ ~call[t].async
    /\ ~created
    /\ answer' = [answer EXCEPT ![call[t].req] = Failed]
    /\ Return(t)
    /\ UNCHANGED <<created, external, inProgress, reads, aborted, io, dangling,
                   calls, ok, clean, bounds>>

\* ExecuteRequestAsync: the flag is taken and the read posted before anything is
\* sent.
Admit(t) ==
    /\ call[t].at = "admit"
    /\ ~inProgress
    /\ inProgress' = TRUE
    /\ reads' = Append(reads, [req |-> call[t].req, async |-> TRUE])
    /\ Goto(t, "send")
    /\ UNCHANGED <<created, external, mutex, aborted, io, dangling, outcome,
                   clean, bounds>>

\* Another request is in progress: the callback is run, and with it the flag of
\* the other request is cleared.
Reject(t) ==
    /\ call[t].at = "admit"
    /\ inProgress
    /\ Callback(call[t].req)
    /\ Return(t)
    /\ UNCHANGED <<created, external, reads, aborted, io, dangling, answer, ok,
                   clean, bounds>>

NothingUnderWay ==
    /\ outbox = <<>> /\ reads = <<>> /\ aborted = <<>> /\ io = Running
    /\ \A t \in Threads : dangling[t] = 0

Drain_Nothing(t) ==
    /\ call[t].at = "send"
    /\ created
    /\ clean' = IF ~call[t].async /\ NothingUnderWay THEN clean \cup {call[t].req}
                                                     ELSE clean
    /\ Goto(t, "write")
    /\ UNCHANGED <<created, external, mutex, inProgress, reads, aborted, io,
                   dangling, outcome, bounds>>

\* SendRequest first reads away what has arrived since the last response ...
Drain(t) ==
    /\ call[t].at = "send"
    /\ created
    /\ stream' = <<>>
    /\ clean' = IF ~call[t].async /\ NothingUnderWay THEN clean \cup {call[t].req}
                                                     ELSE clean
    /\ Goto(t, "write")
    /\ UNCHANGED <<created, link, outbox, mutex, inProgress, reads, aborted, io,
                   dangling, outcome, bounds>>

\* ... then writes the request.  ReceiveResponse posts the read of the header.  The
\* server answers a request in its turn or never, as it takes requests that come
\* close together for one (TcpServer).
Write(t) ==
    /\ call[t].at = "write"
    /\ \/ /\ link = "up"
          /\ outbox' = Append(outbox, [req |-> call[t].req, part |-> "header"])
       \/ UNCHANGED outbox
    /\ IF call[t].async
         THEN Return(t) /\ UNCHANGED reads
         ELSE /\ Goto(t, IF call[t].timed THEN "wait" ELSE "read")
              /\ reads' = IF call[t].timed
                            THEN Append(reads, [req |-> call[t].req, async |-> FALSE])
                            ELSE reads
              /\ UNCHANGED mutex
    /\ UNCHANGED <<created, link, stream, inProgress, aborted, io, dangling,
                   outcome, clean, bounds>>

\* Either throws.
SendFails(t) ==
    /\ call[t].at \in {"send", "write"}
    /\ created
    /\ link = "broken"
    /\ IF call[t].async
         THEN Callback(call[t].req) /\ UNCHANGED answer
         ELSE answer' = [answer EXCEPT ![call[t].req] = Failed]
              /\ UNCHANGED <<calls, inProgress>>
    /\ Return(t)
    /\ UNCHANGED <<created, external, reads, aborted, io, dangling, ok, clean,
                   bounds>>

GiveUp_OnFailure(t) ==
    /\ call[t].at = "wait"
    /\ call[t].failed
    /\ Cancel(t)
    /\ IF call[t].timed THEN LeaveFrame(t, ReadPosted(t)) ELSE UNCHANGED dangling
    /\ answer' = [answer EXCEPT ![call[t].req] = Failed]
    /\ Return(t)
    /\ UNCHANGED <<created, external, inProgress, io, calls, ok, clean, bounds>>

\* The loop of 1 ms sleeps ends because the timer has fired, whatever else has
\* happened, or because the read has failed; the socket's reads are cancelled.
GiveUp(t) ==
    /\ call[t].at = "wait"
    /\ call[t].expired \/ call[t].failed
    /\ Cancel(t)
    /\ IF call[t].timed THEN LeaveFrame(t, ReadPosted(t)) ELSE UNCHANGED dangling
    /\ answer' = [answer EXCEPT ![call[t].req] = Failed]
    /\ Return(t)
    /\ UNCHANGED <<created, external, inProgress, io, calls, ok, clean, bounds>>

\* It ends because the header is there.
HeaderDone(t) ==
    /\ call[t].at = "wait"
    /\ call[t].done /\ ~call[t].expired /\ ~call[t].failed
    /\ Goto(t, "body")
    /\ IF call[t].timed THEN LeaveFrame(t, ReadPosted(t)) ELSE UNCHANGED dangling
    /\ UNCHANGED <<created, external, mutex, inProgress, reads, aborted, io,
                   outcome, clean, bounds>>

\* Without a timeout the caller reads the header itself.  Bytes of a body may be
\* fewer than a header has.
ReadHeader(t) ==
    /\ call[t].at = "read"
    /\ stream # <<>>
    /\ stream' = Tail(stream)
    /\ \/ call' = [call EXCEPT ![t].at = "wait", ![t].done = TRUE,
                               ![t].got = HeaderIn(Head(stream))]
       \/ /\ HeaderIn(Head(stream)) = Garbage
          /\ call' = [call EXCEPT ![t].at = "wait", ![t].failed = TRUE]
    /\ UNCHANGED <<created, link, outbox, mutex, inProgress, reads, aborted, io,
                   dangling, outcome, clean, bounds>>

\* The body belongs to the header, unless other pieces have come in between;
\* a reader that has taken those for it may go on waiting for bytes.
Body(got) ==
    IF Head(stream) = [req |-> got, part |-> "body"] THEN got ELSE Garbage

ReadBody(t) ==
    /\ call[t].at = "body"
    /\ stream # <<>>
    /\ stream' = Tail(stream)
    /\ \/ /\ answer' = [answer EXCEPT ![call[t].req] = Body(call[t].got)]
          /\ Return(t)
       \/ /\ Body(call[t].got) = Garbage
          /\ call' = [call EXCEPT ![t].got = Garbage]
          /\ UNCHANGED <<answer, mutex>>
    /\ UNCHANGED <<created, link, outbox, inProgress, reads, aborted, io,
                   dangling, calls, ok, clean, bounds>>

\* A blocking read that throws leaves by the handler of exceptions.
ReadThrows(t) ==
    /\ call[t].at \in {"read", "body"}
    /\ stream = <<>> /\ link = "broken"
    /\ answer' = [answer EXCEPT ![call[t].req] = Failed]
    /\ Return(t)
    /\ UNCHANGED <<created, external, inProgress, reads, aborted, io, dangling,
                   calls, ok, clean, bounds>>

-----------------------------------------------------------------------------
(* The io thread.                                                          *)

\* The handlers of the header.  Sixteen bytes that are no header may be fewer
\* than sixteen, or be taken for a size.
WaitingFor(r) == {t \in Threads : call[t].at = "wait" /\ call[t].req = r}

IoHeader ==
    /\ created
    /\ io = Running
    /\ reads # <<>> /\ stream # <<>>
    /\ reads' = Tail(reads)
    /\ stream' = Tail(stream)
    /\ LET r == Head(reads).req
           got == HeaderIn(Head(stream))
       IN \/ /\ Head(reads).async
             /\ io' = [at |-> "body", req |-> r, got |-> got]
             /\ UNCHANGED <<call, calls, inProgress>>
          \/ /\ Head(reads).async /\ got = Garbage
             /\ Callback(r)
             /\ UNCHANGED <<io, call>>
          \/ /\ ~Head(reads).async
             /\ call' = [t \in Threads |-> IF t \in WaitingFor(r)
                           THEN [call[t] EXCEPT !.done = TRUE, !.got = got] ELSE call[t]]
             /\ UNCHANGED <<io, calls, inProgress>>
          \/ /\ ~Head(reads).async /\ got = Garbage
             /\ call' = [t \in Threads |-> IF t \in WaitingFor(r)
                           THEN [call[t] EXCEPT !.failed = TRUE] ELSE call[t]]
             /\ UNCHANGED <<io, calls, inProgress>>
    /\ UNCHANGED <<created, link, outbox, mutex, aborted, dangling, answer, ok,
                   clean, bounds>>

IoError_NoCallback ==
    /\ created
    /\ io = Running
    /\ link = "broken" /\ stream = <<>> /\ reads # <<>>
    /\ reads' = Tail(reads)
    /\ call' = [t \in Threads |-> IF t \in WaitingFor(Head(reads).req)
                  THEN [call[t] EXCEPT !.failed = TRUE] ELSE call[t]]
    /\ UNCHANGED <<created, external, mutex, inProgress, aborted, io, dangling,
                   outcome, clean, bounds>>

\* The read fails.  The handler of an asynchronous request runs the callback and
\* goes on to find that no header has come.
IoError ==
    /\ created
    /\ io = Running
    /\ link = "broken" /\ stream = <<>> /\ reads # <<>>
    /\ reads' = Tail(reads)
    /\ IF Head(reads).async
         THEN /\ Callback(Head(reads).req)
              /\ io' = [at |-> "again", req |-> Head(reads).req, got |-> 0]
              /\ UNCHANGED call
         ELSE /\ call' = [t \in Threads |-> IF t \in WaitingFor(Head(reads).req)
                            THEN [call[t] EXCEPT !.failed = TRUE] ELSE call[t]]
              /\ UNCHANGED <<io, calls, inProgress>>
    /\ UNCHANGED <<created, external, mutex, aborted, dangling, answer, ok, clean,
                   bounds>>

\* So does that of a cancelled read.
IoAborted ==
    /\ created
    /\ io = Running
    /\ aborted # <<>>
    /\ Callback(Head(aborted).req)
    /\ io' = [at |-> "again", req |-> Head(aborted).req, got |-> 0]
    /\ aborted' = Tail(aborted)
    /\ UNCHANGED <<created, external, mutex, reads, call, dangling, answer, ok,
                   clean, bounds>>

IoAgain ==
    /\ io.at = "again"
    /\ Callback(io.req)
    /\ io' = Running
    /\ UNCHANGED <<created, external, mutex, reads, aborted, call, dangling,
                   answer, ok, clean, bounds>>

\* ReceiveResponseData: the io thread blocks until the body is there.
IoBody_RunsTwice ==
    /\ io.at = "body"
    /\ stream # <<>>
    /\ stream' = Tail(stream)
    /\ Callback(io.req)
    /\ ok' = [ok EXCEPT ![io.req] = TRUE]
    /\ io' = [io EXCEPT !.at = "again"]
    /\ UNCHANGED <<created, link, outbox, mutex, reads, aborted, call, dangling,
                   answer, clean, bounds>>

IoBody ==
    /\ io.at = "body"
    /\ stream # <<>>
    /\ stream' = Tail(stream)
    /\ \/ /\ Callback(io.req)
          /\ ok' = [ok EXCEPT ![io.req] = TRUE]
          /\ io' = Running
       \/ /\ Body(io.got) = Garbage
          /\ io' = [io EXCEPT !.got = Garbage]
          /\ UNCHANGED <<calls, ok, inProgress>>
    /\ UNCHANGED <<created, link, outbox, mutex, reads, aborted, call, dangling,
                   answer, clean, bounds>>

IoBodyFails ==
    /\ io.at = "body"
    /\ stream = <<>> /\ link = "broken"
    /\ Callback(io.req)
    /\ io' = Running
    /\ UNCHANGED <<created, external, mutex, reads, aborted, call, dangling,
                   answer, ok, clean, bounds>>

\* The timer of a call, which needs the io thread as well.
Timer(t) ==
    /\ created
    /\ io = Running
    /\ call[t].at = "wait" /\ call[t].timed /\ ~call[t].expired
    /\ call' = [call EXCEPT ![t].expired = TRUE]
    /\ UNCHANGED <<created, external, mutex, inProgress, reads, aborted, io,
                   dangling, outcome, clean, bounds>>

\* A handler sets a flag in a frame that is gone: nothing comes of it, or the
\* thread's next call has a flag there.
Dangling(t) ==
    /\ created
    /\ io = Running
    /\ dangling[t] > 0
    /\ dangling' = [dangling EXCEPT ![t] = @ - 1]
    /\ \/ UNCHANGED call
       \/ /\ call[t].at \in {"wait", "read"}
          /\ \/ call' = [call EXCEPT ![t].failed = TRUE]
             \/ call' = [call EXCEPT ![t].expired = TRUE]
             \/ call' = [call EXCEPT ![t].done = TRUE, ![t].got = Garbage]
    /\ UNCHANGED <<created, external, mutex, inProgress, reads, aborted, io,
                   outcome, clean, bounds>>

-----------------------------------------------------------------------------
Caller(t) ==
    \/ Lock(t) \/ NotCreated(t) \/ Admit(t) \/ Reject(t) \/ Drain(t) \/ Write(t)
    \/ SendFails(t) \/ GiveUp(t) \/ HeaderDone(t) \/ ReadHeader(t) \/ ReadBody(t)
    \/ ReadThrows(t)

IoThread ==
    \/ IoHeader \/ IoError \/ IoAborted \/ IoAgain \/ IoBody \/ IoBodyFails
    \/ \E t \in Threads : Timer(t) \/ Dangling(t)

Next ==
    \/ Deliver \/ Break \/ Create \/ Destroy
    \/ \E t \in Threads : Caller(t) \/ \E async, timed \in BOOLEAN : Call(t, async, timed)
    \/ IoThread

Spec == Init /\ [][Next]_vars

\* Threads that can run do, timers fire, and the server finishes what it has
\* begun to send.  That it answers at all is not assumed.
Fairness ==
    /\ \A t \in Threads : WF_vars(Caller(t)) /\ WF_vars(Timer(t))
    /\ WF_vars(IoThread)
    /\ WF_vars(Complete)

FairSpec == Spec /\ Fairness

-----------------------------------------------------------------------------
(* Properties.                                                             *)

Pieces == [req : Reqs, part : {"header", "body"}]
Reads == [req : Reqs, async : BOOLEAN]

\* Every variable has its type; the mutex is held by a thread inside a call.
TypeOK ==
    /\ created \in BOOLEAN
    /\ link \in {"up", "broken", "down"}
    /\ stream \in Seq(Pieces) /\ outbox \in Seq(Pieces)
    /\ reads \in Seq(Reads) /\ aborted \in Seq(Reads)
    /\ mutex \in Threads \cup {"free"}
    /\ \A t \in Threads : mutex = t <=> call[t].at \notin {"idle", "lock"}
    /\ inProgress \in BOOLEAN
    /\ io.at \in {"run", "body", "again"}
    /\ \A t \in Threads : dangling[t] \in 0..2 * MaxRequests
    /\ answer \in [Reqs -> Reqs \cup {Failed, Garbage, Pending}]
    /\ clean \subseteq Reqs
    /\ next \in 1..(MaxRequests + 1)

\* A synchronous request that is sent while nothing else is under way, neither a
\* read nor an answer to an earlier request, returns its own response or none:
\* reading the socket empty is enough then, even after timeouts.
CleanAnswersMatch == \A r \in clean : answer[r] \in {r, Failed, Pending}

\* It does return, if it has a timeout, although the timeout covers the header
\* only.
CleanCallsReturn ==
    \A t \in Threads, r \in Reqs :
        (call[t].req = r /\ call[t].timed /\ r \in clean) ~> answer[r] # Pending

\* The client never refuses requests for ever: while the flag says that one is
\* in progress, there is one whose callback has not run and will be run by its
\* handler.
BusyIsBusy ==
    inProgress => \E r \in Reqs : /\ calls[r] = 0
                                  /\ \/ io.at = "body" /\ io.req = r
                                     \/ \E i \in DOMAIN reads : reads[i].req = r
                                     \/ \E i \in DOMAIN aborted : aborted[i].req = r

\* While the connection holds, a callback that was given a response is not run
\* again.
NoCallAfterResponse ==
    [][\A r \in Reqs : ok[r] /\ link = "up" => calls'[r] = calls[r]]_vars

\* easy_tcpclient.cpp:127, "Another request is already in progress": there is
\* never more than one asynchronous request under way.
OneAsyncAtATime ==
    \A i, j \in DOMAIN reads : reads[i].async /\ reads[j].async => i = j

=============================================================================

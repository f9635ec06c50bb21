---------------------------- MODULE TcpClient_proofs ----------------------------
(***************************************************************************)
(* Proofs about TcpClient, for any threads, any number of calls and any    *)
(* number of faults.                                                       *)
(*                                                                         *)
(* The inductive invariant has a part of its own for each thing a reader   *)
(* of the code would have to know to believe the properties: what a call   *)
(* that holds the mutex looks like, that a request has one handler at      *)
(* most, and what is on the wire while a clean request is under way.       *)
(***************************************************************************)
EXTENDS TcpClient, SequenceTheorems, TLAPS

Nums == Reqs \cup {Failed, Garbage}

Points == {"idle", "lock", "admit", "send", "write", "wait", "read", "body"}

CallRecs == [at : Points, req : 0..MaxRequests, async : BOOLEAN, timed : BOOLEAN,
             done : BOOLEAN, failed : BOOLEAN, expired : BOOLEAN, got : Nums]

IoRecs == [at : {"run", "body", "again"}, req : 0..MaxRequests, got : Nums]

WireTyped ==
    /\ link \in {"up", "broken", "down"}
    /\ stream \in Seq(Pieces) /\ outbox \in Seq(Pieces)

FlagTyped == created \in BOOLEAN /\ inProgress \in BOOLEAN

QueueTyped == reads \in Seq(Reads) /\ aborted \in Seq(Reads)

IoTyped == io \in IoRecs

CallTyped == mutex \in Threads \cup {"free"} /\ call \in [Threads -> CallRecs]

DanglingTyped == dangling \in [Threads -> Nat]

AnswerTyped == answer \in [Reqs -> Nums \cup {Pending}]

CallsTyped == calls \in [Reqs -> Nat]

OkTyped == ok \in [Reqs -> BOOLEAN]

CleanTyped == clean \in SUBSET Reqs

BoundTyped == next \in 1..(MaxRequests + 1) /\ faults \in Nat

Typed ==
    /\ WireTyped /\ FlagTyped /\ QueueTyped /\ IoTyped /\ CallTyped
    /\ DanglingTyped /\ AnswerTyped /\ CallsTyped /\ OkTyped /\ CleanTyped
    /\ BoundTyped

\* A call past its lock, and nothing else, holds the mutex.
MutexHeld == \A t \in Threads : mutex = t <=> call[t].at \notin {"idle", "lock"}

\* Points of a call before the socket is read empty; before the request is
\* admitted.
Early(t) == call[t].at \in {"lock", "admit", "send"}
NotAdmitted(t) == call[t].at \in {"lock", "admit"} /\ call[t].async

\* Every call has a number of its own and nothing is known yet of the numbers
\* that have not been given out.
Numbered ==
    /\ \A t \in Threads : call[t].at # "idle" => /\ call[t].req \in 1..(next - 1)
                                                 /\ answer[call[t].req] = Pending
    /\ \A t, u \in Threads : /\ call[t].at # "idle" /\ call[u].at # "idle"
                             /\ call[t].req = call[u].req
                             => t = u
    /\ \A r \in Reqs : r >= next => answer[r] = Pending /\ calls[r] = 0 /\ ~ok[r]

\* Which requests are asynchronous at which point, and what the frame of a call
\* that has not sent holds.
Staged ==
    \A t \in Threads :
      /\ call[t].at = "admit" => call[t].async
      /\ call[t].at \in {"wait", "read", "body"} => ~call[t].async
      /\ Early(t) => ~call[t].done

\* The socket, the queue of cancelled reads and the io thread know only requests
\* that were made.
Queued ==
    /\ io.at # "run" => io.req \in 1..(next - 1)
    /\ \A i \in DOMAIN reads : reads[i].req < next
    /\ \A i \in DOMAIN aborted : aborted[i].req < next

\* A call leaves at most two handlers behind, when it ends its wait.
DanglingLimit(t) ==
    IF call[t].at \in {"idle", "body"} THEN 2 * (next - 1) ELSE 2 * (next - 2)

FewDangling == \A t \in Threads : dangling[t] <= DanglingLimit(t)

ReadOf(r) == \E i \in DOMAIN reads : reads[i].async /\ reads[i].req = r
AbortedOf(r) == \E i \in DOMAIN aborted : aborted[i].req = r
IoOf(r) == io.at # "run" /\ io.req = r
Handled(r) == ReadOf(r) \/ AbortedOf(r) \/ IoOf(r)

\* An asynchronous request has at most one handler, wherever that is.
OneHandler ==
    /\ \A i, j \in DOMAIN reads : /\ reads[i].async /\ reads[j].async
                                  /\ reads[i].req = reads[j].req
                                  => i = j
    /\ \A i, j \in DOMAIN aborted : aborted[i].req = aborted[j].req => i = j
    /\ \A r \in Reqs : /\ ReadOf(r) => ~AbortedOf(r) /\ ~IoOf(r)
                       /\ AbortedOf(r) => ~IoOf(r)

\* It has none before it is admitted, nor once it had its response.
NoneBefore ==
    \A t \in Threads : NotAdmitted(t) => /\ ~Handled(call[t].req)
                                         /\ calls[call[t].req] = 0
                                         /\ ~ok[call[t].req]

NoneAfter == \A r \in Reqs : ok[r] => ~Handled(r)

Busy ==
    inProgress => \E r \in Reqs : /\ calls[r] = 0
                                  /\ \/ ReadOf(r) \/ AbortedOf(r)
                                     \/ io.at = "body" /\ io.req = r

\* Where the two pieces of the answer to r may be before its header is read, and
\* after.
HeaderOf(r) == [req |-> r, part |-> "header"]
BodyOf(r) == [req |-> r, part |-> "body"]

BeforeHeader(r) ==
    \/ stream = <<>> /\ outbox \in {<<>>, <<HeaderOf(r)>>}
    \/ stream = <<HeaderOf(r)>> /\ outbox \in {<<>>, <<BodyOf(r)>>}
    \/ stream = <<HeaderOf(r), BodyOf(r)>> /\ outbox = <<>>

AfterHeader(r) ==
    \/ stream = <<>> /\ outbox \in {<<>>, <<BodyOf(r)>>}
    \/ stream = <<BodyOf(r)>> /\ outbox = <<>>

\* The stages of a clean request r: its call t has read the socket empty, waits
\* for the header itself or by a read, or has it.
Drained(t) ==
    /\ call[t].at = "write" /\ ~call[t].done
    /\ reads = <<>> /\ stream = <<>> /\ outbox = <<>>

ReadsHeader(t, r) == call[t].at = "read" /\ reads = <<>> /\ BeforeHeader(r)

AwaitsHeader(t, r) ==
    /\ call[t].at = "wait" /\ ~call[t].done
    /\ reads \in {<<>>, <<[req |-> r, async |-> FALSE]>>}
    /\ BeforeHeader(r)

HasHeader(t, r) ==
    /\ call[t].at \in {"wait", "body"}
    /\ call[t].at = "wait" => call[t].done
    /\ call[t].got = r /\ reads = <<>> /\ AfterHeader(r)

\* A clean request that is under way is alone with the connection.
Alone(t, r) ==
    /\ call[t].req = r /\ ~call[t].async
    /\ aborted = <<>> /\ io.at = "run"
    /\ call[t].at # "body" => dangling[t] = 0
    /\ Drained(t) \/ ReadsHeader(t, r) \/ AwaitsHeader(t, r) \/ HasHeader(t, r)

CleanIsAlone ==
    /\ \A r \in clean : r < next
    /\ \A t \in Threads, r \in clean :
         call[t].at # "idle" /\ call[t].req = r => ~Early(t) /\ Alone(t, r)

IInv ==
    /\ Typed /\ MutexHeld /\ Numbered /\ Staged /\ Queued /\ FewDangling
    /\ OneHandler /\ NoneBefore /\ NoneAfter /\ Busy
    /\ CleanIsAlone /\ CleanAnswersMatch

-----------------------------------------------------------------------------
(* Steps and sequences.                                                    *)

\* The ways of a step.
LEMMA NextCases ==
    ASSUME Next
    PROVE  \/ Deliver \/ Break \/ Create \/ Destroy
           \/ \E t \in Threads :
                 \/ \E async, timed \in BOOLEAN : Call(t, async, timed)
                 \/ Lock(t) \/ NotCreated(t) \/ Admit(t) \/ Reject(t) \/ Drain(t)
                 \/ Write(t) \/ SendFails(t) \/ GiveUp(t) \/ HeaderDone(t)
                 \/ ReadHeader(t) \/ ReadBody(t) \/ ReadThrows(t)
                 \/ Timer(t) \/ Dangling(t)
           \/ IoHeader \/ IoError \/ IoAborted \/ IoAgain \/ IoBody \/ IoBodyFails
BY Zenon DEF Next, Caller, IoThread

\* A queue without its head.
LEMMA TailOf ==
    ASSUME NEW S, NEW q \in Seq(S), q # <<>>
    PROVE  /\ Tail(q) \in Seq(S) /\ Head(q) \in S
           /\ 1 \in DOMAIN q /\ Head(q) = q[1]
           /\ \A i \in DOMAIN Tail(q) : i + 1 \in DOMAIN q /\ Tail(q)[i] = q[i + 1]
           /\ \A i \in DOMAIN q : i = 1 \/ (i - 1 \in DOMAIN Tail(q)
                                            /\ Tail(q)[i - 1] = q[i])
OBVIOUS

\* A queue with one more element.
LEMMA AppendOf ==
    ASSUME NEW S, NEW q \in Seq(S), NEW e \in S
    PROVE  /\ Append(q, e) \in Seq(S)
           /\ Len(q) + 1 \in DOMAIN Append(q, e) /\ Append(q, e)[Len(q) + 1] = e
           /\ \A i \in DOMAIN q : i \in DOMAIN Append(q, e) /\ Append(q, e)[i] = q[i]
           /\ \A i \in DOMAIN Append(q, e) : \/ i \in DOMAIN q /\ Append(q, e)[i] = q[i]
                                             \/ i = Len(q) + 1 /\ Append(q, e)[i] = e
OBVIOUS

\* A queue may be empty.
LEMMA EmptyQueue == <<>> \in Seq(Reads)
OBVIOUS

\* Cancelling appends the asynchronous reads, each once, to the operations that
\* have been cancelled.
LEMMA CancelEffect ==
    ASSUME NEW t \in Threads, Typed, Cancel(t)
    PROVE  /\ reads' = <<>>
           /\ aborted' \in Seq(Reads)
           /\ \A j \in DOMAIN aborted : j \in DOMAIN aborted' /\ aborted'[j] = aborted[j]
           /\ \A j \in DOMAIN aborted' \ DOMAIN aborted :
                \E i \in DOMAIN reads : reads[i].async /\ aborted'[j] = reads[i]
           /\ \A i \in DOMAIN reads : reads[i].async =>
                \E j \in DOMAIN aborted' : aborted'[j] = reads[i]
           /\ \A j, k \in DOMAIN aborted' \ DOMAIN aborted : j # k =>
                \E i, l \in DOMAIN reads : /\ i # l /\ reads[i].async /\ reads[l].async
                                           /\ aborted'[j] = reads[i]
                                           /\ aborted'[k] = reads[l]
<1>0. PICK n \in 0..Len(reads) : \E place \in [1..n -> DOMAIN reads] :
         /\ \A i, j \in 1..n : i < j => place[i] < place[j]
         /\ {place[i] : i \in 1..n} = {i \in DOMAIN reads : reads[i].async}
         /\ aborted' = aborted \o [i \in 1..n |-> reads[place[i]]]
  BY Zenon DEF Cancel
<1>1. PICK place \in [1..n -> DOMAIN reads] :
         /\ \A i, j \in 1..n : i < j => place[i] < place[j]
         /\ {place[i] : i \in 1..n} = {i \in DOMAIN reads : reads[i].async}
         /\ aborted' = aborted \o [i \in 1..n |-> reads[place[i]]]
  BY Zenon, <1>0
<1> DEFINE added == [i \in 1..n |-> reads[place[i]]]
<1>2. reads' = <<>>
  BY DEF Cancel
<1>3. aborted \in Seq(Reads) /\ reads \in Seq(Reads)
  BY DEF Typed, QueueTyped
<1>4. added \in Seq(Reads) /\ Len(added) = n /\ DOMAIN added = 1..n
  <2>1. \A i \in 1..n : reads[place[i]] \in Reads
    BY <1>3
  <2>2. added \in [1..n -> Reads] /\ n \in Nat
    BY <2>1
  <2> QED
    BY <2>2
<1>5. /\ aborted' \in Seq(Reads)
      /\ Len(aborted') = Len(aborted) + n
      /\ \A j \in 1..(Len(aborted) + n) :
            aborted'[j] = IF j <= Len(aborted) THEN aborted[j] ELSE added[j - Len(aborted)]
  <2>1. aborted' = aborted \o added
    BY <1>1
  <2> HIDE DEF added
  <2> QED
    BY <2>1, <1>3, <1>4, ConcatProperties
<1>6. \A i, j \in 1..n : i # j => place[i] # place[j]
  <2>1. DOMAIN reads = 1..Len(reads) /\ Len(reads) \in Nat
    BY <1>3
  <2> QED
    BY <1>1, <2>1
<1>7. \A i \in DOMAIN reads : reads[i].async <=> \E j \in 1..n : place[j] = i
  BY <1>1
<1>8. \A j \in 1..n : place[j] \in DOMAIN reads /\ reads[place[j]].async
  BY <1>7
<1>9. /\ DOMAIN aborted = 1..Len(aborted) /\ DOMAIN aborted' = 1..(Len(aborted) + n)
      /\ Len(aborted) \in Nat /\ n \in Nat
  BY <1>3, <1>5
<1>10. \A j \in DOMAIN aborted' \ DOMAIN aborted :
           /\ j - Len(aborted) \in 1..n
           /\ aborted'[j] = reads[place[j - Len(aborted)]]
  <2> SUFFICES ASSUME NEW j \in DOMAIN aborted' \ DOMAIN aborted
               PROVE  /\ j - Len(aborted) \in 1..n
                      /\ aborted'[j] = reads[place[j - Len(aborted)]]
    OBVIOUS
  <2>1. j \in 1..(Len(aborted) + n) /\ ~(j <= Len(aborted)) /\ j - Len(aborted) \in 1..n
    BY <1>9
  <2>2. aborted'[j] = added[j - Len(aborted)]
    BY <2>1, <1>5
  <2> QED
    BY <2>1, <2>2
<1>11. \A j \in 1..n : /\ j + Len(aborted) \in DOMAIN aborted'
                       /\ aborted'[j + Len(aborted)] = reads[place[j]]
  <2> SUFFICES ASSUME NEW j \in 1..n
               PROVE  /\ j + Len(aborted) \in DOMAIN aborted'
                      /\ aborted'[j + Len(aborted)] = reads[place[j]]
    OBVIOUS
  <2>1. /\ j + Len(aborted) \in 1..(Len(aborted) + n)
        /\ ~(j + Len(aborted) <= Len(aborted))
        /\ (j + Len(aborted)) - Len(aborted) = j
    BY <1>9
  <2>2. aborted'[j + Len(aborted)] = added[j]
    BY <2>1, <1>5
  <2> QED
    BY <2>1, <2>2, <1>9
<1>12. \A j \in DOMAIN aborted : j \in DOMAIN aborted' /\ aborted'[j] = aborted[j]
  <2> SUFFICES ASSUME NEW j \in DOMAIN aborted
               PROVE  j \in DOMAIN aborted' /\ aborted'[j] = aborted[j]
    OBVIOUS
  <2>1. j \in 1..Len(aborted) /\ j \in 1..(Len(aborted) + n) /\ j <= Len(aborted)
    BY <1>9
  <2> QED
    BY <2>1, <1>5, <1>9
<1>13. \A j \in DOMAIN aborted' \ DOMAIN aborted :
          \E i \in DOMAIN reads : reads[i].async /\ aborted'[j] = reads[i]
  BY Zenon, <1>10, <1>8
<1>14. \A i \in DOMAIN reads : reads[i].async =>
          \E j \in DOMAIN aborted' : aborted'[j] = reads[i]
  <2> SUFFICES ASSUME NEW i \in DOMAIN reads, reads[i].async
               PROVE  \E j \in DOMAIN aborted' : aborted'[j] = reads[i]
    OBVIOUS
  <2>1. PICK k \in 1..n : place[k] = i
    BY <1>7
  <2> QED
    BY <2>1, <1>11
<1>15. ASSUME NEW j \in DOMAIN aborted' \ DOMAIN aborted,
              NEW k \in DOMAIN aborted' \ DOMAIN aborted, j # k
       PROVE  \E i, l \in DOMAIN reads : /\ i # l /\ reads[i].async /\ reads[l].async
                                         /\ aborted'[j] = reads[i]
                                         /\ aborted'[k] = reads[l]
  <2>1. place[j - Len(aborted)] # place[k - Len(aborted)]
    <3>1. j \in Int /\ k \in Int /\ j - Len(aborted) # k - Len(aborted)
      BY <1>9, <1>15
    <3> QED
      BY <3>1, <1>6, <1>10
  <2> QED
    BY Zenon, <2>1, <1>8, <1>10
<1> QED
  BY <1>2, <1>5, <1>12, <1>13, <1>14, <1>15

-----------------------------------------------------------------------------
(* What happens to a call.                                                 *)

\* A record of a call, and the one of no call.
LEMMA IdleRec ==
    /\ Idle \in CallRecs
    /\ Idle.at = "idle" /\ Idle.req = 0 /\ Idle.async = FALSE /\ Idle.done = FALSE
    /\ Idle.got = 0
BY MaxRequestsAssumption DEF Idle, CallRecs, Points, Nums, Failed

\* Nothing changes for the other threads, whatever becomes of a call.
LEMMA OneCall ==
    ASSUME NEW t \in Threads, NEW c \in CallRecs, CallTyped,
           call' = [call EXCEPT ![t] = c]
    PROVE  /\ call' \in [Threads -> CallRecs]
           /\ call'[t] = c
           /\ \A u \in Threads : u # t => call'[u] = call[u]
BY DEF CallTyped

\* Goto changes the point a call is at and nothing else.
LEMMA GotoEffect ==
    ASSUME NEW t \in Threads, NEW point \in Points, CallTyped, Goto(t, point)
    PROVE  /\ call' \in [Threads -> CallRecs]
           /\ call'[t].at = point
           /\ call'[t].req = call[t].req /\ call'[t].async = call[t].async
           /\ call'[t].timed = call[t].timed /\ call'[t].done = call[t].done
           /\ call'[t].got = call[t].got
           /\ \A u \in Threads : u # t => call'[u] = call[u]
<1> DEFINE c == [call[t] EXCEPT !.at = point]
<1>1. call[t] \in CallRecs
  BY DEF CallTyped
<1>2. c \in CallRecs
  BY <1>1 DEF CallRecs
<1>3. call' = [call EXCEPT ![t] = c]
  BY DEF Goto
<1>4. /\ c.at = point /\ c.req = call[t].req /\ c.async = call[t].async
      /\ c.timed = call[t].timed /\ c.done = call[t].done /\ c.got = call[t].got
  BY <1>1 DEF CallRecs
<1> HIDE DEF c
<1> QED
  BY <1>2, <1>3, <1>4, OneCall

\* Return ends it and frees the mutex.
LEMMA ReturnEffect ==
    ASSUME NEW t \in Threads, CallTyped, Return(t)
    PROVE  /\ call' \in [Threads -> CallRecs]
           /\ mutex' = "free" /\ call'[t] = Idle
           /\ \A u \in Threads : u # t => call'[u] = call[u]
BY IdleRec, OneCall DEF Return

\* Call begins one.
LEMMA CallEffect ==
    ASSUME NEW t \in Threads, NEW async \in BOOLEAN, NEW timed \in BOOLEAN,
           CallTyped, Call(t, async, timed)
    PROVE  /\ call' \in [Threads -> CallRecs]
           /\ call'[t].at = "lock" /\ call'[t].req = next /\ call'[t].async = async
           /\ call'[t].done = FALSE
           /\ \A u \in Threads : u # t => call'[u] = call[u]
<1> DEFINE c == [Idle EXCEPT !.at = "lock", !.req = next, !.async = async, !.timed = timed]
<1>1. next \in 0..MaxRequests /\ Idle \in CallRecs
  BY IdleRec DEF Call, Reqs
<1>2. "lock" \in Points
  BY DEF Points
<1>3. c \in CallRecs
  BY <1>1, <1>2 DEF CallRecs
<1>4. c.at = "lock" /\ c.req = next /\ c.async = async /\ c.done = FALSE
  <2>1. c.done = Idle.done
    BY <1>1 DEF CallRecs
  <2> QED
    BY <2>1, <1>1, IdleRec DEF CallRecs
<1>5. call' = [call EXCEPT ![t] = c]
  BY DEF Call
<1> HIDE DEF c
<1> QED
  BY <1>3, <1>4, <1>5, OneCall

-----------------------------------------------------------------------------
(* Which steps change what.                                                *)

\* Which steps change a call, the mutex or the count of requests ...
LEMMA CallSteps ==
    ASSUME Next
    PROVE  \/ UNCHANGED <<call, mutex, next>>
           \/ \E t \in Threads :
                 \/ \E async, timed \in BOOLEAN : Call(t, async, timed)
                 \/ Lock(t) \/ NotCreated(t) \/ Admit(t) \/ Reject(t) \/ Drain(t)
                 \/ Write(t) \/ SendFails(t) \/ GiveUp(t) \/ HeaderDone(t)
                 \/ ReadHeader(t) \/ ReadBody(t) \/ ReadThrows(t)
                 \/ Timer(t) \/ Dangling(t)
           \/ IoHeader \/ IoError
BY Zenon, NextCases DEF Deliver, Break, Create, Destroy, IoAborted, IoAgain, IoBody,
   IoBodyFails, bounds

\* ... the connection and what is on it ...
LEMMA WireSteps ==
    ASSUME Next
    PROVE  \/ UNCHANGED <<link, stream, outbox>>
           \/ Deliver \/ Break \/ Create \/ Destroy
           \/ \E t \in Threads : \/ Drain(t) \/ Write(t) \/ ReadHeader(t) \/ ReadBody(t)
           \/ IoHeader \/ IoBody
BY Zenon, NextCases DEF Call, Lock, NotCreated, Admit, Reject, SendFails, GiveUp,
   HeaderDone, ReadThrows, Timer, Dangling, IoError, IoAborted, IoAgain, IoBodyFails,
   external

\* ... the reads, the io thread and what it does to callbacks ...
LEMMA QueueSteps ==
    ASSUME Next
    PROVE  \/ UNCHANGED <<reads, aborted, io, calls, ok, inProgress>>
           \/ Destroy
           \/ \E t \in Threads : \/ Admit(t) \/ Reject(t) \/ Write(t) \/ SendFails(t)
                                 \/ GiveUp(t)
           \/ IoHeader \/ IoError \/ IoAborted \/ IoAgain \/ IoBody \/ IoBodyFails
<1> DEFINE Kept == UNCHANGED <<reads, aborted, io, calls, ok, inProgress>>
<1>1. Deliver \/ Break \/ Create => Kept
  BY DEF Deliver, Break, Create, outcome
<1>2. ASSUME NEW t \in Threads
      PROVE  /\ Lock(t) \/ NotCreated(t) \/ Drain(t) \/ HeaderDone(t) => Kept
             /\ ReadHeader(t) \/ ReadBody(t) \/ ReadThrows(t) => Kept
             /\ Timer(t) \/ Dangling(t) => Kept
  BY Zenon DEF Lock, NotCreated, Drain, HeaderDone, ReadHeader, ReadBody, ReadThrows,
     Timer, Dangling, outcome
<1>3. ASSUME NEW t \in Threads, NEW async \in BOOLEAN, NEW timed \in BOOLEAN
      PROVE  Call(t, async, timed) => Kept
  BY Zenon DEF Call, outcome
<1> HIDE DEF Kept
<1>4. \/ Kept \/ Destroy
      \/ \E t \in Threads : Admit(t) \/ Reject(t) \/ Write(t) \/ SendFails(t) \/ GiveUp(t)
      \/ IoHeader \/ IoError \/ IoAborted \/ IoAgain \/ IoBody \/ IoBodyFails
  BY Zenon, <1>1, <1>2, <1>3, NextCases
<1> QED
  BY Zenon, <1>4 DEF Kept

\* ... the handlers that outlive their frame ...
LEMMA DanglingSteps ==
    ASSUME Next
    PROVE  \/ UNCHANGED dangling
           \/ Destroy
           \/ \E t \in Threads : GiveUp(t) \/ HeaderDone(t) \/ Dangling(t)
BY Zenon, NextCases DEF Deliver, Break, Create, Call, Lock, NotCreated, Admit, Reject,
   Drain, Write, SendFails, ReadHeader, ReadBody, ReadThrows, Timer, IoHeader, IoError,
   IoAborted, IoAgain, IoBody, IoBodyFails

\* ... what a synchronous call returned ...
LEMMA AnswerSteps ==
    ASSUME Next
    PROVE  \/ UNCHANGED answer
           \/ \E t \in Threads : NotCreated(t) \/ SendFails(t) \/ GiveUp(t) \/ ReadBody(t)
                                 \/ ReadThrows(t)
BY Zenon, NextCases DEF Deliver, Break, Create, Destroy, Call, Lock, Admit, Reject,
   Drain, Write, HeaderDone, ReadHeader, Timer, Dangling, IoHeader, IoError,
   IoAborted, IoAgain, IoBody, IoBodyFails, outcome

\* ... the clean requests, and the faults.
LEMMA CleanSteps == ASSUME Next PROVE UNCHANGED clean \/ \E t \in Threads : Drain(t)
BY Zenon, NextCases DEF Deliver, Break, Create, Destroy, Call, Lock, NotCreated, Admit,
   Reject, Write, SendFails, GiveUp, HeaderDone, ReadHeader, ReadBody, ReadThrows,
   Timer, Dangling, IoHeader, IoError, IoAborted, IoAgain, IoBody, IoBodyFails

LEMMA FaultSteps == ASSUME Next PROVE UNCHANGED faults \/ Break \/ Create
BY Zenon, NextCases DEF Deliver, Destroy, Call, Lock, NotCreated, Admit, Reject, Drain,
   Write, SendFails, GiveUp, HeaderDone, ReadHeader, ReadBody, ReadThrows, Timer,
   Dangling, IoHeader, IoError, IoAborted, IoAgain, IoBody, IoBodyFails, bounds

-----------------------------------------------------------------------------
(* Types.                                                                  *)

\* Every variable has its type at first ...
LEMMA TypedInit == Init => Typed
<1> SUFFICES ASSUME Init PROVE Typed
  OBVIOUS
<1>1. call \in [Threads -> CallRecs] /\ DanglingTyped /\ mutex \in Threads \cup {"free"}
  BY IdleRec DEF Init, DanglingTyped
<1>2. IoTyped
  BY MaxRequestsAssumption DEF Init, IoTyped, IoRecs, Running, Nums, Failed
<1>3. WireTyped /\ QueueTyped /\ FlagTyped
  <2>1. WireTyped
    BY DEF Init, WireTyped
  <2>2. QueueTyped
    BY DEF Init, QueueTyped
  <2>3. FlagTyped
    BY Zenon DEF Init, FlagTyped
  <2> QED
    BY <2>1, <2>2, <2>3
<1>4. AnswerTyped /\ CallsTyped /\ OkTyped /\ CleanTyped
  BY DEF Init, AnswerTyped, CallsTyped, OkTyped, CleanTyped
<1>5. BoundTyped
  BY MaxRequestsAssumption DEF Init, BoundTyped
<1> QED
  BY <1>1, <1>2, <1>3, <1>4, <1>5 DEF Typed, CallTyped

\* ... and keeps it, the connection as long as only requests that were made are
\* written to it.
LEMMA WireTypedStep ==
    /\ WireTyped /\ CallTyped /\ Next
    /\ \A t \in Threads : call[t].at # "idle" => call[t].req \in Reqs
    => WireTyped'
<1> SUFFICES ASSUME WireTyped, CallTyped, Next,
                    \A t \in Threads : call[t].at # "idle" => call[t].req \in Reqs
             PROVE  WireTyped'
  OBVIOUS
<1>1. CASE UNCHANGED <<link, stream, outbox>>
  BY <1>1 DEF WireTyped
<1>2. CASE Deliver
  <2>1. outbox # <<>> /\ outbox \in Seq(Pieces)
    BY <1>2 DEF Deliver, WireTyped
  <2>2. Head(outbox) \in Pieces /\ Tail(outbox) \in Seq(Pieces)
    BY <2>1, TailOf
  <2>3. [Head(outbox) EXCEPT !.part = "body"] \in Pieces
    BY <2>2 DEF Pieces
  <2>4. <<[Head(outbox) EXCEPT !.part = "body"]>> \o Tail(outbox) \in Seq(Pieces)
    BY <2>2, <2>3
  <2>5. Append(stream, Head(outbox)) \in Seq(Pieces)
    BY <2>2 DEF WireTyped
  <2> QED
    BY <1>2, <2>2, <2>4, <2>5 DEF Deliver, WireTyped
<1>3. CASE Break
  BY <1>3 DEF Break, WireTyped
<1>4. CASE Create
  BY <1>4 DEF Create, WireTyped
<1>5. CASE Destroy
  BY <1>5 DEF Destroy, WireTyped
<1>6. ASSUME NEW t \in Threads, Drain(t)
      PROVE  WireTyped'
  BY <1>6 DEF Drain, WireTyped
<1>7. ASSUME NEW t \in Threads, Write(t)
      PROVE  WireTyped'
  <2>1. [req |-> call[t].req, part |-> "header"] \in Pieces
    BY <1>7 DEF Write, Pieces
  <2> QED
    BY <1>7, <2>1 DEF Write, WireTyped
<1>8. ASSUME NEW t \in Threads, ReadHeader(t) \/ ReadBody(t)
      PROVE  WireTyped'
  <2>1. stream # <<>> /\ stream' = Tail(stream) /\ UNCHANGED <<link, outbox>>
    BY <1>8 DEF ReadHeader, ReadBody
  <2> QED
    BY <2>1, TailOf DEF WireTyped
<1>9. CASE IoHeader \/ IoBody
  <2>1. stream # <<>> /\ stream' = Tail(stream) /\ UNCHANGED <<link, outbox>>
    BY <1>9 DEF IoHeader, IoBody
  <2> QED
    BY <2>1, TailOf DEF WireTyped
<1> QED
  BY Zenon, <1>1, <1>2, <1>3, <1>4, <1>5, <1>6, <1>7, <1>8, <1>9, WireSteps

\* The flags stay Boolean.
LEMMA FlagTypedStep == FlagTyped /\ Next => FlagTyped'
<1> SUFFICES ASSUME FlagTyped, Next
             PROVE  FlagTyped'
  OBVIOUS
<1>1. UNCHANGED created \/ created' = TRUE \/ created' = FALSE
  BY Zenon, NextCases DEF Deliver, Break, Create, Destroy, Call, Lock, NotCreated, Admit,
     Reject, Drain, Write, SendFails, GiveUp, HeaderDone, ReadHeader, ReadBody, ReadThrows,
     Timer, Dangling, IoHeader, IoError, IoAborted, IoAgain, IoBody, IoBodyFails
<1>2. UNCHANGED inProgress \/ inProgress' = TRUE \/ inProgress' = FALSE
  BY Zenon, QueueSteps DEF Destroy, Admit, Reject, Write, SendFails, GiveUp, IoHeader,
     IoError, IoAborted, IoAgain, IoBody, IoBodyFails, Callback
<1> QED
  BY Zenon, <1>1, <1>2 DEF FlagTyped

\* Calls stay records of calls and the mutex stays with a thread.
LEMMA CallTypedStep == CallTyped /\ WireTyped /\ Next => CallTyped'
<1> SUFFICES ASSUME CallTyped, WireTyped, Next
             PROVE  CallTyped'
  OBVIOUS
<1>1. CASE UNCHANGED <<call, mutex, next>>
  BY <1>1 DEF CallTyped
<1>2. ASSUME NEW t \in Threads, NEW async \in BOOLEAN, NEW timed \in BOOLEAN,
             Call(t, async, timed)
      PROVE  CallTyped'
  <2>1. UNCHANGED mutex
    BY <1>2 DEF Call
  <2> QED
    BY <1>2, <2>1, CallEffect DEF CallTyped
<1>3. ASSUME NEW t \in Threads, NotCreated(t) \/ Reject(t) \/ SendFails(t) \/ GiveUp(t)
                                \/ ReadThrows(t)
      PROVE  CallTyped'
  <2>1. Return(t)
    BY <1>3 DEF NotCreated, Reject, SendFails, GiveUp, ReadThrows
  <2> QED
    BY <2>1, ReturnEffect DEF CallTyped
<1>4. ASSUME NEW t \in Threads, Lock(t) \/ Admit(t) \/ Drain(t) \/ HeaderDone(t)
      PROVE  CallTyped'
  <2>1. \E point \in Points : Goto(t, point)
    BY <1>4 DEF Lock, Admit, Drain, HeaderDone, Points
  <2>2. mutex' \in Threads \cup {"free"}
    BY <1>4 DEF Lock, Admit, Drain, HeaderDone, CallTyped
  <2> QED
    BY <2>1, <2>2, GotoEffect DEF CallTyped
<1>5. ASSUME NEW t \in Threads, Write(t)
      PROVE  CallTyped'
  <2>1. CASE call[t].async
    <3>1. Return(t)
      BY <1>5, <2>1 DEF Write
    <3> QED
      BY <3>1, ReturnEffect DEF CallTyped
  <2>2. CASE ~call[t].async
    <3>1. UNCHANGED mutex /\ \E point \in Points : Goto(t, point)
      BY <1>5, <2>2 DEF Write, Points
    <3> QED
      BY <3>1, GotoEffect DEF CallTyped
  <2> QED
    BY Zenon, <2>1, <2>2
<1>6. ASSUME NEW t \in Threads, ReadHeader(t)
      PROVE  CallTyped'
  <2>1. call[t] \in CallRecs /\ HeaderIn(Head(stream)) \in Nums
    <3>1. Head(stream) \in Pieces
      BY <1>6, TailOf DEF ReadHeader, WireTyped
    <3> QED
      BY <3>1 DEF HeaderIn, Pieces, Nums, CallTyped
  <2>2. UNCHANGED mutex
    BY <1>6 DEF ReadHeader
  <2>3. \E c \in CallRecs : call' = [call EXCEPT ![t] = c]
    <3>1. CASE call' = [call EXCEPT ![t].at = "wait", ![t].done = TRUE,
                                    ![t].got = HeaderIn(Head(stream))]
      <4> DEFINE c == [call[t] EXCEPT !.at = "wait", !.done = TRUE,
                                      !.got = HeaderIn(Head(stream))]
      <4>1. c \in CallRecs
        BY <2>1 DEF CallRecs, Points
      <4>2. call' = [call EXCEPT ![t] = c]
        BY <3>1
      <4> QED
        BY Zenon, <4>1, <4>2
    <3>2. CASE call' = [call EXCEPT ![t].at = "wait", ![t].failed = TRUE]
      <4> DEFINE c == [call[t] EXCEPT !.at = "wait", !.failed = TRUE]
      <4>1. c \in CallRecs
        BY <2>1 DEF CallRecs, Points
      <4>2. call' = [call EXCEPT ![t] = c]
        BY <3>2
      <4> QED
        BY Zenon, <4>1, <4>2
    <3> QED
      BY Zenon, <3>1, <3>2, <1>6 DEF ReadHeader
  <2> QED
    BY <2>2, <2>3, OneCall DEF CallTyped
<1>7. ASSUME NEW t \in Threads, ReadBody(t)
      PROVE  CallTyped'
  <2>1. CASE Return(t)
    BY <2>1, ReturnEffect DEF CallTyped
  <2>2. CASE call' = [call EXCEPT ![t].got = Garbage] /\ UNCHANGED mutex
    <3>1. [call[t] EXCEPT !.got = Garbage] \in CallRecs
      BY DEF CallTyped, CallRecs, Nums
    <3> QED
      BY <2>2, <3>1, OneCall DEF CallTyped
  <2> QED
    BY Zenon, <2>1, <2>2, <1>7 DEF ReadBody
<1>8. ASSUME NEW t \in Threads, Timer(t) \/ Dangling(t)
      PROVE  CallTyped'
  <2>1. UNCHANGED mutex
    BY <1>8 DEF Timer, Dangling
  <2>2. CASE UNCHANGED call
    BY <2>1, <2>2 DEF CallTyped
  <2>3. CASE call' = [call EXCEPT ![t].expired = TRUE]
    <3>1. [call[t] EXCEPT !.expired = TRUE] \in CallRecs
      BY DEF CallTyped, CallRecs
    <3> QED
      BY <2>1, <2>3, <3>1, OneCall DEF CallTyped
  <2>4. CASE call' = [call EXCEPT ![t].failed = TRUE]
    <3>1. [call[t] EXCEPT !.failed = TRUE] \in CallRecs
      BY DEF CallTyped, CallRecs
    <3> QED
      BY <2>1, <2>4, <3>1, OneCall DEF CallTyped
  <2>5. CASE call' = [call EXCEPT ![t].done = TRUE, ![t].got = Garbage]
    <3>1. [call[t] EXCEPT !.done = TRUE, !.got = Garbage] \in CallRecs
      BY DEF CallTyped, CallRecs, Nums
    <3>2. call' = [call EXCEPT ![t] = [call[t] EXCEPT !.done = TRUE, !.got = Garbage]]
      BY <2>5
    <3> QED
      BY <2>1, <3>2, <3>1, OneCall DEF CallTyped
  <2> QED
    BY Zenon, <2>2, <2>3, <2>4, <2>5, <1>8 DEF Timer, Dangling
<1>9. CASE IoHeader \/ IoError
  <2>1. UNCHANGED mutex
    BY <1>9 DEF IoHeader, IoError
  <2>2. call' \in [Threads -> CallRecs]
    <3>1. CASE UNCHANGED call
      BY <3>1 DEF CallTyped
    <3>2. ASSUME NEW r, call' = [t \in Threads |-> IF t \in WaitingFor(r)
                           THEN [call[t] EXCEPT !.failed = TRUE] ELSE call[t]]
          PROVE  call' \in [Threads -> CallRecs]
      <4>1. \A t \in Threads : [call[t] EXCEPT !.failed = TRUE] \in CallRecs
        BY DEF CallTyped, CallRecs
      <4> QED
        BY <3>2, <4>1 DEF CallTyped
    <3>3. ASSUME NEW r, NEW got \in Nums,
                 call' = [t \in Threads |-> IF t \in WaitingFor(r)
                           THEN [call[t] EXCEPT !.done = TRUE, !.got = got] ELSE call[t]]
          PROVE  call' \in [Threads -> CallRecs]
      <4>1. \A t \in Threads : [call[t] EXCEPT !.done = TRUE, !.got = got] \in CallRecs
        BY DEF CallTyped, CallRecs
      <4> QED
        BY <3>3, <4>1 DEF CallTyped
    <3>4. IoHeader => HeaderIn(Head(stream)) \in Nums
      <4>1. IoHeader => Head(stream) \in Pieces
        BY TailOf DEF IoHeader, WireTyped
      <4> QED
        BY <4>1 DEF HeaderIn, Pieces, Nums
    <3>5. CASE IoHeader
      BY Zenon, <3>1, <3>2, <3>3, <3>4, <3>5 DEF IoHeader
    <3>6. CASE IoError
      BY Zenon, <3>1, <3>2, <3>6 DEF IoError
    <3> QED
      BY Zenon, <1>9, <3>5, <3>6
  <2> QED
    BY <2>1, <2>2 DEF CallTyped
<1> QED
  BY Zenon, <1>1, <1>2, <1>3, <1>4, <1>5, <1>6, <1>7, <1>8, <1>9, CallSteps

-----------------------------------------------------------------------------
(* The course of a call.                                                   *)

Begins(t) ==
    /\ call[t].at = "idle" /\ call'[t].at = "lock"
    /\ next \in Reqs /\ next' = next + 1
    /\ call'[t].req = next /\ call'[t].done = FALSE
    /\ UNCHANGED mutex

Locks(t) ==
    /\ call[t].at = "lock" /\ mutex = "free" /\ mutex' = t
    /\ call'[t].at = IF call[t].async THEN "admit" ELSE "send"
    /\ call'[t].req = call[t].req /\ call'[t].async = call[t].async
    /\ call'[t].done = call[t].done
    /\ UNCHANGED next

GoesOn(t) ==
    /\ <<call[t].at, call'[t].at>> \in
         {<<"admit", "send">>, <<"send", "write">>, <<"write", "wait">>,
          <<"write", "read">>, <<"read", "wait">>, <<"wait", "body">>}
    /\ call'[t].req = call[t].req /\ call'[t].async = call[t].async
    /\ call[t].at = "write" => ~call[t].async
    /\ call[t].at = "admit" => call'[t].done = call[t].done
    /\ UNCHANGED <<mutex, next>>

Ends(t) ==
    /\ call[t].at \notin {"idle", "lock"}
    /\ call'[t].at = "idle"
    /\ mutex' = "free"
    /\ UNCHANGED next

Stays(t) ==
    /\ call'[t].at = call[t].at /\ call'[t].req = call[t].req
    /\ call'[t].async = call[t].async
    /\ Early(t) => call'[t].done = call[t].done

\* One call at most begins, goes on to its next point or ends in a step.
LEMMA CallMoves ==
    ASSUME CallTyped, Next
    PROVE  \/ UNCHANGED <<mutex, next>> /\ \A u \in Threads : Stays(u)
           \/ \E t \in Threads :
                 /\ Begins(t) \/ Locks(t) \/ GoesOn(t) \/ Ends(t)
                 /\ \A u \in Threads : u # t => call'[u] = call[u]
<1> DEFINE Still == UNCHANGED <<mutex, next>> /\ \A u \in Threads : Stays(u)
           Moved(t) == /\ Begins(t) \/ Locks(t) \/ GoesOn(t) \/ Ends(t)
                       /\ \A u \in Threads : u # t => call'[u] = call[u]
<1>1. ASSUME UNCHANGED <<call, mutex, next>>
      PROVE  Still
  BY <1>1 DEF Stays
<1>2. ASSUME NEW t \in Threads, NEW async \in BOOLEAN, NEW timed \in BOOLEAN,
             Call(t, async, timed)
      PROVE  Moved(t)
  <2>1. call[t].at = "idle" /\ next \in Reqs /\ next' = next + 1 /\ UNCHANGED mutex
    BY <1>2 DEF Call
  <2>2. /\ call'[t].at = "lock" /\ call'[t].req = next /\ call'[t].done = FALSE
        /\ \A u \in Threads : u # t => call'[u] = call[u]
    BY Zenon, <1>2, CallEffect
  <2> QED
    BY Zenon, <2>1, <2>2 DEF Begins
<1>3. ASSUME NEW t \in Threads, NotCreated(t) \/ Reject(t) \/ SendFails(t) \/ GiveUp(t)
                                \/ ReadThrows(t)
      PROVE  Moved(t)
  <2>1. Return(t) /\ UNCHANGED next /\ call[t].at \notin {"idle", "lock"}
    BY <1>3 DEF NotCreated, Reject, SendFails, GiveUp, ReadThrows, bounds
  <2> QED
    BY <2>1, ReturnEffect, IdleRec DEF Ends
<1>4. ASSUME NEW t \in Threads, Lock(t)
      PROVE  Moved(t)
  <2>1. /\ call[t].at = "lock" /\ mutex = "free" /\ mutex' = t /\ UNCHANGED next
        /\ Goto(t, IF call[t].async THEN "admit" ELSE "send")
    BY <1>4 DEF Lock, bounds
  <2>2. (IF call[t].async THEN "admit" ELSE "send") \in Points
    BY DEF Points
  <2> QED
    BY Zenon, <2>1, <2>2, GotoEffect DEF Locks
<1>5. ASSUME NEW t \in Threads, Admit(t) \/ Drain(t) \/ HeaderDone(t)
      PROVE  Moved(t)
  <2>1. /\ \E point \in Points :
             /\ Goto(t, point)
             /\ <<call[t].at, point>> \in {<<"admit", "send">>, <<"send", "write">>,
                                           <<"wait", "body">>}
        /\ UNCHANGED <<mutex, next>>
    BY <1>5 DEF Admit, Drain, HeaderDone, bounds, Points
  <2> QED
    BY <2>1, GotoEffect DEF GoesOn
<1>6. ASSUME NEW t \in Threads, Write(t)
      PROVE  Moved(t)
  <2>1. CASE call[t].async
    <3>1. Return(t) /\ UNCHANGED next /\ call[t].at \notin {"idle", "lock"}
      BY <1>6, <2>1 DEF Write, bounds
    <3> QED
      BY <3>1, ReturnEffect, IdleRec DEF Ends
  <2>2. CASE ~call[t].async
    <3>1. /\ UNCHANGED <<mutex, next>> /\ call[t].at = "write"
          /\ \E point \in {"wait", "read"} : Goto(t, point)
      BY <1>6, <2>2 DEF Write, Points, bounds
    <3>2. {"wait", "read"} \subseteq Points
      BY DEF Points
    <3> QED
      BY <2>2, <3>1, <3>2, GotoEffect DEF GoesOn
  <2> QED
    BY Zenon, <2>1, <2>2
<1>7. ASSUME NEW t \in Threads, ReadHeader(t)
      PROVE  Moved(t)
  <2>1. call[t] \in CallRecs /\ call[t].at = "read" /\ UNCHANGED <<mutex, next>>
    BY <1>7 DEF CallTyped, ReadHeader, bounds
  <2>2. \E c : /\ call' = [call EXCEPT ![t] = c]
               /\ c.at = "wait" /\ c.req = call[t].req /\ c.async = call[t].async
    <3>1. CASE call' = [call EXCEPT ![t].at = "wait", ![t].done = TRUE,
                                    ![t].got = HeaderIn(Head(stream))]
      <4> DEFINE c == [call[t] EXCEPT !.at = "wait", !.done = TRUE,
                                      !.got = HeaderIn(Head(stream))]
      <4>1. c.at = "wait" /\ c.req = call[t].req /\ c.async = call[t].async
        BY <2>1 DEF CallRecs
      <4>2. call' = [call EXCEPT ![t] = c]
        BY <3>1
      <4> QED
        BY Zenon, <4>1, <4>2
    <3>2. CASE call' = [call EXCEPT ![t].at = "wait", ![t].failed = TRUE]
      <4> DEFINE c == [call[t] EXCEPT !.at = "wait", !.failed = TRUE]
      <4>1. c.at = "wait" /\ c.req = call[t].req /\ c.async = call[t].async
        BY <2>1 DEF CallRecs
      <4>2. call' = [call EXCEPT ![t] = c]
        BY <3>2
      <4> QED
        BY Zenon, <4>1, <4>2
    <3> QED
      BY Zenon, <3>1, <3>2, <1>7 DEF ReadHeader
  <2> QED
    BY <2>1, <2>2 DEF GoesOn, CallTyped
<1>8. ASSUME NEW t \in Threads, ReadBody(t)
      PROVE  Still \/ Moved(t)
  <2>1. call[t].at = "body" /\ UNCHANGED next
    BY <1>8 DEF ReadBody, bounds
  <2>2. CASE Return(t)
    BY <2>1, <2>2, ReturnEffect, IdleRec DEF Ends
  <2>3. CASE call' = [call EXCEPT ![t].got = Garbage] /\ UNCHANGED mutex
    <3>1. call[t] \in CallRecs
      BY DEF CallTyped
    <3>2. /\ [call[t] EXCEPT !.got = Garbage].at = call[t].at
          /\ [call[t] EXCEPT !.got = Garbage].req = call[t].req
          /\ [call[t] EXCEPT !.got = Garbage].async = call[t].async
      BY <3>1 DEF CallRecs
    <3>3. call'[t].at = call[t].at /\ call'[t].req = call[t].req
          /\ call'[t].async = call[t].async
          /\ \A u \in Threads : u # t => call'[u] = call[u]
      BY <2>3, <3>2 DEF CallTyped
    <3>4. \A u \in Threads : Stays(u)
      BY <3>3, <2>1 DEF Stays, Early
    <3> QED
      BY <2>1, <2>3, <3>4
  <2> QED
    BY Zenon, <2>2, <2>3, <1>8 DEF ReadBody
<1>9. ASSUME NEW t \in Threads, Timer(t) \/ Dangling(t)
      PROVE  Still
  <2>1. UNCHANGED <<mutex, next>> /\ call[t] \in CallRecs
    BY <1>9 DEF Timer, Dangling, bounds, CallTyped
  <2>2. CASE UNCHANGED call
    BY <2>1, <2>2 DEF Stays
  <2>3. ASSUME NEW d, call' = [call EXCEPT ![t] = d],
               call[t].at \in {"wait", "read"},
               d.at = call[t].at /\ d.req = call[t].req /\ d.async = call[t].async
        PROVE  \A u \in Threads : Stays(u)
    BY <2>3 DEF Stays, Early, CallTyped
  <2>4. CASE call' = [call EXCEPT ![t].expired = TRUE] /\ call[t].at \in {"wait", "read"}
    <3>1. /\ [call[t] EXCEPT !.expired = TRUE].at = call[t].at
          /\ [call[t] EXCEPT !.expired = TRUE].req = call[t].req
          /\ [call[t] EXCEPT !.expired = TRUE].async = call[t].async
      BY <2>1 DEF CallRecs
    <3> QED
      BY <2>1, <2>3, <2>4, <3>1
  <2>5. CASE call' = [call EXCEPT ![t].failed = TRUE] /\ call[t].at \in {"wait", "read"}
    <3>1. /\ [call[t] EXCEPT !.failed = TRUE].at = call[t].at
          /\ [call[t] EXCEPT !.failed = TRUE].req = call[t].req
          /\ [call[t] EXCEPT !.failed = TRUE].async = call[t].async
      BY <2>1 DEF CallRecs
    <3> QED
      BY <2>1, <2>3, <2>5, <3>1
  <2>6. CASE call' = [call EXCEPT ![t].done = TRUE, ![t].got = Garbage]
             /\ call[t].at \in {"wait", "read"}
    <3> DEFINE d == [call[t] EXCEPT !.done = TRUE, !.got = Garbage]
    <3>1. d.at = call[t].at /\ d.req = call[t].req /\ d.async = call[t].async
      BY <2>1 DEF CallRecs
    <3>2. call' = [call EXCEPT ![t] = d]
      BY <2>6
    <3> HIDE DEF d
    <3> QED
      BY <2>1, <2>3, <2>6, <3>1, <3>2
  <2>7. \/ UNCHANGED call
        \/ /\ call[t].at \in {"wait", "read"}
           /\ \/ call' = [call EXCEPT ![t].expired = TRUE]
              \/ call' = [call EXCEPT ![t].failed = TRUE]
              \/ call' = [call EXCEPT ![t].done = TRUE, ![t].got = Garbage]
    <3>1. call[t].at = "wait" => call[t].at \in {"wait", "read"}
      OBVIOUS
    <3> QED
      BY Zenon, <1>9, <3>1 DEF Timer, Dangling
  <2> QED
    BY Zenon, <2>1, <2>2, <2>4, <2>5, <2>6, <2>7
<1>10. ASSUME IoHeader \/ IoError
       PROVE  Still
  <2>1. UNCHANGED <<mutex, next>>
    BY <1>10 DEF IoHeader, IoError, bounds
  <2>2. ASSUME NEW r, call' = [t \in Threads |-> IF t \in WaitingFor(r)
                         THEN [call[t] EXCEPT !.failed = TRUE] ELSE call[t]]
        PROVE  \A u \in Threads : Stays(u)
    <3>1. ASSUME NEW t \in Threads
          PROVE  /\ [call[t] EXCEPT !.failed = TRUE].at = call[t].at
                 /\ [call[t] EXCEPT !.failed = TRUE].req = call[t].req
                 /\ [call[t] EXCEPT !.failed = TRUE].async = call[t].async
      BY DEF CallTyped, CallRecs
    <3> QED
      BY <2>2, <3>1 DEF WaitingFor, Stays, Early
  <2>3. ASSUME NEW r, NEW got,
               call' = [t \in Threads |-> IF t \in WaitingFor(r)
                         THEN [call[t] EXCEPT !.done = TRUE, !.got = got] ELSE call[t]]
        PROVE  \A u \in Threads : Stays(u)
    <3>1. ASSUME NEW t \in Threads
          PROVE  /\ [call[t] EXCEPT !.done = TRUE, !.got = got].at = call[t].at
                 /\ [call[t] EXCEPT !.done = TRUE, !.got = got].req = call[t].req
                 /\ [call[t] EXCEPT !.done = TRUE, !.got = got].async = call[t].async
      BY DEF CallTyped, CallRecs
    <3> QED
      BY <2>3, <3>1 DEF WaitingFor, Stays, Early
  <2>4. UNCHANGED call => \A u \in Threads : Stays(u)
    BY DEF Stays
  <2>5. CASE IoHeader
    BY Zenon, <2>1, <2>2, <2>3, <2>4, <2>5 DEF IoHeader
  <2>6. CASE IoError
    BY Zenon, <2>1, <2>2, <2>4, <2>6 DEF IoError
  <2> QED
    BY Zenon, <1>10, <2>5, <2>6
<1> HIDE DEF Still, Moved
<1>11. Still \/ \E t \in Threads : Moved(t)
  BY Zenon, <1>1, <1>2, <1>3, <1>4, <1>5, <1>6, <1>7, <1>8, <1>9, <1>10, CallSteps
<1> QED
  BY Zenon, <1>11 DEF Still, Moved

-----------------------------------------------------------------------------
(* Results.                                                                *)

\* A call that returns has its answer set, and no other has.
LEMMA AnswerMoves ==
    ASSUME Next, WireTyped, CallTyped
    PROVE  \/ UNCHANGED answer
           \/ \E t \in Threads, v \in Nums :
                 /\ call[t].at \notin {"idle", "lock"} /\ call'[t].at = "idle"
                 /\ answer' = [answer EXCEPT ![call[t].req] = v]
<1> DEFINE Set(t) == \E v \in Nums :
                       /\ call[t].at \notin {"idle", "lock"} /\ call'[t].at = "idle"
                       /\ answer' = [answer EXCEPT ![call[t].req] = v]
<1>1. ASSUME NEW t \in Threads, NotCreated(t) \/ SendFails(t) \/ GiveUp(t) \/ ReadThrows(t)
      PROVE  UNCHANGED answer \/ Set(t)
  <2>1. /\ call[t].at \notin {"idle", "lock"} /\ Return(t)
        /\ UNCHANGED answer \/ answer' = [answer EXCEPT ![call[t].req] = Failed]
    BY <1>1 DEF NotCreated, SendFails, GiveUp, ReadThrows
  <2>2. call'[t].at = "idle" /\ Failed \in Nums
    BY <2>1, ReturnEffect, IdleRec DEF Nums
  <2> QED
    BY Zenon, <2>1, <2>2
<1>2. ASSUME NEW t \in Threads, ReadBody(t)
      PROVE  UNCHANGED answer \/ Set(t)
  <2>1. CASE Return(t) /\ answer' = [answer EXCEPT ![call[t].req] = Body(call[t].got)]
    <3>1. call[t].at \notin {"idle", "lock"} /\ call'[t].at = "idle"
      BY <1>2, <2>1, ReturnEffect, IdleRec DEF ReadBody
    <3>2. Body(call[t].got) \in Nums
      BY DEF Body, Nums, CallTyped, CallRecs
    <3> QED
      BY Zenon, <2>1, <3>1, <3>2
  <2> QED
    BY Zenon, <1>2, <2>1 DEF ReadBody
<1> QED
  BY Zenon, <1>1, <1>2, AnswerSteps

\* Whose callback a step runs, and which of them is given a response.
CallerRuns(t, r) ==
    /\ call[t].at \in {"admit", "send", "write"} /\ r = call[t].req
    /\ call'[t].at = "idle"
    /\ call[t].at = "admit" \/ link = "broken"
    /\ UNCHANGED <<reads, aborted, io, ok>>

HandlerRuns(r) ==
    \/ /\ io.at = "run" /\ reads # <<>> /\ Head(reads).async /\ r = Head(reads).req
       /\ UNCHANGED ok
    \/ /\ io.at = "run" /\ aborted # <<>> /\ r = Head(aborted).req
       /\ UNCHANGED ok
    \/ /\ io.at # "run" /\ r = io.req
       /\ UNCHANGED ok \/ (ok' = [ok EXCEPT ![r] = TRUE] /\ io' = Running
                           /\ UNCHANGED <<reads, aborted>>)

CalledBack(r) ==
    /\ calls' = [calls EXCEPT ![r] = @ + 1]
    /\ inProgress' = FALSE
    /\ HandlerRuns(r) \/ \E t \in Threads : CallerRuns(t, r)

\* A step that touches the record of callbacks runs exactly one of them.
LEMMA CallbackMoves ==
    ASSUME Next, CallTyped
    PROVE  UNCHANGED <<calls, ok>> \/ \E r : CalledBack(r)
<1>1. ASSUME UNCHANGED <<reads, aborted, io, calls, ok, inProgress>>
      PROVE  UNCHANGED <<calls, ok>>
  BY <1>1
<1>2. ASSUME Destroy
      PROVE  UNCHANGED <<calls, ok>>
  BY <1>2 DEF Destroy, outcome
<1>3. ASSUME NEW t \in Threads, Admit(t) \/ Write(t) \/ GiveUp(t)
      PROVE  UNCHANGED <<calls, ok>>
  BY <1>3 DEF Admit, Write, GiveUp, outcome
<1>4. ASSUME NEW t \in Threads, Reject(t)
      PROVE  CalledBack(call[t].req)
  <2>1. call'[t].at = "idle"
    BY <1>4, ReturnEffect, IdleRec DEF Reject
  <2> QED
    BY Zenon, <1>4, <2>1 DEF Reject, Callback, CalledBack, CallerRuns
<1>5. ASSUME NEW t \in Threads, SendFails(t)
      PROVE  UNCHANGED <<calls, ok>> \/ CalledBack(call[t].req)
  <2>1. call'[t].at = "idle" /\ call[t].at \in {"admit", "send", "write"}
    BY <1>5, ReturnEffect, IdleRec DEF SendFails
  <2> QED
    BY Zenon, <1>5, <2>1 DEF SendFails, Callback, CalledBack, CallerRuns
<1>6. ASSUME IoHeader
      PROVE  UNCHANGED <<calls, ok>> \/ CalledBack(Head(reads).req)
  <2>1. io.at = "run"
    BY <1>6 DEF IoHeader, Running
  <2> QED
    BY Zenon, <1>6, <2>1 DEF IoHeader, Callback, CalledBack, HandlerRuns
<1>7. ASSUME IoError
      PROVE  UNCHANGED <<calls, ok>> \/ CalledBack(Head(reads).req)
  <2>1. io.at = "run"
    BY <1>7 DEF IoError, Running
  <2> QED
    BY Zenon, <1>7, <2>1 DEF IoError, Callback, CalledBack, HandlerRuns
<1>8. ASSUME IoAborted
      PROVE  CalledBack(Head(aborted).req)
  <2>1. io.at = "run"
    BY <1>8 DEF IoAborted, Running
  <2> QED
    BY Zenon, <1>8, <2>1 DEF IoAborted, Callback, CalledBack, HandlerRuns
<1>9. ASSUME IoAgain \/ IoBody \/ IoBodyFails
      PROVE  UNCHANGED <<calls, ok>> \/ CalledBack(io.req)
  <2>1. io.at # "run"
    BY <1>9 DEF IoAgain, IoBody, IoBodyFails
  <2> QED
    BY Zenon, <1>9, <2>1 DEF IoAgain, IoBody, IoBodyFails, Callback, CalledBack, HandlerRuns
<1> QED
  BY Zenon, <1>1, <1>2, <1>3, <1>4, <1>5, <1>6, <1>7, <1>8, <1>9, QueueSteps

-----------------------------------------------------------------------------
(* Types, continued, and the parts about calls.                            *)

\* The requests of calls under way, of queued reads and of the io thread.
Requested ==
    /\ \A t \in Threads : call[t].at # "idle" => call[t].req \in Reqs
    /\ io.at # "run" => io.req \in Reqs

\* The numbers that are in use are those of requests.
LEMMA RequestedInv == BoundTyped /\ Numbered /\ Queued => Requested
BY MaxRequestsAssumption DEF BoundTyped, Numbered, Queued, Requested, Reqs

\* The queues of reads stay well formed ...
LEMMA QueueTypedStep == Typed /\ Requested /\ Next => QueueTyped'
<1> SUFFICES ASSUME Typed, Requested, Next
             PROVE  QueueTyped'
  OBVIOUS
<1>0. reads \in Seq(Reads) /\ aborted \in Seq(Reads)
  BY DEF Typed, QueueTyped
<1>1. CASE UNCHANGED <<reads, aborted, io, calls, ok, inProgress>>
  BY <1>0, <1>1 DEF QueueTyped
<1>2. CASE Destroy
  BY <1>2 DEF Destroy, QueueTyped
<1>3. ASSUME NEW t \in Threads, Admit(t) \/ Write(t)
      PROVE  QueueTyped'
  <2>1. call[t].req \in Reqs
    BY <1>3 DEF Admit, Write, Requested
  <2>2. [req |-> call[t].req, async |-> TRUE] \in Reads
        /\ [req |-> call[t].req, async |-> FALSE] \in Reads
    BY <2>1 DEF Reads
  <2>3. /\ UNCHANGED aborted
        /\ \/ UNCHANGED reads
           \/ \E e \in Reads : reads' = Append(reads, e)
    BY <1>3, <2>2 DEF Admit, Write
  <2> QED
    BY <1>0, <2>3, AppendOf DEF QueueTyped
<1>4. ASSUME NEW t \in Threads, Reject(t) \/ SendFails(t)
      PROVE  QueueTyped'
  BY <1>0, <1>4 DEF Reject, SendFails, QueueTyped
<1>5. ASSUME NEW t \in Threads, GiveUp(t)
      PROVE  QueueTyped'
  <2>1. Cancel(t)
    BY Zenon, <1>5 DEF GiveUp
  <2> QED
    BY Zenon, <2>1, CancelEffect, EmptyQueue DEF QueueTyped
<1>6. CASE IoHeader \/ IoError
  <2>1. reads # <<>> /\ reads' = Tail(reads) /\ UNCHANGED aborted
    BY <1>6 DEF IoHeader, IoError
  <2> QED
    BY <1>0, <2>1, TailOf DEF QueueTyped
<1>7. CASE IoAborted
  <2>1. aborted # <<>> /\ aborted' = Tail(aborted) /\ UNCHANGED reads
    BY <1>7 DEF IoAborted
  <2> QED
    BY <1>0, <2>1, TailOf DEF QueueTyped
<1>8. CASE IoAgain \/ IoBody \/ IoBodyFails
  <2>1. UNCHANGED reads /\ UNCHANGED aborted
    BY Zenon, <1>8 DEF IoAgain, IoBody, IoBodyFails
  <2> QED
    BY <1>0, <2>1 DEF QueueTyped
<1> QED
  BY Zenon, <1>1, <1>2, <1>3, <1>4, <1>5, <1>6, <1>7, <1>8, QueueSteps

\* ... and so do what the io thread is doing,
LEMMA IoTypedStep == Typed /\ Next => IoTyped'
<1> SUFFICES ASSUME Typed, Next
             PROVE  IoTyped'
  OBVIOUS
<1>0. /\ reads \in Seq(Reads) /\ aborted \in Seq(Reads) /\ stream \in Seq(Pieces)
      /\ io \in IoRecs
  BY DEF Typed, QueueTyped, WireTyped, IoTyped
<1>1. ASSUME UNCHANGED io
      PROVE  IoTyped'
  BY <1>0, <1>1 DEF IoTyped
<1>2. ASSUME io' = Running
      PROVE  IoTyped'
  BY <1>2, MaxRequestsAssumption DEF IoTyped, IoRecs, Running, Nums, Failed
<1>3. ASSUME NEW q \in Seq(Reads), q # <<>>, NEW at \in {"body", "again"}, NEW got \in Nums,
             io' = [at |-> at, req |-> Head(q).req, got |-> got]
      PROVE  IoTyped'
  <2>1. Head(q) \in Reads
    BY <1>3, TailOf
  <2> QED
    BY <2>1, <1>3 DEF IoTyped, IoRecs, Reads, Reqs
<1>4. CASE IoHeader
  <2>1. HeaderIn(Head(stream)) \in Nums
    <3>1. Head(stream) \in Pieces
      BY <1>0, <1>4, TailOf DEF IoHeader
    <3> QED
      BY <3>1 DEF HeaderIn, Pieces, Nums
  <2>2. \/ UNCHANGED io
        \/ io' = [at |-> "body", req |-> Head(reads).req, got |-> HeaderIn(Head(stream))]
    BY Zenon, <1>4 DEF IoHeader
  <2> QED
    BY <1>0, <1>1, <1>3, <1>4, <2>1, <2>2 DEF IoHeader
<1>5. CASE IoError \/ IoAborted
  <2>1. 0 \in Nums
    BY DEF Nums, Failed
  <2>2. \/ UNCHANGED io
        \/ \E q \in {reads, aborted} :
              q # <<>> /\ io' = [at |-> "again", req |-> Head(q).req, got |-> 0]
    BY <1>5 DEF IoError, IoAborted
  <2> QED
    BY <1>0, <1>1, <1>3, <2>1, <2>2
<1>6. CASE IoBody
  <2>1. [io EXCEPT !.got = Garbage] \in IoRecs
    BY <1>0 DEF IoRecs, Nums
  <2> QED
    BY <1>2, <1>6, <2>1 DEF IoBody, IoTyped
<1>7. CASE IoAgain \/ IoBodyFails
  BY <1>2, <1>7 DEF IoAgain, IoBodyFails
<1>8. ASSUME NEW t \in Threads, Admit(t) \/ Reject(t) \/ Write(t) \/ SendFails(t) \/ GiveUp(t)
      PROVE  UNCHANGED io
  BY Zenon, <1>8 DEF Admit, Reject, Write, SendFails, GiveUp
<1>9. Destroy => UNCHANGED io
  BY DEF Destroy
<1>10. UNCHANGED <<reads, aborted, io, calls, ok, inProgress>> => UNCHANGED io
  OBVIOUS
<1> QED
  BY Zenon, <1>1, <1>4, <1>5, <1>6, <1>7, <1>8, <1>9, <1>10, QueueSteps

\* the counts of handlers left behind,
LEMMA DanglingTypedStep == Typed /\ Next => DanglingTyped'
<1> SUFFICES ASSUME Typed, Next
             PROVE  DanglingTyped'
  OBVIOUS
<1>0. dangling \in [Threads -> Nat]
  BY DEF Typed, DanglingTyped
<1>1. CASE UNCHANGED dangling
  BY <1>0, <1>1 DEF DanglingTyped
<1>2. CASE Destroy
  BY <1>2 DEF Destroy, DanglingTyped
<1>3. ASSUME NEW t \in Threads, GiveUp(t) \/ HeaderDone(t)
      PROVE  DanglingTyped'
  <2>1. UNCHANGED dangling \/ LeaveFrame(t, ReadPosted(t))
    BY Zenon, <1>3 DEF GiveUp, HeaderDone
  <2> QED
    BY <1>0, <2>1 DEF LeaveFrame, ReadPosted, DanglingTyped
<1>4. ASSUME NEW t \in Threads, Dangling(t)
      PROVE  DanglingTyped'
  BY <1>0, <1>4 DEF Dangling, DanglingTyped
<1> QED
  BY Zenon, <1>1, <1>2, <1>3, <1>4, DanglingSteps

\* what came of the requests,
LEMMA OutcomeTypedStep ==
    Typed /\ Requested /\ Next => AnswerTyped' /\ CallsTyped' /\ OkTyped'
<1> SUFFICES ASSUME Typed, Requested, Next
             PROVE  AnswerTyped' /\ CallsTyped' /\ OkTyped'
  OBVIOUS
<1>1. AnswerTyped'
  BY AnswerMoves DEF Typed, AnswerTyped
<1>2. CASE UNCHANGED <<calls, ok>>
  BY <1>1, <1>2 DEF Typed, CallsTyped, OkTyped
<1>3. ASSUME NEW r, CalledBack(r)
      PROVE  CallsTyped' /\ OkTyped'
  <2>0. calls \in [Reqs -> Nat] /\ calls' = [calls EXCEPT ![r] = @ + 1]
    BY <1>3 DEF CalledBack, Typed, CallsTyped
  <2>1. CallsTyped'
    <3>1. CASE r \in Reqs
      <4>1. calls[r] + 1 \in Nat
        BY <2>0, <3>1
      <4> QED
        BY <2>0, <4>1 DEF CallsTyped
    <3>2. CASE r \notin Reqs
      BY <2>0, <3>2 DEF CallsTyped
    <3> QED
      BY Zenon, <3>1, <3>2
  <2>2. UNCHANGED ok \/ ok' = [ok EXCEPT ![r] = TRUE]
    BY Zenon, <1>3 DEF CalledBack, HandlerRuns, CallerRuns
  <2>3. OkTyped'
    BY <2>2 DEF Typed, OkTyped
  <2> QED
    BY <2>1, <2>3
<1> QED
  BY Zenon, <1>1, <1>2, <1>3, CallbackMoves DEF Typed

\* the set of clean ones,
LEMMA CleanTypedStep == Typed /\ Requested /\ Next => CleanTyped'
<1> SUFFICES ASSUME Typed, Requested, Next
             PROVE  CleanTyped'
  OBVIOUS
<1>1. ASSUME NEW t \in Threads, Drain(t)
      PROVE  CleanTyped'
  BY <1>1 DEF Drain, Requested, Typed, CleanTyped
<1> QED
  BY <1>1, CleanSteps DEF Typed, CleanTyped

\* and the two counters.
LEMMA BoundTypedStep == Typed /\ Next => BoundTyped'
<1> SUFFICES ASSUME Typed, Next
             PROVE  BoundTyped'
  OBVIOUS
<1>0. next \in 1..(MaxRequests + 1) /\ faults \in Nat /\ CallTyped
  BY DEF Typed, BoundTyped
<1>1. next' \in 1..(MaxRequests + 1)
  <2>1. UNCHANGED next \/ (next \in Reqs /\ next' = next + 1)
    BY Zenon, <1>0, CallMoves DEF Begins, Locks, GoesOn, Ends
  <2> QED
    BY <1>0, <2>1, MaxRequestsAssumption DEF Reqs
<1>2. faults' \in Nat
  <2>1. UNCHANGED faults \/ faults' = faults + 1
    BY FaultSteps DEF Break, Create, Fault
  <2> QED
    BY <1>0, <2>1
<1> QED
  BY <1>1, <1>2 DEF BoundTyped

\* Types are kept by every step.
LEMMA TypedStep == Typed /\ Requested /\ [Next]_vars => Typed'
<1>1. Typed /\ UNCHANGED vars => Typed'
  <2> SUFFICES ASSUME Typed, UNCHANGED vars
               PROVE  Typed'
    OBVIOUS
  <2>1. /\ UNCHANGED <<link, stream, outbox>> /\ UNCHANGED <<created, inProgress>>
        /\ UNCHANGED <<reads, aborted>> /\ UNCHANGED io /\ UNCHANGED <<mutex, call>>
        /\ UNCHANGED dangling /\ UNCHANGED <<answer, calls, ok>> /\ UNCHANGED clean
        /\ UNCHANGED <<next, faults>>
    BY DEF vars
  <2> QED
    BY Zenon, <2>1 DEF Typed, WireTyped, FlagTyped, QueueTyped, IoTyped, CallTyped,
       DanglingTyped, AnswerTyped, CallsTyped, OkTyped, CleanTyped, BoundTyped
<1>2. Typed /\ Requested /\ Next => Typed'
  BY Zenon, WireTypedStep, FlagTypedStep, QueueTypedStep, IoTypedStep, CallTypedStep,
     DanglingTypedStep, OutcomeTypedStep, CleanTypedStep, BoundTypedStep
     DEF Typed, Requested
<1> QED
  BY Zenon, <1>1, <1>2

\* A thread takes the mutex when it is free and gives it back when its call ends.
LEMMA MutexHeldStep == Typed /\ MutexHeld /\ Next => MutexHeld'
<1> SUFFICES ASSUME Typed, MutexHeld, Next
             PROVE  MutexHeld'
  OBVIOUS
<1>0. CallTyped
  BY DEF Typed
<1>1. CASE UNCHANGED <<mutex, next>> /\ \A u \in Threads : Stays(u)
  BY <1>1 DEF MutexHeld, Stays
<1>2. ASSUME NEW t \in Threads, Begins(t) \/ Locks(t) \/ GoesOn(t) \/ Ends(t),
             \A u \in Threads : u # t => call'[u] = call[u]
      PROVE  MutexHeld'
  <2>1. CASE Begins(t)
    BY <1>2, <2>1 DEF Begins, MutexHeld
  <2>2. CASE Locks(t)
    BY <1>2, <2>2, ThreadsAssumption DEF Locks, MutexHeld
  <2>3. CASE GoesOn(t)
    BY <1>2, <2>3 DEF GoesOn, MutexHeld
  <2>4. CASE Ends(t)
    BY <1>2, <2>4, ThreadsAssumption DEF Ends, MutexHeld
  <2> QED
    BY Zenon, <1>2, <2>1, <2>2, <2>3, <2>4
<1> QED
  BY Zenon, <1>0, <1>1, <1>2, CallMoves

\* A call goes through its points in order.
LEMMA StagedStep == Typed /\ Staged /\ Next => Staged'
<1> SUFFICES ASSUME Typed, Staged, Next
             PROVE  Staged'
  OBVIOUS
<1>0. CallTyped
  BY DEF Typed
<1>1. CASE UNCHANGED <<mutex, next>> /\ \A u \in Threads : Stays(u)
  BY <1>1 DEF Staged, Stays, Early
<1>2. ASSUME NEW t \in Threads, Begins(t) \/ Locks(t) \/ GoesOn(t) \/ Ends(t),
             \A u \in Threads : u # t => call'[u] = call[u]
      PROVE  Staged'
  <2>1. CASE Begins(t)
    BY <1>2, <2>1 DEF Begins, Staged, Early
  <2>2. CASE Locks(t)
    BY <1>2, <2>2 DEF Locks, Staged, Early
  <2>3. CASE GoesOn(t)
    BY <1>2, <2>3 DEF GoesOn, Staged, Early
  <2>4. CASE Ends(t)
    BY <1>2, <2>4 DEF Ends, Staged, Early
  <2> QED
    BY Zenon, <1>2, <2>1, <2>2, <2>3, <2>4
<1> QED
  BY Zenon, <1>0, <1>1, <1>2, CallMoves

\* No step runs the callback of a request that was not made, nor of one whose
\* call is not admitted, but for its own.
LEMMA CallbacksMade ==
    ASSUME Typed, Numbered, Queued, NEW r, CalledBack(r)
    PROVE  r \in 1..(next - 1)
<1>0. /\ reads \in Seq(Reads) /\ aborted \in Seq(Reads)
      /\ next \in Nat
  BY MaxRequestsAssumption DEF Typed, QueueTyped, BoundTyped
<1>1. CASE HandlerRuns(r)
  <2>1. CASE reads # <<>> /\ r = Head(reads).req
    <3>1. Head(reads) \in Reads /\ 1 \in DOMAIN reads /\ Head(reads) = reads[1]
      BY <1>0, <2>1, TailOf
    <3> QED
      BY <1>0, <2>1, <3>1 DEF Queued, Reads, Reqs
  <2>2. CASE aborted # <<>> /\ r = Head(aborted).req
    <3>1. Head(aborted) \in Reads /\ 1 \in DOMAIN aborted /\ Head(aborted) = aborted[1]
      BY <1>0, <2>2, TailOf
    <3> QED
      BY <1>0, <2>2, <3>1 DEF Queued, Reads, Reqs
  <2>3. CASE io.at # "run" /\ r = io.req
    BY <2>3 DEF Queued
  <2> QED
    BY Zenon, <1>1, <2>1, <2>2, <2>3 DEF HandlerRuns
<1>2. ASSUME NEW t \in Threads, CallerRuns(t, r)
      PROVE  r \in 1..(next - 1)
  BY <1>2 DEF CallerRuns, Numbered
<1> QED
  BY Zenon, <1>1, <1>2 DEF CalledBack

\* A call keeps its request, and a new one is given the next number.
LEMMA RequestMoves ==
    ASSUME Typed, Next
    PROVE  /\ next \in Nat \ {0} /\ next' \in Nat /\ next <= next'
           /\ \A t \in Threads : call'[t].at # "idle" =>
                \/ call[t].at # "idle" /\ call'[t].req = call[t].req
                \/ /\ call[t].at = "idle"
                   /\ call'[t].req = next /\ next \in Reqs /\ next' = next + 1
                   /\ \A u \in Threads : u # t => call'[u] = call[u]
<1>0. next \in Nat \ {0} /\ CallTyped
  BY MaxRequestsAssumption DEF Typed, BoundTyped
<1> DEFINE Fine == /\ next \in Nat \ {0} /\ next' \in Nat /\ next <= next'
           /\ \A t \in Threads : call'[t].at # "idle" =>
                \/ call[t].at # "idle" /\ call'[t].req = call[t].req
                \/ /\ call[t].at = "idle"
                   /\ call'[t].req = next /\ next \in Reqs /\ next' = next + 1
                   /\ \A u \in Threads : u # t => call'[u] = call[u]
<1>1. CASE UNCHANGED <<mutex, next>> /\ \A u \in Threads : Stays(u)
  BY <1>0, <1>1 DEF Stays
<1>2. ASSUME NEW t \in Threads, Begins(t) \/ Locks(t) \/ GoesOn(t) \/ Ends(t),
             \A u \in Threads : u # t => call'[u] = call[u]
      PROVE  Fine
  <2>1. CASE Begins(t)
    BY <1>0, <1>2, <2>1 DEF Begins
  <2>2. CASE Locks(t)
    BY <1>0, <1>2, <2>2 DEF Locks
  <2>3. CASE GoesOn(t)
    BY <1>0, <1>2, <2>3 DEF GoesOn
  <2>4. CASE Ends(t)
    BY <1>0, <1>2, <2>4 DEF Ends
  <2> HIDE DEF Fine
  <2> QED
    BY Zenon, <1>2, <2>1, <2>2, <2>3, <2>4
<1> QED
  BY Zenon, <1>0, <1>1, <1>2, CallMoves

\* The next request has a number that no other has.
LEMMA NumberedStep == Typed /\ Numbered /\ Queued /\ Next => Numbered'
<1> SUFFICES ASSUME Typed, Numbered, Queued, Next
             PROVE  Numbered'
  OBVIOUS
<1>1. /\ answer \in [Reqs -> Nums \cup {Pending}] /\ calls \in [Reqs -> Nat]
      /\ ok \in [Reqs -> BOOLEAN]
      /\ CallTyped /\ WireTyped
  BY DEF Typed, AnswerTyped, CallsTyped, OkTyped
<1>2. \A t \in Threads : call'[t].at # "idle" => call'[t].req \in 1..(next' - 1)
  BY RequestMoves DEF Numbered
<1>3. \A t, u \in Threads : /\ call'[t].at # "idle" /\ call'[u].at # "idle"
                            /\ call'[t].req = call'[u].req
                            => t = u
  <2> SUFFICES ASSUME NEW t \in Threads, NEW u \in Threads,
                      call'[t].at # "idle", call'[u].at # "idle",
                      call'[t].req = call'[u].req, t # u
               PROVE  FALSE
    OBVIOUS
  <2>1. CASE call[t].at # "idle" /\ call'[t].req = call[t].req
             /\ call[u].at # "idle" /\ call'[u].req = call[u].req
    BY Zenon, <2>1 DEF Numbered
  <2>2. ASSUME NEW a \in Threads, NEW b \in Threads, a # b,
               call'[a].req = next, \A c \in Threads : c # a => call'[c] = call[c],
               call'[b].at # "idle", call'[a].req = call'[b].req
        PROVE  FALSE
    BY <2>2, RequestMoves DEF Numbered
  <2> QED
    BY Zenon, <2>1, <2>2, RequestMoves
<1>4. \A t \in Threads : call'[t].at # "idle" => answer'[call'[t].req] = Pending
  <2> SUFFICES ASSUME NEW t \in Threads, call'[t].at # "idle"
               PROVE  answer'[call'[t].req] = Pending
    OBVIOUS
  <2>1. answer[call'[t].req] = Pending /\ call'[t].req \in Reqs
    BY RequestMoves, MaxRequestsAssumption DEF Numbered, Typed, BoundTyped, Reqs
  <2>2. ASSUME NEW u \in Threads, NEW v \in Nums,
               call[u].at \notin {"idle", "lock"}, call'[u].at = "idle",
               answer' = [answer EXCEPT ![call[u].req] = v]
        PROVE  answer'[call'[t].req] = Pending
    <3>1. call'[t].req # call[u].req
      BY <2>2, RequestMoves DEF Numbered
    <3> QED
      BY <1>1, <2>1, <2>2, <3>1
  <2> QED
    BY Zenon, <1>1, <2>1, <2>2, AnswerMoves
<1>5. \A r \in Reqs : r >= next' => answer'[r] = Pending /\ calls'[r] = 0 /\ ~ok'[r]
  <2> SUFFICES ASSUME NEW r \in Reqs, r >= next'
               PROVE  answer'[r] = Pending /\ calls'[r] = 0 /\ ~ok'[r]
    OBVIOUS
  <2>1. r >= next /\ answer[r] = Pending /\ calls[r] = 0 /\ ~ok[r] /\ r \notin 1..(next - 1)
    BY RequestMoves DEF Numbered, Reqs
  <2>2. answer'[r] = Pending
    <3>1. ASSUME NEW u \in Threads, NEW v \in Nums,
                 call[u].at \notin {"idle", "lock"},
                 answer' = [answer EXCEPT ![call[u].req] = v]
          PROVE  answer'[r] = Pending
      BY <1>1, <2>1, <3>1 DEF Numbered
    <3> QED
      BY Zenon, <1>1, <2>1, <3>1, AnswerMoves
  <2>3. ASSUME NEW s, CalledBack(s)
        PROVE  calls'[r] = 0 /\ ~ok'[r]
    <3>1. s # r
      BY <2>1, <2>3, CallbacksMade
    <3>2. calls' = [calls EXCEPT ![s] = @ + 1]
      BY <2>3 DEF CalledBack
    <3>3. UNCHANGED ok \/ ok' = [ok EXCEPT ![s] = TRUE]
      BY Zenon, <2>3 DEF CalledBack, HandlerRuns, CallerRuns
    <3>4. calls'[r] = 0
      BY <1>1, <2>1, <3>1, <3>2
    <3>5. ~ok'[r]
      BY Zenon, <1>1, <2>1, <3>1, <3>3
    <3> QED
      BY <3>4, <3>5
  <2>4. UNCHANGED <<calls, ok>> => calls'[r] = 0 /\ ~ok'[r]
    BY <2>1
  <2> QED
    BY Zenon, <1>1, <2>2, <2>3, <2>4, CallbackMoves
<1> QED
  BY Zenon, <1>2, <1>3, <1>4, <1>5 DEF Numbered

\* Twice a count.
LEMMA Doubles ==
    ASSUME NEW m \in Nat, NEW n \in Nat, m <= n
    PROVE  /\ 2 * (m - 1) <= 2 * (n - 1) /\ 2 * (m - 2) <= 2 * (n - 2)
           /\ 2 * (m - 1) \in Int /\ 2 * (n - 1) \in Int
           /\ 2 * (m - 2) \in Int /\ 2 * (n - 2) \in Int
OBVIOUS

\* The number of handlers a thread may have left behind only grows, and by two
\* when its wait ends.
LEMMA LimitMoves ==
    ASSUME Typed, Next, NEW t \in Threads
    PROVE  /\ DanglingLimit(t) \in Int /\ DanglingLimit(t)' \in Int
           /\ DanglingLimit(t) <= DanglingLimit(t)'
           /\ call[t].at = "wait" /\ call'[t].at # "wait"
              => DanglingLimit(t) + 2 <= DanglingLimit(t)'
<1>0. next \in Nat \ {0} /\ CallTyped /\ next' \in Nat /\ next <= next'
  BY RequestMoves DEF Typed
<1>1. \/ call'[t].at = call[t].at
      \/ Begins(t) \/ Locks(t) \/ GoesOn(t) \/ Ends(t)
  <2>1. call' [t] = call[t] => call'[t].at = call[t].at
    OBVIOUS
  <2> QED
    BY Zenon, <1>0, <2>1, CallMoves DEF Stays
<1>2. CASE call'[t].at = call[t].at
  <2>1. /\ 2 * (next - 1) <= 2 * (next' - 1) /\ 2 * (next - 2) <= 2 * (next' - 2)
        /\ 2 * (next - 1) \in Int /\ 2 * (next' - 1) \in Int
        /\ 2 * (next - 2) \in Int /\ 2 * (next' - 2) \in Int
    BY Zenon, <1>0, Doubles, next \in Nat
  <2> QED
    BY Zenon, <2>1, <1>2 DEF DanglingLimit
<1>3. CASE Begins(t)
  BY <1>0, <1>3 DEF Begins, DanglingLimit
<1>4. CASE Locks(t)
  BY <1>0, <1>4 DEF Locks, DanglingLimit
<1>5. CASE GoesOn(t)
  BY <1>0, <1>5 DEF GoesOn, DanglingLimit
<1>6. CASE Ends(t)
  BY <1>0, <1>6 DEF Ends, DanglingLimit
<1> QED
  BY Zenon, <1>1, <1>2, <1>3, <1>4, <1>5, <1>6

\* A wait leaves two handlers behind at most and there is one wait per request.
LEMMA FewDanglingStep == Typed /\ FewDangling /\ Next => FewDangling'
<1> SUFFICES ASSUME Typed, FewDangling, Next, NEW u \in Threads
             PROVE  dangling'[u] <= DanglingLimit(u)'
  BY DEF FewDangling
<1>0. dangling \in [Threads -> Nat] /\ dangling[u] <= DanglingLimit(u) /\ CallTyped
  BY DEF Typed, DanglingTyped, FewDangling
<1>1. CASE UNCHANGED dangling
  BY <1>0, <1>1, LimitMoves
<1>2. CASE Destroy
  <2>1. dangling'[u] = 0 /\ call'[u].at = "idle"
    BY <1>2 DEF Destroy, Quiet
  <2>2. next' \in Nat \ {0}
    BY RequestMoves
  <2> QED
    BY <2>1, <2>2 DEF DanglingLimit
<1>3. ASSUME NEW t \in Threads, GiveUp(t) \/ HeaderDone(t)
      PROVE  dangling'[u] <= DanglingLimit(u)'
  <2>1. call[t].at = "wait" /\ call'[t].at # "wait"
    <3>1. CASE GiveUp(t)
      BY <1>0, <3>1, ReturnEffect, IdleRec DEF GiveUp
    <3>2. CASE HeaderDone(t)
      <4>1. Goto(t, "body") /\ "body" \in Points /\ call[t].at = "wait"
        BY <3>2 DEF HeaderDone, Points
      <4> QED
        BY <1>0, <4>1, GotoEffect
    <3> QED
      BY Zenon, <1>3, <3>1, <3>2
  <2>2. \/ UNCHANGED dangling
        \/ \E late \in {0, 1}, pending \in {0, 1} :
              dangling' = [dangling EXCEPT ![t] = @ + pending + late]
    <3>1. UNCHANGED dangling \/ LeaveFrame(t, ReadPosted(t))
      BY Zenon, <1>3 DEF GiveUp, HeaderDone
    <3>2. ReadPosted(t) \in {0, 1}
      BY DEF ReadPosted
    <3> QED
      BY Zenon, <3>1, <3>2 DEF LeaveFrame
  <2>3. CASE u = t
    <3>1. dangling'[u] <= dangling[u] + 2 /\ dangling'[u] \in Nat
      BY <1>0, <2>2, <2>3
    <3> QED
      BY <1>0, <2>1, <2>3, <3>1, LimitMoves
  <2>4. CASE u # t
    <3>1. dangling'[u] = dangling[u]
      BY <1>0, <2>2, <2>4
    <3> QED
      BY <1>0, <3>1, LimitMoves
  <2> QED
    BY <2>3, <2>4
<1>4. ASSUME NEW t \in Threads, Dangling(t)
      PROVE  dangling'[u] <= DanglingLimit(u)'
  <2>1. dangling[t] > 0 /\ dangling' = [dangling EXCEPT ![t] = @ - 1]
    BY <1>4 DEF Dangling
  <2>2. dangling'[u] <= dangling[u] /\ dangling'[u] \in Int
    BY <1>0, <2>1
  <2> QED
    BY <1>0, <2>2, LimitMoves
<1> QED
  BY Zenon, <1>1, <1>2, <1>3, <1>4, DanglingSteps

-----------------------------------------------------------------------------
(* Handlers of asynchronous requests.                                      *)

\* How a step moves the handlers about.
Admits(t) ==
    /\ call[t].at = "admit" /\ call'[t].at = "send"
    /\ reads' = Append(reads, [req |-> call[t].req, async |-> TRUE])
    /\ UNCHANGED <<aborted, io>>

Posts(t) ==
    /\ call[t].at = "write"
    /\ reads' = Append(reads, [req |-> call[t].req, async |-> FALSE])
    /\ UNCHANGED <<aborted, io>>

TakesRead ==
    /\ reads # <<>> /\ reads' = Tail(reads) /\ io.at = "run"
    /\ \/ UNCHANGED io
       \/ Head(reads).async /\ io'.at # "run" /\ io'.req = Head(reads).req
    /\ UNCHANGED aborted

TakesAborted ==
    /\ aborted # <<>> /\ aborted' = Tail(aborted)
    /\ io.at = "run" /\ io'.at = "again" /\ io'.req = Head(aborted).req
    /\ UNCHANGED reads

IoGoesOn ==
    /\ io.at # "run"
    /\ io'.at = "run" \/ (io'.at = io.at /\ io'.req = io.req)
    /\ UNCHANGED <<reads, aborted>>

\* What a step may do with the reads and their handlers.
LEMMA QueueMoves ==
    ASSUME Next, Typed
    PROVE  \/ UNCHANGED <<reads, aborted, io>>
           \/ reads' = <<>> /\ aborted' = <<>> /\ UNCHANGED io
           \/ \E t \in Threads : Admits(t) \/ Posts(t) \/ (Cancel(t) /\ UNCHANGED io)
           \/ TakesRead \/ TakesAborted \/ IoGoesOn
<1>1. UNCHANGED <<reads, aborted, io, calls, ok, inProgress>>
      => UNCHANGED <<reads, aborted, io>>
  OBVIOUS
<1>2. Destroy => reads' = <<>> /\ aborted' = <<>> /\ UNCHANGED io
  BY DEF Destroy
<1>3. ASSUME NEW t \in Threads, Admit(t)
      PROVE  Admits(t)
  <2>1. Goto(t, "send") /\ "send" \in Points /\ CallTyped
    BY <1>3 DEF Admit, Points, Typed
  <2> QED
    BY Zenon, <1>3, <2>1, GotoEffect DEF Admit, Admits
<1>4. ASSUME NEW t \in Threads, Reject(t) \/ SendFails(t)
      PROVE  UNCHANGED <<reads, aborted, io>>
  BY <1>4 DEF Reject, SendFails
<1>5. ASSUME NEW t \in Threads, Write(t)
      PROVE  UNCHANGED <<reads, aborted, io>> \/ Posts(t)
  BY Zenon, <1>5 DEF Write, Posts
<1>6. ASSUME NEW t \in Threads, GiveUp(t)
      PROVE  Cancel(t) /\ UNCHANGED io
  BY Zenon, <1>6 DEF GiveUp
<1>7. IoHeader => TakesRead
  <2> SUFFICES ASSUME IoHeader PROVE TakesRead
    OBVIOUS
  <2>1. io.at = "run" /\ reads # <<>> /\ reads' = Tail(reads) /\ UNCHANGED aborted
    BY DEF IoHeader, Running
  <2>2. \/ UNCHANGED io
        \/ /\ Head(reads).async
           /\ io' = [at |-> "body", req |-> Head(reads).req, got |-> HeaderIn(Head(stream))]
    BY Zenon DEF IoHeader
  <2> QED
    BY <2>1, <2>2 DEF TakesRead
<1>8. IoError => TakesRead
  <2> SUFFICES ASSUME IoError PROVE TakesRead
    OBVIOUS
  <2>1. io.at = "run" /\ reads # <<>> /\ reads' = Tail(reads) /\ UNCHANGED aborted
    BY DEF IoError, Running
  <2>2. \/ UNCHANGED io
        \/ /\ Head(reads).async
           /\ io' = [at |-> "again", req |-> Head(reads).req, got |-> 0]
    BY Zenon DEF IoError
  <2> QED
    BY <2>1, <2>2 DEF TakesRead
<1>9. IoAborted => TakesAborted
  BY DEF IoAborted, TakesAborted, Running
<1>10. IoAgain \/ IoBody \/ IoBodyFails => IoGoesOn
  <2> SUFFICES ASSUME IoAgain \/ IoBody \/ IoBodyFails PROVE IoGoesOn
    OBVIOUS
  <2>1. io.at # "run" /\ UNCHANGED <<reads, aborted>>
    BY DEF IoAgain, IoBody, IoBodyFails
  <2>2. io' = Running \/ io' = [io EXCEPT !.got = Garbage]
    BY Zenon DEF IoAgain, IoBody, IoBodyFails
  <2>3. /\ Running.at = "run"
        /\ [io EXCEPT !.got = Garbage].at = io.at
        /\ [io EXCEPT !.got = Garbage].req = io.req
    BY DEF Running, Typed, IoTyped, IoRecs
  <2> QED
    BY Zenon, <2>1, <2>2, <2>3 DEF IoGoesOn
<1> QED
  BY Zenon, <1>1, <1>2, <1>3, <1>4, <1>5, <1>6, <1>7, <1>8, <1>9, <1>10, QueueSteps

\* What holds of every handler's request holds of those that are left, and of
\* those there are in the next state if it holds of the one that is admitted.
LEMMA HandlersFrom ==
    ASSUME Next, Typed, Requested
    PROVE  /\ \A i \in DOMAIN reads' :
                \/ \E j \in DOMAIN reads : reads'[i] = reads[j]
                \/ \E t \in Threads : Admits(t) /\ reads'[i].req = call[t].req
                \/ \E t \in Threads : /\ Posts(t) /\ reads'[i].req = call[t].req
                                      /\ reads'[i].async = FALSE
           /\ \A i \in DOMAIN aborted' :
                \/ \E j \in DOMAIN aborted : aborted'[i] = aborted[j]
                \/ \E j \in DOMAIN reads : reads[j].async /\ aborted'[i] = reads[j]
           /\ io'.at # "run" =>
                \/ io.at # "run" /\ io'.req = io.req
                \/ \E j \in DOMAIN reads : reads[j].async /\ io'.req = reads[j].req
                \/ \E j \in DOMAIN aborted : io'.req = aborted[j].req
<1> DEFINE NewReads == \A i \in DOMAIN reads' :
                \/ \E j \in DOMAIN reads : reads'[i] = reads[j]
                \/ \E t \in Threads : Admits(t) /\ reads'[i].req = call[t].req
                \/ \E t \in Threads : /\ Posts(t) /\ reads'[i].req = call[t].req
                                      /\ reads'[i].async = FALSE
           NewAborted == \A i \in DOMAIN aborted' :
                \/ \E j \in DOMAIN aborted : aborted'[i] = aborted[j]
                \/ \E j \in DOMAIN reads : reads[j].async /\ aborted'[i] = reads[j]
           NewIo == io'.at # "run" =>
                \/ io.at # "run" /\ io'.req = io.req
                \/ \E j \in DOMAIN reads : reads[j].async /\ io'.req = reads[j].req
                \/ \E j \in DOMAIN aborted : io'.req = aborted[j].req
<1>0. reads \in Seq(Reads) /\ aborted \in Seq(Reads)
  BY DEF Typed, QueueTyped
<1>1. /\ UNCHANGED reads => NewReads
      /\ UNCHANGED aborted => NewAborted
      /\ UNCHANGED io => NewIo
  OBVIOUS
<1>2. /\ reads' = <<>> => NewReads
      /\ aborted' = <<>> => NewAborted
  BY DEF NewReads
<1>3. ASSUME NEW t \in Threads, Admits(t) \/ Posts(t)
      PROVE  NewReads
  <2>1. call[t].req \in Reqs
    BY <1>3 DEF Admits, Posts, Requested
  <2>2. CASE Admits(t)
    <3>1. [req |-> call[t].req, async |-> TRUE] \in Reads
      BY <2>1 DEF Reads
    <3>2. reads' = Append(reads, [req |-> call[t].req, async |-> TRUE])
      BY <2>2 DEF Admits
    <3>3. \A i \in DOMAIN reads' : \/ i \in DOMAIN reads /\ reads'[i] = reads[i]
                                   \/ reads'[i] = [req |-> call[t].req, async |-> TRUE]
      BY <1>0, <3>1, <3>2, AppendOf
    <3>4. [req |-> call[t].req, async |-> TRUE].req = call[t].req
      OBVIOUS
    <3> QED
      BY Zenon, <2>2, <3>3, <3>4
  <2>3. CASE Posts(t)
    <3>1. [req |-> call[t].req, async |-> FALSE] \in Reads
      BY <2>1 DEF Reads
    <3>2. reads' = Append(reads, [req |-> call[t].req, async |-> FALSE])
      BY <2>3 DEF Posts
    <3>3. \A i \in DOMAIN reads' : \/ i \in DOMAIN reads /\ reads'[i] = reads[i]
                                   \/ reads'[i] = [req |-> call[t].req, async |-> FALSE]
      BY <1>0, <3>1, <3>2, AppendOf
    <3>4. /\ [req |-> call[t].req, async |-> FALSE].req = call[t].req
          /\ [req |-> call[t].req, async |-> FALSE].async = FALSE
      OBVIOUS
    <3> QED
      BY Zenon, <2>3, <3>3, <3>4
  <2> QED
    BY Zenon, <1>3, <2>2, <2>3
<1>4. ASSUME NEW t \in Threads, Cancel(t)
      PROVE  NewReads /\ NewAborted
  <2>1. NewAborted
    BY Zenon, <1>4, CancelEffect
  <2> QED
    BY <1>2, <1>4, <2>1 DEF Cancel
<1>5. TakesRead => NewReads /\ NewAborted /\ NewIo
  <2> SUFFICES ASSUME TakesRead PROVE NewReads /\ NewIo
    BY <1>1 DEF TakesRead
  <2>1. reads # <<>> /\ reads' = Tail(reads)
    BY DEF TakesRead
  <2>2. NewReads
    BY <1>0, <2>1, TailOf
  <2>3. NewIo
    BY <1>0, <2>1, TailOf DEF TakesRead
  <2> QED
    BY <2>2, <2>3
<1>6. TakesAborted => NewReads /\ NewAborted /\ NewIo
  <2> SUFFICES ASSUME TakesAborted PROVE NewAborted /\ NewIo
    BY <1>1 DEF TakesAborted
  <2>1. aborted # <<>> /\ aborted' = Tail(aborted)
    BY DEF TakesAborted
  <2>2. NewAborted
    BY <1>0, <2>1, TailOf
  <2>3. NewIo
    BY <1>0, <2>1, TailOf DEF TakesAborted
  <2> QED
    BY <2>2, <2>3
<1>7. IoGoesOn => NewReads /\ NewAborted /\ NewIo
  BY <1>1 DEF IoGoesOn
<1>8. \A t \in Threads : Admits(t) \/ Posts(t) => UNCHANGED aborted /\ UNCHANGED io
  BY DEF Admits, Posts
<1>9. UNCHANGED <<reads, aborted, io>> => UNCHANGED reads /\ UNCHANGED aborted /\ UNCHANGED io
  OBVIOUS
<1> HIDE DEF NewReads, NewAborted, NewIo
<1>10. NewReads /\ NewAborted /\ NewIo
  BY Zenon, <1>1, <1>2, <1>3, <1>4, <1>5, <1>6, <1>7, <1>8, <1>9, QueueMoves
<1> QED
  BY <1>10 DEF NewReads, NewAborted, NewIo

\* Handlers are those of requests that were made.
LEMMA QueuedStep == Typed /\ Numbered /\ Queued /\ Next => Queued'
<1> SUFFICES ASSUME Typed, Numbered, Queued, Next
             PROVE  Queued'
  OBVIOUS
<1>0. /\ next \in Nat \ {0} /\ next' \in Nat /\ next <= next'
      /\ reads \in Seq(Reads) /\ aborted \in Seq(Reads)
      /\ QueueTyped'
  <2>1. Requested
    BY RequestedInv DEF Typed
  <2> QED
    BY <2>1, RequestMoves, QueueTypedStep DEF Typed, QueueTyped
<1>1. Requested
  BY RequestedInv DEF Typed
<1>2. /\ \A t \in Threads : Admits(t) \/ Posts(t) => call[t].req \in 1..(next - 1)
      /\ \A i \in DOMAIN reads : reads[i].req \in 1..(next - 1)
      /\ \A i \in DOMAIN aborted : aborted[i].req \in 1..(next - 1)
  <2>1. /\ \A i \in DOMAIN reads : reads[i] \in Reads
        /\ \A i \in DOMAIN aborted : aborted[i] \in Reads
    BY <1>0
  <2> QED
    BY <1>0, <2>1 DEF Admits, Posts, Numbered, Queued, Reads, Reqs
<1>3. \A i \in DOMAIN reads' : reads'[i].req \in 1..(next - 1)
  BY Zenon, <1>1, <1>2, HandlersFrom
<1>4. \A i \in DOMAIN aborted' : aborted'[i].req \in 1..(next - 1)
  BY Zenon, <1>1, <1>2, HandlersFrom
<1>5. io'.at # "run" => io'.req \in 1..(next - 1)
  BY Zenon, <1>1, <1>2, HandlersFrom DEF Queued
<1> QED
  BY <1>0, <1>3, <1>4, <1>5 DEF Queued

\* A handler moves from the socket to the cancelled ones or to the io thread and
\* is never in two places.
LEMMA OneHandlerStep ==
    Typed /\ Requested /\ Staged /\ NoneBefore /\ OneHandler /\ Next => OneHandler'
<1> SUFFICES ASSUME Typed, Requested, Staged, NoneBefore, OneHandler, Next
             PROVE  OneHandler'
  OBVIOUS
<1>0. /\ reads \in Seq(Reads) /\ aborted \in Seq(Reads)
      /\ \A i \in DOMAIN reads : reads[i] \in Reads
      /\ \A i \in DOMAIN aborted : aborted[i] \in Reads
  BY DEF Typed, QueueTyped
<1>1. CASE UNCHANGED <<reads, aborted, io>>
  BY Zenon, <1>1 DEF OneHandler, ReadOf, AbortedOf, IoOf
<1>2. CASE reads' = <<>> /\ aborted' = <<>> /\ UNCHANGED io
  BY <1>2 DEF OneHandler, ReadOf, AbortedOf, IoOf
<1>3. ASSUME NEW t \in Threads, Admits(t)
      PROVE  OneHandler'
  <2> DEFINE e == [req |-> call[t].req, async |-> TRUE]
  <2>1. /\ ~ReadOf(call[t].req) /\ ~AbortedOf(call[t].req) /\ ~IoOf(call[t].req)
        /\ call[t].req \in Reqs
    BY <1>3 DEF Admits, Staged, NoneBefore, NotAdmitted, Handled, Requested
  <2>2. e \in Reads /\ e.req = call[t].req
    BY <2>1 DEF Reads
  <2>3. reads' = Append(reads, e) /\ UNCHANGED aborted /\ UNCHANGED io
    BY <1>3 DEF Admits
  <2> HIDE DEF e
  <2>4. \A i \in DOMAIN reads' : \/ i \in DOMAIN reads /\ reads'[i] = reads[i]
                                 \/ i = Len(reads) + 1 /\ reads'[i] = e
    BY <1>0, <2>2, <2>3, AppendOf
  <2>5. \A i, j \in DOMAIN reads' : /\ reads'[i].async /\ reads'[j].async
                                    /\ reads'[i].req = reads'[j].req
                                    => i = j
    <3> SUFFICES ASSUME NEW i \in DOMAIN reads', NEW j \in DOMAIN reads',
                        reads'[i].async, reads'[j].async, reads'[i].req = reads'[j].req,
                        i # j
                 PROVE  FALSE
      OBVIOUS
    <3>1. CASE i \in DOMAIN reads /\ reads'[i] = reads[i]
               /\ j \in DOMAIN reads /\ reads'[j] = reads[j]
      BY Zenon, <3>1 DEF OneHandler
    <3>2. ASSUME NEW k \in DOMAIN reads, reads[k].async, reads[k].req = e.req
          PROVE  FALSE
      BY Zenon, <2>1, <2>2, <3>2 DEF ReadOf
    <3> QED
      BY Zenon, <2>4, <3>1, <3>2
  <2>6. \A r \in Reqs : ReadOf(r)' => ReadOf(r) \/ r = call[t].req
    BY Zenon, <2>2, <2>4 DEF ReadOf
  <2>7. \A r : /\ AbortedOf(r)' <=> AbortedOf(r)
               /\ IoOf(r)' <=> IoOf(r)
    BY <2>3 DEF AbortedOf, IoOf
  <2>8. (\A i, j \in DOMAIN aborted : aborted[i].req = aborted[j].req => i = j)'
    BY <2>3 DEF OneHandler
  <2> QED
    BY Zenon, <2>1, <2>5, <2>6, <2>7, <2>8 DEF OneHandler
<1>4. ASSUME NEW t \in Threads, Posts(t)
      PROVE  OneHandler'
  <2> DEFINE e == [req |-> call[t].req, async |-> FALSE]
  <2>1. e \in Reads /\ ~e.async
    BY <1>4 DEF Posts, Requested, Reads
  <2>2. reads' = Append(reads, e) /\ UNCHANGED aborted /\ UNCHANGED io
    BY <1>4 DEF Posts
  <2> HIDE DEF e
  <2>3. \A i \in DOMAIN reads' : \/ i \in DOMAIN reads /\ reads'[i] = reads[i]
                                 \/ i = Len(reads) + 1 /\ reads'[i] = e
    BY <1>0, <2>1, <2>2, AppendOf
  <2>4. \A i, j \in DOMAIN reads' : /\ reads'[i].async /\ reads'[j].async
                                    /\ reads'[i].req = reads'[j].req
                                    => i = j
    BY Zenon, <2>1, <2>3 DEF OneHandler
  <2>5. \A r \in Reqs : ReadOf(r)' => ReadOf(r)
    BY Zenon, <2>1, <2>3 DEF ReadOf
  <2>6. \A r : /\ AbortedOf(r)' <=> AbortedOf(r)
               /\ IoOf(r)' <=> IoOf(r)
    BY <2>2 DEF AbortedOf, IoOf
  <2>7. (\A i, j \in DOMAIN aborted : aborted[i].req = aborted[j].req => i = j)'
    BY <2>2 DEF OneHandler
  <2> QED
    BY Zenon, <2>4, <2>5, <2>6, <2>7 DEF OneHandler
<1>5. ASSUME NEW t \in Threads, Cancel(t), UNCHANGED io
      PROVE  OneHandler'
  <2>1. /\ \A j \in DOMAIN aborted : j \in DOMAIN aborted' /\ aborted'[j] = aborted[j]
        /\ \A j \in DOMAIN aborted' \ DOMAIN aborted :
             \E i \in DOMAIN reads : reads[i].async /\ aborted'[j] = reads[i]
        /\ \A j, k \in DOMAIN aborted' \ DOMAIN aborted : j # k =>
             \E i, l \in DOMAIN reads : /\ i # l /\ reads[i].async /\ reads[l].async
                                        /\ aborted'[j] = reads[i]
                                        /\ aborted'[k] = reads[l]
    BY Zenon, <1>5, CancelEffect
  <2>2. \A r \in Reqs : ~ReadOf(r)'
    BY <1>5 DEF Cancel, ReadOf
  <2>3. \A r \in Reqs : AbortedOf(r)' => AbortedOf(r) \/ ReadOf(r)
    <3> SUFFICES ASSUME NEW r \in Reqs, AbortedOf(r)'
                 PROVE  AbortedOf(r) \/ ReadOf(r)
      OBVIOUS
    <3>1. PICK j \in DOMAIN aborted' : aborted'[j].req = r
      BY DEF AbortedOf
    <3>2. CASE j \in DOMAIN aborted
      BY Zenon, <2>1, <3>1, <3>2 DEF AbortedOf
    <3>3. CASE j \notin DOMAIN aborted
      <4>1. PICK i \in DOMAIN reads : reads[i].async /\ aborted'[j] = reads[i]
        BY <2>1, <3>3
      <4> QED
        BY Zenon, <3>1, <4>1 DEF ReadOf
    <3> QED
      BY <3>2, <3>3
  <2>4. \A r : IoOf(r)' <=> IoOf(r)
    BY <1>5 DEF IoOf
  <2>5. ASSUME NEW j \in DOMAIN aborted', NEW k \in DOMAIN aborted',
               aborted'[j].req = aborted'[k].req, j # k
        PROVE  FALSE
    <3>1. CASE j \in DOMAIN aborted /\ k \in DOMAIN aborted
      BY Zenon, <2>1, <2>5, <3>1 DEF OneHandler
    <3>2. ASSUME NEW a \in DOMAIN aborted, NEW b \in DOMAIN aborted' \ DOMAIN aborted,
                 aborted'[a].req = aborted'[b].req
          PROVE  FALSE
      <4>1. PICK i \in DOMAIN reads : reads[i].async /\ aborted'[b] = reads[i]
        BY <2>1, <3>2
      <4>2. aborted[a].req = reads[i].req /\ reads[i].req \in Reqs
        BY <1>0, <2>1, <3>2, <4>1 DEF Reads
      <4>3. ReadOf(reads[i].req) /\ AbortedOf(reads[i].req)
        BY Zenon, <4>1, <4>2 DEF ReadOf, AbortedOf
      <4> QED
        BY Zenon, <4>2, <4>3 DEF OneHandler
    <3>3. CASE j \notin DOMAIN aborted /\ k \notin DOMAIN aborted
      <4>1. \E i, l \in DOMAIN reads : /\ i # l /\ reads[i].async /\ reads[l].async
                                       /\ aborted'[j] = reads[i]
                                       /\ aborted'[k] = reads[l]
        BY <2>1, <2>5, <3>3
      <4> QED
        BY Zenon, <4>1, <2>5 DEF OneHandler
    <3> QED
      BY <2>5, <3>1, <3>2, <3>3
  <2>6. reads' = <<>>
    BY <1>5 DEF Cancel
  <2>7. (\A i, j \in DOMAIN reads : /\ reads[i].async /\ reads[j].async
                                    /\ reads[i].req = reads[j].req
                                    => i = j)'
    BY <2>6
  <2> QED
    BY Zenon, <2>2, <2>3, <2>4, <2>5, <2>7 DEF OneHandler
<1>6. CASE TakesRead
  <2>0. reads # <<>> /\ reads' = Tail(reads) /\ UNCHANGED aborted /\ io.at = "run"
    BY <1>6 DEF TakesRead
  <2>1. /\ 1 \in DOMAIN reads /\ Head(reads) = reads[1]
        /\ \A i \in DOMAIN reads' : /\ i + 1 \in DOMAIN reads /\ reads'[i] = reads[i + 1]
                                    /\ i \in Nat \ {0}
    BY <1>0, <2>0, TailOf
  <2>2. \A i, j \in DOMAIN reads' : /\ reads'[i].async /\ reads'[j].async
                                    /\ reads'[i].req = reads'[j].req
                                    => i = j
    <3> SUFFICES ASSUME NEW i \in DOMAIN reads', NEW j \in DOMAIN reads',
                        reads'[i].async, reads'[j].async, reads'[i].req = reads'[j].req
                 PROVE  i = j
      OBVIOUS
    <3>1. /\ i + 1 \in DOMAIN reads /\ j + 1 \in DOMAIN reads
          /\ reads[i + 1].async /\ reads[j + 1].async
          /\ reads[i + 1].req = reads[j + 1].req
      BY <2>1
    <3>2. i + 1 = j + 1
      BY <3>1 DEF OneHandler
    <3> QED
      BY <2>1, <3>2
  <2>3. \A r \in Reqs : ReadOf(r)' => ReadOf(r)
    BY Zenon, <2>1 DEF ReadOf
  <2>4. \A r \in Reqs : Head(reads).async /\ r = Head(reads).req => ReadOf(r) /\ ~ReadOf(r)'
    <3> SUFFICES ASSUME NEW r \in Reqs, Head(reads).async, r = Head(reads).req
                 PROVE  ReadOf(r) /\ ~ReadOf(r)'
      OBVIOUS
    <3>1. ReadOf(r)
      BY Zenon, <2>1 DEF ReadOf
    <3>2. ASSUME NEW i \in DOMAIN reads', reads'[i].async, reads'[i].req = r
          PROVE  FALSE
      <4>1. /\ i + 1 \in DOMAIN reads /\ reads[i + 1].async /\ reads[i + 1].req = r
            /\ 1 \in DOMAIN reads /\ reads[1].async /\ reads[1].req = r
        BY <2>1, <3>2
      <4>2. i + 1 = 1
        BY <4>1 DEF OneHandler
      <4> QED
        BY <2>1, <4>2
    <3> QED
      BY Zenon, <3>1, <3>2 DEF ReadOf
  <2>5. \A r : AbortedOf(r)' <=> AbortedOf(r)
    BY <2>0 DEF AbortedOf
  <2>6. \A r \in Reqs : IoOf(r)' => Head(reads).async /\ r = Head(reads).req
    BY Zenon, <2>0, <1>6 DEF TakesRead, IoOf
  <2>7. (\A i, j \in DOMAIN aborted : aborted[i].req = aborted[j].req => i = j)'
    BY <2>0 DEF OneHandler
  <2> QED
    BY Zenon, <2>2, <2>3, <2>4, <2>5, <2>6, <2>7 DEF OneHandler
<1>7. CASE TakesAborted
  <2>0. /\ aborted # <<>> /\ aborted' = Tail(aborted) /\ UNCHANGED reads
        /\ io'.req = Head(aborted).req
    BY <1>7 DEF TakesAborted
  <2>1. /\ 1 \in DOMAIN aborted /\ Head(aborted) = aborted[1]
        /\ \A i \in DOMAIN aborted' : /\ i + 1 \in DOMAIN aborted
                                      /\ aborted'[i] = aborted[i + 1]
                                      /\ i \in Nat \ {0}
    BY <1>0, <2>0, TailOf
  <2>2. \A i, j \in DOMAIN aborted' : aborted'[i].req = aborted'[j].req => i = j
    <3> SUFFICES ASSUME NEW i \in DOMAIN aborted', NEW j \in DOMAIN aborted',
                        aborted'[i].req = aborted'[j].req
                 PROVE  i = j
      OBVIOUS
    <3>1. /\ i + 1 \in DOMAIN aborted /\ j + 1 \in DOMAIN aborted
          /\ aborted[i + 1].req = aborted[j + 1].req
      BY <2>1
    <3>2. i + 1 = j + 1
      BY <3>1 DEF OneHandler
    <3> QED
      BY <2>1, <3>2
  <2>3. \A r \in Reqs : AbortedOf(r)' => AbortedOf(r)
    BY Zenon, <2>1 DEF AbortedOf
  <2>4. \A r \in Reqs : r = Head(aborted).req => AbortedOf(r) /\ ~AbortedOf(r)'
    <3> SUFFICES ASSUME NEW r \in Reqs, r = Head(aborted).req
                 PROVE  AbortedOf(r) /\ ~AbortedOf(r)'
      OBVIOUS
    <3>1. AbortedOf(r)
      BY Zenon, <2>1 DEF AbortedOf
    <3>2. ASSUME NEW i \in DOMAIN aborted', aborted'[i].req = r
          PROVE  FALSE
      <4>1. /\ i + 1 \in DOMAIN aborted /\ aborted[i + 1].req = r
            /\ 1 \in DOMAIN aborted /\ aborted[1].req = r
        BY <2>1, <3>2
      <4>2. i + 1 = 1
        BY <4>1 DEF OneHandler
      <4> QED
        BY <2>1, <4>2
    <3> QED
      BY Zenon, <3>1, <3>2 DEF AbortedOf
  <2>5. \A r : ReadOf(r)' <=> ReadOf(r)
    BY <2>0 DEF ReadOf
  <2>6. \A r \in Reqs : IoOf(r)' => r = Head(aborted).req
    BY <2>0 DEF IoOf
  <2>7. (\A i, j \in DOMAIN reads : /\ reads[i].async /\ reads[j].async
                                    /\ reads[i].req = reads[j].req
                                    => i = j)'
    BY <2>0 DEF OneHandler
  <2> QED
    BY Zenon, <2>2, <2>3, <2>4, <2>5, <2>6, <2>7 DEF OneHandler
<1>8. CASE IoGoesOn
  <2>1. \A r \in Reqs : /\ ReadOf(r)' <=> ReadOf(r)
                        /\ AbortedOf(r)' <=> AbortedOf(r)
                        /\ IoOf(r)' => IoOf(r)
    BY <1>8 DEF IoGoesOn, ReadOf, AbortedOf, IoOf
  <2>2. UNCHANGED <<reads, aborted>>
    BY <1>8 DEF IoGoesOn
  <2> QED
    BY Zenon, <2>1, <2>2 DEF OneHandler
<1> QED
  BY Zenon, <1>1, <1>2, <1>3, <1>4, <1>5, <1>6, <1>7, <1>8, QueueMoves

\* A request has a handler in the next state only if it has one or is admitted.
LEMMA HandledFrom ==
    ASSUME Next, Typed, Requested, NEW r, Handled(r)'
    PROVE  Handled(r) \/ \E t \in Threads : Admits(t) /\ call[t].req = r
<1>1. CASE ReadOf(r)'
  <2>1. PICK i \in DOMAIN reads' : reads'[i].async /\ reads'[i].req = r
    BY <1>1 DEF ReadOf
  <2>2. \/ \E j \in DOMAIN reads : reads'[i] = reads[j]
        \/ \E t \in Threads : Admits(t) /\ reads'[i].req = call[t].req
    BY Zenon, <2>1, HandlersFrom
  <2> QED
    BY Zenon, <2>1, <2>2 DEF Handled, ReadOf
<1>2. CASE AbortedOf(r)'
  <2>1. PICK i \in DOMAIN aborted' : aborted'[i].req = r
    BY <1>2 DEF AbortedOf
  <2>2. \/ \E j \in DOMAIN aborted : aborted'[i] = aborted[j]
        \/ \E j \in DOMAIN reads : reads[j].async /\ aborted'[i] = reads[j]
    BY Zenon, <2>1, HandlersFrom
  <2> QED
    BY Zenon, <2>1, <2>2 DEF Handled, ReadOf, AbortedOf
<1>3. CASE IoOf(r)'
  <2>1. io'.at # "run" /\ io'.req = r
    BY <1>3 DEF IoOf
  <2>2. \/ io.at # "run" /\ io'.req = io.req
        \/ \E j \in DOMAIN reads : reads[j].async /\ io'.req = reads[j].req
        \/ \E j \in DOMAIN aborted : io'.req = aborted[j].req
    BY Zenon, <2>1, HandlersFrom
  <2> QED
    BY Zenon, <2>1, <2>2 DEF Handled, ReadOf, AbortedOf, IoOf
<1> QED
  BY Zenon, <1>1, <1>2, <1>3 DEF Handled

\* The callback that a handler runs is that of the request it handles.
LEMMA HandlerOfItsOwn ==
    ASSUME Typed, NEW r, HandlerRuns(r)
    PROVE  Handled(r)
<1>0. reads \in Seq(Reads) /\ aborted \in Seq(Reads)
  BY DEF Typed, QueueTyped
<1>1. CASE reads # <<>> /\ Head(reads).async /\ r = Head(reads).req
  <2>1. 1 \in DOMAIN reads /\ Head(reads) = reads[1]
    BY <1>0, <1>1, TailOf
  <2> QED
    BY Zenon, <1>1, <2>1 DEF Handled, ReadOf
<1>2. CASE aborted # <<>> /\ r = Head(aborted).req
  <2>1. 1 \in DOMAIN aborted /\ Head(aborted) = aborted[1]
    BY <1>0, <1>2, TailOf
  <2> QED
    BY Zenon, <1>2, <2>1 DEF Handled, AbortedOf
<1>3. CASE io.at # "run" /\ r = io.req
  BY <1>3 DEF Handled, IoOf
<1> QED
  BY Zenon, <1>1, <1>2, <1>3 DEF HandlerRuns

\* The handler of a request is posted when it is admitted, not before.
LEMMA NoneBeforeStep ==
    Typed /\ Numbered /\ Queued /\ NoneBefore /\ Next => NoneBefore'
<1> SUFFICES ASSUME Typed, Numbered, Queued, NoneBefore, Next,
                    NEW t \in Threads, NotAdmitted(t)'
             PROVE  ~Handled(call[t].req)' /\ calls'[call'[t].req] = 0 /\ ~ok'[call'[t].req]
  BY DEF NoneBefore
<1>r. PICK r : r = call'[t].req
  OBVIOUS
<1>0. /\ Requested /\ CallTyped /\ call'[t].at \in {"lock", "admit"} /\ call'[t].async
      /\ calls \in [Reqs -> Nat] /\ ok \in [Reqs -> BOOLEAN]
  BY RequestedInv DEF Typed, CallsTyped, OkTyped, NotAdmitted
<1>1. /\ ~Handled(r) /\ calls[r] = 0 /\ ~ok[r] /\ r \in Reqs
      /\ \A u \in Threads : /\ Admits(u) => call[u].req # r
                            /\ CallerRuns(u, r) => FALSE
      /\ \A s : HandlerRuns(s) => s # r
  <2>1. CASE call[t].at # "idle" /\ call'[t].req = call[t].req
    <3>1. NotAdmitted(t)
      <4>1. CASE call'[t] = call[t]
        BY <1>0, <4>1 DEF NotAdmitted
      <4>2. CASE Stays(t)
        BY <1>0, <4>2 DEF Stays, NotAdmitted
      <4>3. CASE Begins(t) \/ Locks(t) \/ GoesOn(t) \/ Ends(t)
        BY <1>0, <2>1, <4>3 DEF Begins, Locks, GoesOn, Ends, NotAdmitted
      <4> QED
        BY Zenon, <1>0, <4>1, <4>2, <4>3, CallMoves
    <3>2. ~Handled(r) /\ calls[r] = 0 /\ ~ok[r] /\ r \in Reqs
      BY <1>r, <1>0, <2>1, <3>1 DEF NoneBefore, Requested
    <3>3. \A u \in Threads : /\ Admits(u) => call[u].req # r
                             /\ CallerRuns(u, r) => FALSE
      BY <1>r, <1>0, <2>1 DEF Numbered, Admits, CallerRuns
    <3> QED
      BY Zenon, <3>2, <3>3, HandlerOfItsOwn
  <2>2. CASE call'[t].req = next /\ next \in Reqs
    <3>0. next \in Nat \ {0}
      BY RequestMoves
    <3>1. calls[r] = 0 /\ ~ok[r] /\ r \in Reqs
      BY <1>r, <3>0, <2>2 DEF Numbered
    <3>2. ~Handled(r)
      BY <1>r, <3>0, <2>2 DEF Queued, Handled, ReadOf, AbortedOf, IoOf
    <3>3. \A u \in Threads : /\ Admits(u) => call[u].req # r
                             /\ CallerRuns(u, r) => FALSE
      BY <1>r, <3>0, <2>2 DEF Numbered, Admits, CallerRuns
    <3> QED
      BY Zenon, <3>1, <3>2, <3>3, HandlerOfItsOwn
  <2>3. call'[t].at # "idle"
    BY <1>0
  <2> QED
    BY Zenon, <2>1, <2>2, <2>3, RequestMoves
<1>2. ~Handled(r)'
  BY <1>0, <1>1, HandledFrom
<1>3. calls'[r] = 0 /\ ~ok'[r]
  <2>1. CASE UNCHANGED <<calls, ok>>
    BY <1>1, <2>1
  <2>2. ASSUME NEW s, CalledBack(s)
        PROVE  calls'[r] = 0 /\ ~ok'[r]
    <3>1. s # r
      BY Zenon, <1>1, <2>2 DEF CalledBack
    <3>2. calls' = [calls EXCEPT ![s] = @ + 1]
      BY <2>2 DEF CalledBack
    <3>3. UNCHANGED ok \/ ok' = [ok EXCEPT ![s] = TRUE]
      BY Zenon, <2>2 DEF CalledBack, HandlerRuns, CallerRuns
    <3>4. calls'[r] = 0
      BY <1>0, <1>1, <3>1, <3>2
    <3>5. ~ok'[r]
      BY Zenon, <1>0, <1>1, <3>1, <3>3
    <3> QED
      BY <3>4, <3>5
  <2> QED
    BY Zenon, <1>0, <2>1, <2>2, CallbackMoves
<1> QED
  BY <1>r, <1>2, <1>3 DEF Handled, ReadOf, AbortedOf, IoOf

\* The response is given by the last handler its request has.
LEMMA NoneAfterStep ==
    Typed /\ Requested /\ Staged /\ OneHandler /\ NoneBefore /\ NoneAfter /\ Next
    => NoneAfter'
<1> SUFFICES ASSUME Typed, Requested, Staged, OneHandler, NoneBefore, NoneAfter, Next,
                    NEW r \in Reqs, ok'[r], Handled(r)'
             PROVE  FALSE
  BY DEF NoneAfter
<1>0. CallTyped /\ ok \in [Reqs -> BOOLEAN]
  BY DEF Typed, OkTyped
<1>1. CASE ok[r]
  <2>1. PICK t \in Threads : Admits(t) /\ call[t].req = r
    BY <1>1, HandledFrom DEF NoneAfter
  <2> QED
    BY <1>1, <2>1 DEF Admits, Staged, NoneBefore, NotAdmitted
<1>2. CASE ~ok[r]
  <2>1. PICK s : CalledBack(s) /\ ok' # ok
    BY Zenon, <1>0, <1>2, CallbackMoves
  <2>2. /\ io.at # "run" /\ s = io.req /\ ok' = [ok EXCEPT ![s] = TRUE]
        /\ io' = Running /\ UNCHANGED <<reads, aborted>>
    BY Zenon, <2>1 DEF CalledBack, HandlerRuns, CallerRuns
  <2>3. s = r
    BY Zenon, <1>0, <1>2, <2>2
  <2>4. io'.at = "run"
    BY <2>2 DEF Running
  <2>5. IoOf(r) /\ (ReadOf(r) \/ AbortedOf(r))
    BY <2>2, <2>3, <2>4 DEF Handled, ReadOf, AbortedOf, IoOf
  <2> QED
    BY Zenon, <2>5 DEF OneHandler
<1> QED
  BY <1>1, <1>2

\* A step that leaves the flag set leaves the request it is set for under way.
LEMMA BusyStep == Typed /\ Requested /\ Staged /\ NoneBefore /\ Busy /\ Next => Busy'
<1> SUFFICES ASSUME Typed, Requested, Staged, NoneBefore, Busy, Next, inProgress'
             PROVE  \E r \in Reqs : /\ calls'[r] = 0
                                    /\ \/ ReadOf(r)' \/ AbortedOf(r)'
                                       \/ io'.at = "body" /\ io'.req = r
  BY DEF Busy
<1> DEFINE Goal == \E r \in Reqs : /\ calls'[r] = 0
                                   /\ \/ ReadOf(r)' \/ AbortedOf(r)'
                                      \/ io'.at = "body" /\ io'.req = r
<1>0. /\ CallTyped /\ reads \in Seq(Reads) /\ aborted \in Seq(Reads)
      /\ io \in IoRecs
  BY DEF Typed, QueueTyped, IoTyped
<1>1. UNCHANGED calls
  BY Zenon, <1>0, CallbackMoves DEF CalledBack
<1>2. ASSUME NEW t \in Threads, Admit(t)
      PROVE  Goal
  <2>r. PICK r : r = call[t].req
    OBVIOUS
  <2> DEFINE e == [req |-> r, async |-> TRUE]
  <2>1. calls[r] = 0 /\ r \in Reqs
    BY <1>2, <2>r DEF Admit, Staged, NoneBefore, NotAdmitted, Requested
  <2>2. e \in Reads /\ e.req = r /\ e.async
    BY <2>1 DEF Reads
  <2>3. reads' = Append(reads, e)
    BY <1>2, <2>r DEF Admit
  <2> HIDE DEF e
  <2>4. Len(reads) + 1 \in DOMAIN reads' /\ reads'[Len(reads) + 1] = e
    BY <1>0, <2>2, <2>3, AppendOf
  <2>5. ReadOf(r)'
    BY Zenon, <2>2, <2>4 DEF ReadOf
  <2>6. calls'[r] = 0
    BY <1>1, <2>1
  <2> QED
    BY Zenon, <2>1, <2>5, <2>6
<1>3. ASSUME inProgress, NEW r \in Reqs, calls[r] = 0,
             ReadOf(r) \/ AbortedOf(r) \/ (io.at = "body" /\ io.req = r)
      PROVE  Goal
  <2> DEFINE Held == ReadOf(r)' \/ AbortedOf(r)' \/ (io'.at = "body" /\ io'.req = r)
  <2> SUFFICES Held
    BY <1>1, <1>3
  <2>1. CASE UNCHANGED <<reads, aborted, io, calls, ok, inProgress>>
    BY <1>3, <2>1 DEF ReadOf, AbortedOf
  <2>2. ASSUME NEW t \in Threads, Write(t)
        PROVE  Held
    <3>1. CASE UNCHANGED reads
      BY Zenon, <1>3, <2>2, <3>1 DEF Write, ReadOf, AbortedOf
    <3>2. CASE reads' = Append(reads, [req |-> call[t].req, async |-> FALSE])
      <4>1. [req |-> call[t].req, async |-> FALSE] \in Reads
        BY <2>2 DEF Write, Requested, Reads
      <4>2. \A i \in DOMAIN reads : i \in DOMAIN reads' /\ reads'[i] = reads[i]
        BY <1>0, <3>2, <4>1, AppendOf
      <4> QED
        BY Zenon, <1>3, <2>2, <4>2 DEF Write, ReadOf, AbortedOf
    <3> QED
      BY Zenon, <2>2, <3>1, <3>2 DEF Write
  <2>3. ASSUME NEW t \in Threads, SendFails(t)
        PROVE  Held
    BY Zenon, <1>3, <2>3 DEF SendFails, ReadOf, AbortedOf
  <2>4. ASSUME NEW t \in Threads, GiveUp(t)
        PROVE  Held
    <3>1. Cancel(t) /\ UNCHANGED io
      BY Zenon, <2>4 DEF GiveUp
    <3> QED
      <4>1. /\ \A j \in DOMAIN aborted : j \in DOMAIN aborted' /\ aborted'[j] = aborted[j]
            /\ \A i \in DOMAIN reads : reads[i].async =>
                 \E j \in DOMAIN aborted' : aborted'[j] = reads[i]
        BY Zenon, <3>1, CancelEffect
      <4>2. ReadOf(r) \/ AbortedOf(r) => AbortedOf(r)'
        BY Zenon, <4>1 DEF ReadOf, AbortedOf
      <4> QED
        BY Zenon, <1>3, <3>1, <4>2
  <2>5. ASSUME reads # <<>>, reads' = Tail(reads), UNCHANGED aborted, UNCHANGED io,
               ~Head(reads).async
        PROVE  Held
    <3>1. \A i \in DOMAIN reads : i = 1 \/ (i - 1 \in DOMAIN reads'
                                            /\ reads'[i - 1] = reads[i])
      BY <1>0, <2>5, TailOf
    <3>2. Head(reads) = reads[1]
      BY <1>0, <2>5, TailOf
    <3>3. ReadOf(r) => ReadOf(r)'
      BY Zenon, <2>5, <3>1, <3>2 DEF ReadOf
    <3> QED
      BY <1>3, <2>5, <3>3 DEF AbortedOf
  <2>6. CASE IoHeader
    <3>1. CASE Head(reads).async
      <4>1. /\ reads # <<>> /\ reads' = Tail(reads) /\ UNCHANGED aborted /\ io.at = "run"
            /\ io' = [at |-> "body", req |-> Head(reads).req, got |-> HeaderIn(Head(stream))]
        <5>1. Running.at = "run"
          BY DEF Running
        <5> QED
          BY Zenon, <2>6, <3>1, <5>1 DEF IoHeader, Callback
      <4>2. Head(reads) = reads[1]
            /\ \A i \in DOMAIN reads : i = 1 \/ (i - 1 \in DOMAIN reads'
                                                 /\ reads'[i - 1] = reads[i])
        BY <1>0, <4>1, TailOf
      <4>3. io'.at = "body" /\ io'.req = Head(reads).req
        BY <4>1
      <4>4. ReadOf(r) => ReadOf(r)' \/ io'.req = r
        BY Zenon, <4>2, <4>3 DEF ReadOf
      <4> QED
        BY <1>3, <4>1, <4>3, <4>4 DEF AbortedOf
    <3>2. CASE ~Head(reads).async
      <4>1. reads # <<>> /\ reads' = Tail(reads) /\ UNCHANGED aborted /\ UNCHANGED io
        BY Zenon, <2>6, <3>2 DEF IoHeader
      <4> QED
        BY Zenon, <2>5, <3>2, <4>1
    <3> QED
      BY Zenon, <3>1, <3>2
  <2>7. CASE IoError
    <3>1. reads # <<>> /\ reads' = Tail(reads) /\ UNCHANGED aborted /\ UNCHANGED io
          /\ ~Head(reads).async
      BY Zenon, <2>7 DEF IoError, Callback
    <3> QED
      BY Zenon, <2>5, <3>1
  <2>8. CASE IoBody
    <3>1. io' = [io EXCEPT !.got = Garbage] /\ UNCHANGED reads /\ UNCHANGED aborted
      BY Zenon, <2>8 DEF IoBody, Callback
    <3>2. io'.at = io.at /\ io'.req = io.req
      BY <1>0, <3>1 DEF IoRecs
    <3> QED
      BY <1>3, <3>1, <3>2 DEF ReadOf, AbortedOf
  <2>9. ~Destroy /\ ~IoAborted /\ ~IoAgain /\ ~IoBodyFails
        /\ \A t \in Threads : ~Admit(t) /\ ~Reject(t)
    BY Zenon, <1>3 DEF Destroy, IoAborted, IoAgain, IoBodyFails, Admit, Reject, Callback
  <2> HIDE DEF Held
  <2> QED
    BY Zenon, <2>1, <2>2, <2>3, <2>4, <2>6, <2>7, <2>8, <2>9, QueueSteps
<1>4. inProgress \/ \E t \in Threads : Admit(t)
  BY Zenon, QueueSteps DEF Destroy, Reject, Write, SendFails, GiveUp, IoHeader,
     IoError, IoAborted, IoAgain, IoBody, IoBodyFails, Callback
<1> QED
  BY Zenon, <1>2, <1>3, <1>4 DEF Busy

-----------------------------------------------------------------------------
(* Clean requests.                                                         *)

\* A queue of one element ...
LEMMA OneElement ==
    ASSUME NEW e
    PROVE  /\ <<e>> # <<>> /\ Head(<<e>>) = e /\ Tail(<<e>>) = <<>>
           /\ Append(<<>>, e) = <<e>> /\ <<e>> \o <<>> = <<e>>
OBVIOUS

\* ... and of two.
LEMMA TwoElements ==
    ASSUME NEW e, NEW f
    PROVE  /\ <<e, f>> # <<>> /\ Head(<<e, f>>) = e /\ Tail(<<e, f>>) = <<f>>
           /\ Append(<<e>>, f) = <<e, f>>
<1> DEFINE S == {e, f}
<1>1. <<e>> \in Seq(S) /\ <<f>> \in Seq(S) /\ <<e, f>> \in Seq(S)
  OBVIOUS
<1>2. Len(<<e, f>>) = 2 /\ <<e, f>>[1] = e /\ <<e, f>>[2] = f
  OBVIOUS
<1>3. <<e, f>> # <<>> /\ Head(<<e, f>>) = e
  BY <1>1, <1>2
<1>4. Tail(<<e, f>>) = <<f>>
  <2>1. /\ Tail(<<e, f>>) \in Seq(S) /\ Len(Tail(<<e, f>>)) = 1
        /\ Tail(<<e, f>>)[1] = f
    BY <1>1, <1>2, <1>3
  <2>2. Len(<<f>>) = 1 /\ <<f>>[1] = f
    OBVIOUS
  <2> QED
    BY <1>1, <2>1, <2>2, SeqEqual
<1>5. Append(<<e>>, f) = <<e, f>>
  <2>1. /\ Append(<<e>>, f) \in Seq(S) /\ Len(Append(<<e>>, f)) = 2
        /\ Append(<<e>>, f)[1] = e /\ Append(<<e>>, f)[2] = f
    BY <1>1
  <2>2. \A i \in 1..2 : i = 1 \/ i = 2
    OBVIOUS
  <2>3. \A i \in 1..2 : Append(<<e>>, f)[i] = <<e, f>>[i]
    BY Zenon, <1>2, <2>1, <2>2
  <2> HIDE DEF S
  <2> QED
    BY Zenon, <1>1, <1>2, <2>1, <2>3, SeqEqual
<1> QED
  BY <1>3, <1>4, <1>5

\* The two pieces of an answer.
LEMMA PieceFields ==
    ASSUME NEW r
    PROVE  /\ HeaderOf(r).part = "header" /\ HeaderOf(r).req = r
           /\ BodyOf(r).part = "body" /\ BodyOf(r).req = r
           /\ HeaderIn(HeaderOf(r)) = r
           /\ [HeaderOf(r) EXCEPT !.part = "body"] = BodyOf(r)
BY DEF HeaderOf, BodyOf, HeaderIn

\* The answer to a request goes over the wire in order.
LEMMA WireOrder ==
    ASSUME NEW r
    PROVE  /\ Deliver /\ BeforeHeader(r) => BeforeHeader(r)'
           /\ Deliver /\ AfterHeader(r) => AfterHeader(r)'
           /\ BeforeHeader(r) /\ stream # <<>> /\ stream' = Tail(stream) /\ UNCHANGED outbox
              => Head(stream) = HeaderOf(r) /\ AfterHeader(r)'
           /\ AfterHeader(r) /\ stream # <<>> => Head(stream) = BodyOf(r)
           /\ BeforeHeader(r) /\ UNCHANGED stream /\ outbox' = <<>> => BeforeHeader(r)'
           /\ AfterHeader(r) /\ UNCHANGED stream /\ outbox' = <<>> => AfterHeader(r)'
           /\ BeforeHeader(r) /\ UNCHANGED <<stream, outbox>> => BeforeHeader(r)'
           /\ AfterHeader(r) /\ UNCHANGED <<stream, outbox>> => AfterHeader(r)'
<1>1. ASSUME Deliver, BeforeHeader(r)
      PROVE  BeforeHeader(r)'
  <2>1. CASE stream = <<>> /\ outbox = <<HeaderOf(r)>>
    <3>1. Head(outbox) = HeaderOf(r) /\ Tail(outbox) = <<>>
      BY <2>1, OneElement
    <3>2. stream' = <<HeaderOf(r)>>
      BY <1>1, <2>1, <3>1, OneElement DEF Deliver
    <3>3. outbox' = <<BodyOf(r)>> \o <<>>
      BY <1>1, <3>1, PieceFields DEF Deliver
    <3>4. outbox' = <<BodyOf(r)>>
      BY <3>3, OneElement
    <3> QED
      BY Zenon, <3>2, <3>4 DEF BeforeHeader
  <2>2. CASE stream = <<HeaderOf(r)>> /\ outbox = <<BodyOf(r)>>
    <3>1. Head(outbox) = BodyOf(r) /\ Tail(outbox) = <<>>
      BY <2>2, OneElement
    <3>2. stream' = <<HeaderOf(r), BodyOf(r)>>
      BY <1>1, <2>2, <3>1, TwoElements DEF Deliver
    <3>3. outbox' = <<>>
      BY <1>1, <3>1, PieceFields DEF Deliver
    <3> QED
      BY Zenon, <3>2, <3>3 DEF BeforeHeader
  <2>3. outbox # <<>>
    BY <1>1 DEF Deliver
  <2> QED
    BY Zenon, <1>1, <2>1, <2>2, <2>3 DEF BeforeHeader
<1>2. ASSUME Deliver, AfterHeader(r)
      PROVE  AfterHeader(r)'
  <2>1. outbox # <<>>
    BY <1>2 DEF Deliver
  <2>2. stream = <<>> /\ outbox = <<BodyOf(r)>>
    BY Zenon, <1>2, <2>1 DEF AfterHeader
  <2>3. Head(outbox) = BodyOf(r) /\ Tail(outbox) = <<>>
    BY <2>2, OneElement
  <2>4. stream' = <<BodyOf(r)>> /\ outbox' = <<>>
    BY <1>2, <2>2, <2>3, OneElement, PieceFields DEF Deliver
  <2> QED
    BY Zenon, <2>4 DEF AfterHeader
<1>3. ASSUME BeforeHeader(r), stream # <<>>, stream' = Tail(stream), UNCHANGED outbox
      PROVE  Head(stream) = HeaderOf(r) /\ AfterHeader(r)'
  <2>1. CASE stream = <<HeaderOf(r)>> /\ outbox \in {<<>>, <<BodyOf(r)>>}
    <3>1. Head(stream) = HeaderOf(r) /\ stream' = <<>>
      BY <1>3, <2>1, OneElement
    <3> QED
      BY Zenon, <1>3, <2>1, <3>1 DEF AfterHeader
  <2>2. CASE stream = <<HeaderOf(r), BodyOf(r)>> /\ outbox = <<>>
    <3>1. Head(stream) = HeaderOf(r) /\ stream' = <<BodyOf(r)>>
      BY <1>3, <2>2, TwoElements
    <3> QED
      BY Zenon, <1>3, <2>2, <3>1 DEF AfterHeader
  <2> QED
    BY Zenon, <1>3, <2>1, <2>2 DEF BeforeHeader
<1>4. ASSUME AfterHeader(r), stream # <<>>
      PROVE  Head(stream) = BodyOf(r)
  BY <1>4, OneElement DEF AfterHeader
<1>5. BeforeHeader(r) /\ UNCHANGED stream /\ outbox' = <<>> => BeforeHeader(r)'
  BY Zenon DEF BeforeHeader
<1>6. AfterHeader(r) /\ UNCHANGED stream /\ outbox' = <<>> => AfterHeader(r)'
  BY Zenon DEF AfterHeader
<1>7. /\ BeforeHeader(r) /\ UNCHANGED <<stream, outbox>> => BeforeHeader(r)'
      /\ AfterHeader(r) /\ UNCHANGED <<stream, outbox>> => AfterHeader(r)'
  BY DEF BeforeHeader, AfterHeader
<1> QED
  BY Zenon, <1>1, <1>2, <1>3, <1>4, <1>5, <1>6, <1>7

\* A call that is alone stays so while nothing of it changes.
LEMMA AloneFrame ==
    ASSUME NEW t \in Threads, NEW r, Alone(t, r),
           call'[t].at = call[t].at, call'[t].req = call[t].req,
           call'[t].async = call[t].async, call'[t].done = call[t].done,
           call'[t].got = call[t].got,
           UNCHANGED <<aborted, reads>>, io'.at = io.at,
           call[t].at = "body" \/ dangling'[t] = dangling[t],
           Drained(t) => stream' = <<>> /\ outbox' = <<>>,
           BeforeHeader(r) => BeforeHeader(r)', AfterHeader(r) => AfterHeader(r)'
    PROVE  Alone(t, r)'
<1>1. Drained(t) => Drained(t)'
  BY DEF Drained
<1>2. ReadsHeader(t, r) => ReadsHeader(t, r)'
  BY DEF ReadsHeader
<1>3. AwaitsHeader(t, r) => AwaitsHeader(t, r)'
  BY DEF AwaitsHeader
<1>4. HasHeader(t, r) => HasHeader(t, r)'
  BY DEF HasHeader
<1>5. /\ call'[t].req = r /\ ~call'[t].async /\ aborted' = <<>> /\ io'.at = "run"
      /\ call'[t].at # "body" => dangling'[t] = 0
  BY DEF Alone
<1> QED
  BY Zenon, <1>1, <1>2, <1>3, <1>4, <1>5 DEF Alone

\* The steps of its own thread, ...
LEMMA AloneOwnStep ==
    ASSUME Typed, NEW t \in Threads, NEW r \in Reqs, Alone(t, r),
           \/ Write(t) \/ HeaderDone(t) \/ ReadHeader(t) \/ ReadBody(t)
           \/ Timer(t) \/ Dangling(t),
           call'[t].at # "idle"
    PROVE  Alone(t, r)'
<1>0. call[t] \in CallRecs /\ CallTyped /\ dangling \in [Threads -> Nat]
  BY DEF Typed, CallTyped, DanglingTyped
<1>1. CASE Write(t)
  <2>1. /\ call[t].at = "write" /\ Drained(t) /\ ~call[t].async /\ call[t].req = r
        /\ dangling[t] = 0 /\ aborted = <<>> /\ io.at = "run"
    BY <1>1 DEF Write, Alone, Drained, ReadsHeader, AwaitsHeader, HasHeader
  <2>2. /\ UNCHANGED <<aborted, io, dangling, stream>>
        /\ outbox' = outbox \/ outbox' = Append(outbox, HeaderOf(r))
        /\ Goto(t, IF call[t].timed THEN "wait" ELSE "read")
        /\ reads' = IF call[t].timed THEN Append(reads, [req |-> r, async |-> FALSE])
                                     ELSE reads
    BY <1>1, <2>1 DEF Write, HeaderOf
  <2>3. BeforeHeader(r)'
    <3>1. stream' = <<>> /\ outbox' \in {<<>>, <<HeaderOf(r)>>}
      BY <2>1, <2>2, OneElement DEF Drained
    <3> QED
      BY Zenon, <3>1 DEF BeforeHeader
  <2>4. /\ call'[t].at = IF call[t].timed THEN "wait" ELSE "read"
        /\ call'[t].req = r /\ ~call'[t].async /\ ~call'[t].done
    <3>1. (IF call[t].timed THEN "wait" ELSE "read") \in Points
      BY DEF Points
    <3>2. /\ call'[t].at = IF call[t].timed THEN "wait" ELSE "read"
          /\ call'[t].req = call[t].req /\ call'[t].async = call[t].async
          /\ call'[t].done = call[t].done
      BY Zenon, <1>0, <2>2, <3>1, GotoEffect
    <3> QED
      BY <2>1, <3>2 DEF Drained
  <2>5. CASE call[t].timed
    <3>1. reads' = <<[req |-> r, async |-> FALSE]>> /\ call'[t].at = "wait"
      BY <2>1, <2>2, <2>4, <2>5, OneElement DEF Drained
    <3>2. AwaitsHeader(t, r)'
      BY Zenon, <2>3, <2>4, <3>1 DEF AwaitsHeader
    <3> QED
      BY <2>1, <2>2, <2>4, <3>2 DEF Alone
  <2>6. CASE ~call[t].timed
    <3>1. reads' = <<>> /\ call'[t].at = "read"
      BY <2>1, <2>2, <2>4, <2>6 DEF Drained
    <3>2. ReadsHeader(t, r)'
      BY Zenon, <2>3, <3>1 DEF ReadsHeader
    <3> QED
      BY <2>1, <2>2, <2>4, <3>2 DEF Alone
  <2> QED
    BY <2>5, <2>6
<1>2. CASE HeaderDone(t)
  <2>1. call[t].at = "wait" /\ call[t].done /\ HasHeader(t, r)
    BY <1>2 DEF HeaderDone, Alone, Drained, ReadsHeader, AwaitsHeader, HasHeader
  <2>2. /\ UNCHANGED <<aborted, io, reads, stream, outbox>>
        /\ Goto(t, "body") /\ "body" \in Points
    BY <1>2 DEF HeaderDone, external, Points
  <2>3. /\ call'[t].at = "body" /\ call'[t].req = call[t].req
        /\ call'[t].async = call[t].async /\ call'[t].got = call[t].got
    BY Zenon, <1>0, <2>2, GotoEffect
  <2>4. AfterHeader(r)'
    BY Zenon, <2>1, <2>2, WireOrder DEF HasHeader
  <2>5. HasHeader(t, r)'
    BY <2>1, <2>2, <2>3, <2>4 DEF HasHeader
  <2> QED
    BY <2>2, <2>3, <2>5 DEF Alone
<1>3. CASE ReadHeader(t)
  <2>1. call[t].at = "read" /\ ReadsHeader(t, r) /\ stream # <<>> /\ stream' = Tail(stream)
        /\ UNCHANGED <<outbox, reads, aborted, io, dangling>>
    BY <1>3 DEF ReadHeader, Alone, Drained, ReadsHeader, AwaitsHeader, HasHeader
  <2>2. Head(stream) = HeaderOf(r) /\ AfterHeader(r)'
    <3>1. UNCHANGED outbox
      BY <2>1
    <3> QED
      BY Zenon, <2>1, <3>1, WireOrder DEF ReadsHeader
  <2>3. HeaderIn(Head(stream)) = r /\ r # Garbage
    BY <2>2, PieceFields DEF Reqs, Garbage
  <2>4. call' = [call EXCEPT ![t].at = "wait", ![t].done = TRUE, ![t].got = r]
    BY Zenon, <1>3, <2>3 DEF ReadHeader
  <2>5. /\ call'[t].at = "wait" /\ call'[t].done = TRUE /\ call'[t].got = r
        /\ call'[t].req = call[t].req /\ call'[t].async = call[t].async
    <3> DEFINE c == [call[t] EXCEPT !.at = "wait", !.done = TRUE, !.got = r]
    <3>1. /\ c.at = "wait" /\ c.done = TRUE /\ c.got = r
          /\ c.req = call[t].req /\ c.async = call[t].async
      BY <1>0 DEF CallRecs
    <3>2. call'[t] = c
      BY <1>0, <2>4 DEF CallTyped
    <3> HIDE DEF c
    <3> QED
      BY <3>1, <3>2
  <2>6. reads' = <<>>
    BY <2>1 DEF ReadsHeader
  <2>7. HasHeader(t, r)'
    BY Zenon, <2>2, <2>5, <2>6 DEF HasHeader
  <2> QED
    BY <2>1, <2>5, <2>7 DEF Alone
<1>4. CASE ReadBody(t)
  <2>1. call[t].at = "body" /\ HasHeader(t, r) /\ stream # <<>>
    BY <1>4 DEF ReadBody, Alone, Drained, ReadsHeader, AwaitsHeader, HasHeader
  <2>2. Head(stream) = BodyOf(r)
    BY <2>1, WireOrder DEF HasHeader
  <2>3. Body(call[t].got) # Garbage
    BY <2>1, <2>2 DEF HasHeader, Body, BodyOf, Reqs, Garbage
  <2>4. Return(t)
    BY Zenon, <1>4, <2>3 DEF ReadBody
  <2>5. call'[t].at = "idle"
    BY <1>0, <2>4, ReturnEffect, IdleRec
  <2> QED
    BY <2>5
<1>5. CASE Timer(t)
  <2>1. /\ call' = [call EXCEPT ![t].expired = TRUE]
        /\ UNCHANGED <<aborted, reads>> /\ UNCHANGED io /\ UNCHANGED dangling
        /\ UNCHANGED <<stream, outbox>>
    BY <1>5 DEF Timer, external
  <2>2. /\ [call[t] EXCEPT !.expired = TRUE].at = call[t].at
        /\ [call[t] EXCEPT !.expired = TRUE].req = call[t].req
        /\ [call[t] EXCEPT !.expired = TRUE].async = call[t].async
        /\ [call[t] EXCEPT !.expired = TRUE].done = call[t].done
        /\ [call[t] EXCEPT !.expired = TRUE].got = call[t].got
    BY <1>0 DEF CallRecs
  <2>3. /\ call'[t].at = call[t].at /\ call'[t].req = call[t].req
        /\ call'[t].async = call[t].async /\ call'[t].done = call[t].done
        /\ call'[t].got = call[t].got
    BY <1>0, <2>1, <2>2 DEF CallTyped
  <2>4. /\ Drained(t) => stream' = <<>> /\ outbox' = <<>>
        /\ BeforeHeader(r) => BeforeHeader(r)'
        /\ AfterHeader(r) => AfterHeader(r)'
    BY <2>1, WireOrder DEF Drained
  <2> QED
    BY Zenon, <2>1, <2>3, <2>4, AloneFrame
<1>6. CASE Dangling(t)
  <2>1. dangling[t] > 0 /\ call[t].at = "body"
    BY <1>6, <1>0 DEF Dangling, Alone
  <2>2. /\ UNCHANGED call /\ UNCHANGED <<aborted, reads>> /\ UNCHANGED io
        /\ UNCHANGED <<stream, outbox>>
    BY <1>6, <2>1 DEF Dangling, external
  <2>3. /\ Drained(t) => stream' = <<>> /\ outbox' = <<>>
        /\ BeforeHeader(r) => BeforeHeader(r)'
        /\ AfterHeader(r) => AfterHeader(r)'
    BY <2>2, WireOrder DEF Drained
  <2> QED
    BY Zenon, <2>1, <2>2, <2>3, AloneFrame
<1> QED
  BY Zenon, <1>1, <1>2, <1>3, <1>4, <1>5, <1>6

\* ... those of the io thread, ...
LEMMA AloneIoStep ==
    ASSUME Typed, NEW t \in Threads, NEW r \in Reqs, Alone(t, r),
           IoHeader \/ IoError
    PROVE  Alone(t, r)'
<1>0. call \in [Threads -> CallRecs] /\ call[t] \in CallRecs
  BY DEF Typed, CallTyped
<1> DEFINE own == [req |-> r, async |-> FALSE]
<1>1. reads # <<>>
  BY Zenon DEF IoHeader, IoError
<1>2. /\ AwaitsHeader(t, r) /\ reads = <<own>> /\ call[t].at = "wait" /\ call[t].req = r
      /\ ~call[t].async /\ aborted = <<>> /\ io.at = "run" /\ dangling[t] = 0
  BY Zenon, <1>1 DEF Alone, Drained, ReadsHeader, AwaitsHeader, HasHeader
<1>3. Head(reads) = own /\ Tail(reads) = <<>> /\ own.req = r /\ own.async = FALSE
  <2>1. own.req = r /\ own.async = FALSE
    OBVIOUS
  <2> HIDE DEF own
  <2> QED
    BY <2>1, <1>2, OneElement
<1>4. t \in WaitingFor(r)
  BY <1>2 DEF WaitingFor
<1>5. CASE IoHeader
  <2>1. /\ stream # <<>> /\ stream' = Tail(stream) /\ reads' = <<>>
        /\ UNCHANGED <<aborted, dangling>> /\ UNCHANGED outbox
    BY Zenon, <1>5, <1>3 DEF IoHeader
  <2>2. Head(stream) = HeaderOf(r) /\ AfterHeader(r)'
    BY Zenon, <1>2, <2>1, WireOrder DEF AwaitsHeader
  <2>3. HeaderIn(Head(stream)) = r /\ r # Garbage
    BY <2>2, PieceFields DEF Reqs, Garbage
  <2>4. /\ call' = [u \in Threads |-> IF u \in WaitingFor(r)
                      THEN [call[u] EXCEPT !.done = TRUE, !.got = r] ELSE call[u]]
        /\ UNCHANGED io
    <3>1. Head(reads).req = r /\ Head(reads).async = FALSE
      BY <1>3
    <3> HIDE DEF own
    <3> QED
      BY Zenon, <1>5, <2>3, <3>1 DEF IoHeader
  <2>5. call'[t] = [call[t] EXCEPT !.done = TRUE, !.got = r]
    BY Zenon, <2>4, <1>4
  <2>6. /\ call'[t].at = "wait" /\ call'[t].done = TRUE /\ call'[t].got = r
        /\ call'[t].req = r /\ ~call'[t].async
    <3> DEFINE c == [call[t] EXCEPT !.done = TRUE, !.got = r]
    <3>1. /\ c.at = call[t].at /\ c.done = TRUE /\ c.got = r /\ c.req = call[t].req
          /\ c.async = call[t].async
      BY <1>0 DEF CallRecs
    <3>2. call'[t] = c
      BY <2>5
    <3> HIDE DEF c
    <3> QED
      BY <3>1, <3>2, <1>2
  <2>7. HasHeader(t, r)'
    BY Zenon, <2>1, <2>2, <2>6 DEF HasHeader
  <2>8. aborted' = <<>> /\ io'.at = "run" /\ dangling'[t] = 0
    BY Zenon, <1>2, <2>1, <2>4
  <2> QED
    BY Zenon, <2>6, <2>7, <2>8 DEF Alone
<1>6. CASE IoError
  <2>1. /\ reads' = <<>> /\ UNCHANGED <<aborted, dangling>> /\ UNCHANGED <<stream, outbox>>
    BY <1>6, <1>3 DEF IoError, external
  <2>2. /\ call' = [u \in Threads |-> IF u \in WaitingFor(r)
                      THEN [call[u] EXCEPT !.failed = TRUE] ELSE call[u]]
        /\ UNCHANGED io
    <3>1. Head(reads).req = r /\ Head(reads).async = FALSE
      BY <1>3
    <3> HIDE DEF own
    <3> QED
      BY Zenon, <1>6, <3>1 DEF IoError
  <2>3. call'[t] = [call[t] EXCEPT !.failed = TRUE]
    BY Zenon, <2>2, <1>4
  <2>4. /\ call'[t].at = "wait" /\ ~call'[t].done /\ call'[t].req = r /\ ~call'[t].async
    <3> DEFINE c == [call[t] EXCEPT !.failed = TRUE]
    <3>1. /\ c.at = call[t].at /\ c.done = call[t].done /\ c.req = call[t].req
          /\ c.async = call[t].async
      BY <1>0 DEF CallRecs
    <3>2. call'[t] = c
      BY <2>3
    <3> HIDE DEF c
    <3> QED
      BY <3>1, <3>2, <1>2 DEF AwaitsHeader
  <2>5. BeforeHeader(r)'
    BY Zenon, <1>2, <2>1, WireOrder DEF AwaitsHeader
  <2>6. AwaitsHeader(t, r)'
    BY Zenon, <2>1, <2>4, <2>5 DEF AwaitsHeader
  <2>7. aborted' = <<>> /\ io'.at = "run" /\ dangling'[t] = 0
    BY Zenon, <1>2, <2>1, <2>2
  <2> QED
    BY Zenon, <2>4, <2>6, <2>7 DEF Alone
<1> QED
  BY Zenon, <1>5, <1>6

\* ... those of the network and of the threads that come after it, ...
LEMMA AloneOtherStep ==
    ASSUME Typed, NEW t \in Threads, NEW r \in Reqs, Alone(t, r),
           \A u \in Threads : u # t => call[u].at \in {"idle", "lock"},
           \/ Deliver \/ Break
           \/ \E u \in Threads \ {t} :
                 \/ \E async, timed \in BOOLEAN : Call(u, async, timed)
                 \/ Dangling(u)
    PROVE  Alone(t, r)'
<1>0. CallTyped /\ dangling \in [Threads -> Nat]
  BY DEF Typed, DanglingTyped
<1>1. CASE Deliver
  <2>1. UNCHANGED <<aborted, reads>> /\ UNCHANGED io /\ UNCHANGED call /\ UNCHANGED dangling
    BY <1>1 DEF Deliver
  <2>2. ~Drained(t)
    BY <1>1 DEF Deliver, Drained
  <2>3. BeforeHeader(r) => BeforeHeader(r)'
    BY Zenon, <1>1, WireOrder
  <2>4. AfterHeader(r) => AfterHeader(r)'
    BY Zenon, <1>1, WireOrder
  <2> QED
    BY Zenon, <2>1, <2>2, <2>3, <2>4, AloneFrame
<1>2. CASE Break
  <2>1. /\ UNCHANGED <<aborted, reads>> /\ UNCHANGED io /\ UNCHANGED call
        /\ UNCHANGED dangling /\ UNCHANGED stream /\ outbox' = <<>>
    BY <1>2 DEF Break
  <2>2. Drained(t) => stream' = <<>> /\ outbox' = <<>>
    BY <2>1 DEF Drained
  <2>3. BeforeHeader(r) => BeforeHeader(r)'
    BY Zenon, <2>1, WireOrder
  <2>4. AfterHeader(r) => AfterHeader(r)'
    BY Zenon, <2>1, WireOrder
  <2> QED
    BY Zenon, <2>1, <2>2, <2>3, <2>4, AloneFrame
<1>3. ASSUME NEW u \in Threads \ {t},
             \/ \E async, timed \in BOOLEAN : Call(u, async, timed)
             \/ Dangling(u)
      PROVE  Alone(t, r)'
  <2>1. UNCHANGED <<aborted, reads>> /\ UNCHANGED io /\ UNCHANGED <<stream, outbox>>
    BY Zenon, <1>3 DEF Call, Dangling, external
  <2>2. call'[t] = call[t]
    <3>1. CASE \E async, timed \in BOOLEAN : Call(u, async, timed)
      BY Zenon, <3>1, <1>0, CallEffect
    <3>2. CASE Dangling(u)
      <4>1. UNCHANGED call
        BY <3>2 DEF Dangling
      <4> QED
        BY <4>1
    <3> QED
      BY <1>3, <3>1, <3>2
  <2>3. dangling'[t] = dangling[t]
    <3>1. CASE \E async, timed \in BOOLEAN : Call(u, async, timed)
      BY Zenon, <3>1 DEF Call
    <3>2. CASE Dangling(u)
      BY <3>2, <1>3, <1>0 DEF Dangling
    <3> QED
      BY <1>3, <3>1, <3>2
  <2>4. /\ Drained(t) => stream' = <<>> /\ outbox' = <<>>
        /\ BeforeHeader(r) => BeforeHeader(r)'
        /\ AfterHeader(r) => AfterHeader(r)'
    BY <2>1, WireOrder DEF Drained
  <2> QED
    BY Zenon, <2>1, <2>2, <2>3, <2>4, AloneFrame
<1> QED
  BY Zenon, <1>1, <1>2, <1>3

\* ... and so all of them.
LEMMA AloneStep ==
    ASSUME Typed, MutexHeld, Next, NEW t \in Threads, NEW r \in Reqs, Alone(t, r),
           call'[t].at # "idle"
    PROVE  Alone(t, r)'
<1>0. CallTyped /\ mutex \in Threads \cup {"free"}
  BY DEF Typed, CallTyped
<1>1. call[t].at \in {"write", "read", "wait", "body"}
  BY DEF Alone, Drained, ReadsHeader, AwaitsHeader, HasHeader
<1>2. mutex = t /\ mutex # "free"
  BY <1>1, ThreadsAssumption DEF MutexHeld
<1>3. \A u \in Threads : u # t => call[u].at \in {"idle", "lock"}
  BY <1>2 DEF MutexHeld
<1>4. aborted = <<>> /\ io.at = "run"
  BY DEF Alone
<1>5. CASE Deliver \/ Break
  BY Zenon, <1>5, <1>3, AloneOtherStep
<1>6. ~Create /\ ~Destroy
  BY <1>1 DEF Create, Destroy, Quiet
<1>7. CASE IoHeader \/ IoError
  BY Zenon, <1>7, AloneIoStep
<1>8. ~IoAborted /\ ~IoAgain /\ ~IoBody /\ ~IoBodyFails
  BY <1>4 DEF IoAborted, IoAgain, IoBody, IoBodyFails
<1>9. ASSUME NEW u \in Threads,
             \/ \E async, timed \in BOOLEAN : Call(u, async, timed)
             \/ Lock(u) \/ NotCreated(u) \/ Admit(u) \/ Reject(u) \/ Drain(u)
             \/ Write(u) \/ SendFails(u) \/ GiveUp(u) \/ HeaderDone(u)
             \/ ReadHeader(u) \/ ReadBody(u) \/ ReadThrows(u)
             \/ Timer(u) \/ Dangling(u)
      PROVE  Alone(t, r)'
  <2>1. ~Lock(u)
    BY <1>2 DEF Lock
  <2>2. CASE u # t
    <3>1. call[u].at \in {"idle", "lock"}
      BY <2>2, <1>3
    <3>2. /\ ~NotCreated(u) /\ ~Admit(u) /\ ~Reject(u) /\ ~Drain(u) /\ ~Write(u)
          /\ ~SendFails(u) /\ ~GiveUp(u) /\ ~HeaderDone(u) /\ ~ReadHeader(u)
          /\ ~ReadBody(u) /\ ~ReadThrows(u) /\ ~Timer(u)
      BY <3>1 DEF NotCreated, Admit, Reject, Drain, Write, SendFails, GiveUp, HeaderDone,
         ReadHeader, ReadBody, ReadThrows, Timer
    <3>3. \/ \E async, timed \in BOOLEAN : Call(u, async, timed)
          \/ Dangling(u)
      BY Zenon, <1>9, <2>1, <3>2
    <3>4. u \in Threads \ {t}
      BY <2>2
    <3> QED
      BY Zenon, <1>3, <3>3, <3>4, AloneOtherStep
  <2>3. CASE u = t
    <3>0. call[t].at # "idle" /\ call[t].at # "send" /\ call[t].at # "admit"
      BY <1>1
    <3>1. /\ ~NotCreated(t) /\ ~Admit(t) /\ ~Reject(t) /\ ~Drain(t)
          /\ \A async, timed \in BOOLEAN : ~Call(t, async, timed)
      BY Zenon, <3>0 DEF NotCreated, Admit, Reject, Drain, Call
    <3>2. ~SendFails(t) /\ ~GiveUp(t) /\ ~ReadThrows(t)
      <4>1. ~Return(t)
        BY <1>0, ReturnEffect, IdleRec
      <4> QED
        BY Zenon, <4>1 DEF SendFails, GiveUp, ReadThrows
    <3>3. \/ Write(t) \/ HeaderDone(t) \/ ReadHeader(t) \/ ReadBody(t)
          \/ Timer(t) \/ Dangling(t)
      BY Zenon, <1>9, <2>1, <2>3, <3>1, <3>2
    <3> QED
      BY Zenon, <3>3, AloneOwnStep
  <2> QED
    BY <2>2, <2>3
<1> QED
  BY Zenon, NextCases, <1>5, <1>6, <1>7, <1>8, <1>9

\* A request that is sent while nothing is under way is alone from then on.
LEMMA DrainStep ==
    ASSUME Typed, Staged, NEW t \in Threads, Drain(t),
           call[t].req \in clean', call[t].req \notin clean,
           NEW r, r = call[t].req
    PROVE  Alone(t, r)'
<1>0. CallTyped /\ "write" \in Points
  BY DEF Typed, Points
<1>1. ~call[t].async /\ NothingUnderWay
  BY Zenon DEF Drain
<1>2. call[t].at = "send" /\ ~call[t].done
  <2>1. call[t].at = "send"
    BY DEF Drain
  <2> QED
    BY <2>1 DEF Staged, Early
<1>3. Goto(t, "write") /\ stream' = <<>> /\ UNCHANGED <<outbox, reads, aborted, io, dangling>>
  BY DEF Drain
<1>4. /\ call'[t].at = "write" /\ call'[t].req = r /\ ~call'[t].async /\ ~call'[t].done
  <2>1. /\ call'[t].at = "write" /\ call'[t].req = call[t].req
        /\ call'[t].async = call[t].async /\ call'[t].done = call[t].done
    BY Zenon, <1>0, <1>3, GotoEffect
  <2> QED
    BY <2>1, <1>1, <1>2
<1>5. /\ outbox' = <<>> /\ reads' = <<>> /\ aborted' = <<>> /\ io'.at = "run"
      /\ dangling'[t] = 0
  BY <1>1, <1>3 DEF NothingUnderWay, Running
<1>6. Drained(t)'
  BY Zenon, <1>3, <1>4, <1>5 DEF Drained
<1> QED
  BY Zenon, <1>4, <1>5, <1>6 DEF Alone

\* A request becomes clean when its call reads the socket empty.
LEMMA CleanMoves ==
    ASSUME Next, Typed, NEW r \in clean'
    PROVE  r \in clean \/ \E t \in Threads : Drain(t) /\ r = call[t].req
<1>1. CASE UNCHANGED clean
  BY <1>1
<1>2. ASSUME NEW t \in Threads, Drain(t)
      PROVE  r \in clean \/ \E u \in Threads : Drain(u) /\ r = call[u].req
  <2>1. clean' \in {clean, clean \cup {call[t].req}}
    BY Zenon, <1>2 DEF Drain
  <2> QED
    BY <1>2, <2>1
<1> QED
  BY Zenon, <1>1, <1>2, CleanSteps

\* A clean request stays alone until its call returns.
LEMMA CleanIsAloneStep ==
    Typed /\ MutexHeld /\ Numbered /\ Staged /\ CleanIsAlone /\ Next => CleanIsAlone'
<1> SUFFICES ASSUME Typed, MutexHeld, Numbered, Staged, CleanIsAlone, Next
             PROVE  CleanIsAlone'
  OBVIOUS
<1>0. next \in Nat /\ next' \in Nat /\ next <= next' /\ clean \subseteq Reqs
  BY RequestMoves DEF Typed, CleanTyped
<1>1. ASSUME NEW t \in Threads, Drain(t)
      PROVE  call[t].at # "idle" /\ call[t].req \in 1..(next - 1)
  BY <1>1 DEF Drain, Numbered
<1>2. ASSUME NEW r \in clean'
      PROVE  r \in Reqs /\ r < next
  <2>1. CASE r \in clean
    BY <2>1, <1>0 DEF CleanIsAlone
  <2>2. CASE \E t \in Threads : Drain(t) /\ r = call[t].req
    <3>1. r \in 1..(next - 1)
      BY Zenon, <2>2, <1>1
    <3>2. next <= MaxRequests + 1
      BY DEF Typed, BoundTyped
    <3> QED
      BY <3>1, <3>2, <1>0, MaxRequestsAssumption DEF Reqs
  <2> QED
    BY <2>1, <2>2, CleanMoves
<1>3. \A r \in clean' : r < next'
  <2> SUFFICES ASSUME NEW r \in clean' PROVE r < next'
    OBVIOUS
  <2>1. r \in Reqs /\ r < next
    BY <1>2
  <2> QED
    BY <2>1, <1>0 DEF Reqs
<1>4. ASSUME NEW t \in Threads, NEW r \in clean', call'[t].at # "idle", call'[t].req = r
      PROVE  Alone(t, r)'
  <2>1. r \in Reqs /\ r < next
    BY <1>2
  <2>2. call[t].at # "idle" /\ call[t].req = r
    <3>1. r # next
      BY <2>1, <1>0 DEF Reqs
    <3> QED
      BY Zenon, <1>4, <3>1, RequestMoves
  <2>3. CASE r \in clean
    <3>1. Alone(t, r)
      BY <2>2, <2>3 DEF CleanIsAlone
    <3> QED
      BY Zenon, <1>4, <2>1, <3>1, AloneStep
  <2>4. CASE r \notin clean
    <3>1. PICK u \in Threads : Drain(u) /\ r = call[u].req
      BY <2>4, CleanMoves
    <3>2. u = t
      BY Zenon, <1>1, <2>2, <3>1 DEF Numbered
    <3> QED
      BY Zenon, <1>4, <2>2, <2>4, <3>1, <3>2, DrainStep
  <2> QED
    BY <2>3, <2>4
<1>5. ASSUME NEW t \in Threads, NEW r \in clean', call'[t].at # "idle", call'[t].req = r
      PROVE  ~Early(t)'
  <2>1. Alone(t, r)'
    BY <1>5, <1>4
  <2>2. call'[t].at \in {"write", "read", "wait", "body"}
    BY <2>1 DEF Alone, Drained, ReadsHeader, AwaitsHeader, HasHeader
  <2> QED
    BY <2>2 DEF Early
<1> QED
  BY Zenon, <1>3, <1>4, <1>5 DEF CleanIsAlone

\* What a call returns.
LEMMA AnswerGiven ==
    ASSUME Next, Typed
    PROVE  \/ UNCHANGED answer
           \/ \E t \in Threads :
                 /\ call[t].at # "idle"
                 /\ \/ answer' = [answer EXCEPT ![call[t].req] = Failed]
                    \/ /\ call[t].at = "body" /\ stream # <<>>
                       /\ answer' = [answer EXCEPT ![call[t].req] = Body(call[t].got)]
                 /\ UNCHANGED clean
<1> DEFINE Given(t) ==
                 /\ call[t].at # "idle"
                 /\ \/ answer' = [answer EXCEPT ![call[t].req] = Failed]
                    \/ /\ call[t].at = "body" /\ stream # <<>>
                       /\ answer' = [answer EXCEPT ![call[t].req] = Body(call[t].got)]
                 /\ UNCHANGED clean
<1>1. ASSUME NEW t \in Threads, NotCreated(t)
      PROVE  Given(t)
  BY <1>1 DEF NotCreated
<1>2. ASSUME NEW t \in Threads, SendFails(t)
      PROVE  UNCHANGED answer \/ Given(t)
  <2>1. call[t].at # "idle" /\ UNCHANGED clean
    BY <1>2 DEF SendFails
  <2>2. UNCHANGED answer \/ answer' = [answer EXCEPT ![call[t].req] = Failed]
    BY Zenon, <1>2 DEF SendFails
  <2> QED
    BY <2>1, <2>2
<1>3. ASSUME NEW t \in Threads, GiveUp(t)
      PROVE  Given(t)
  <2>1. /\ call[t].at # "idle" /\ UNCHANGED clean
        /\ answer' = [answer EXCEPT ![call[t].req] = Failed]
    BY <1>3 DEF GiveUp
  <2> QED
    BY <2>1
<1>4. ASSUME NEW t \in Threads, ReadBody(t)
      PROVE  UNCHANGED answer \/ Given(t)
  <2>1. call[t].at = "body" /\ stream # <<>> /\ UNCHANGED clean
    BY <1>4 DEF ReadBody
  <2>2. \/ UNCHANGED answer
        \/ answer' = [answer EXCEPT ![call[t].req] = Body(call[t].got)]
    BY Zenon, <1>4 DEF ReadBody
  <2> QED
    BY <2>1, <2>2
<1>5. ASSUME NEW t \in Threads, ReadThrows(t)
      PROVE  Given(t)
  BY <1>5 DEF ReadThrows
<1> HIDE DEF Given
<1>6. UNCHANGED answer \/ \E t \in Threads : Given(t)
  BY Zenon, AnswerSteps, <1>1, <1>2, <1>3, <1>4, <1>5
<1> QED
  BY Zenon, <1>6 DEF Given

\* A clean request that is answered is answered with the body of its own answer.
LEMMA CleanAnswersStep ==
    Typed /\ Numbered /\ CleanIsAlone /\ CleanAnswersMatch /\ Next => CleanAnswersMatch'
<1> SUFFICES ASSUME Typed, Numbered, CleanIsAlone, CleanAnswersMatch, Next,
                    NEW r \in clean'
             PROVE  answer'[r] \in {r, Failed, Pending}
  BY Zenon DEF CleanAnswersMatch
<1>0. answer \in [Reqs -> Nums \cup {Pending}] /\ clean \subseteq Reqs
  BY DEF Typed, AnswerTyped, CleanTyped
<1>1. answer[r] \in {r, Failed, Pending}
  <2>1. CASE r \in clean
    BY <2>1 DEF CleanAnswersMatch
  <2>2. ASSUME NEW t \in Threads, Drain(t), r = call[t].req
        PROVE  answer[r] \in {r, Failed, Pending}
    <3>1. call[t].at # "idle"
      BY <2>2 DEF Drain
    <3> QED
      BY <2>2, <3>1 DEF Numbered
  <2> QED
    BY Zenon, <2>1, <2>2, CleanMoves
<1>2. CASE UNCHANGED answer
  BY <1>1, <1>2
<1>3. ASSUME NEW t \in Threads, call[t].at # "idle", UNCHANGED clean,
             \/ answer' = [answer EXCEPT ![call[t].req] = Failed]
             \/ /\ call[t].at = "body" /\ stream # <<>>
                /\ answer' = [answer EXCEPT ![call[t].req] = Body(call[t].got)]
      PROVE  answer'[r] \in {r, Failed, Pending}
  <2>0. r \in clean /\ r \in Reqs
    BY <1>0, <1>3
  <2>1. CASE call[t].req # r
    <3>1. answer'[r] = answer[r]
      BY <1>0, <1>3, <2>0, <2>1
    <3> QED
      BY <1>1, <3>1
  <2>2. CASE call[t].req = r
    <3>1. Alone(t, r)
      BY <1>3, <2>0, <2>2 DEF CleanIsAlone
    <3>2. CASE answer' = [answer EXCEPT ![r] = Failed]
      BY <1>0, <2>0, <3>2
    <3>3. CASE /\ call[t].at = "body" /\ stream # <<>>
               /\ answer' = [answer EXCEPT ![r] = Body(call[t].got)]
      <4>1. HasHeader(t, r)
        BY <3>1, <3>3 DEF Alone, Drained, ReadsHeader, AwaitsHeader, HasHeader
      <4>2. AfterHeader(r) /\ call[t].got = r
        BY <4>1 DEF HasHeader
      <4>3. Head(stream) = BodyOf(r)
        BY Zenon, <3>3, <4>2, WireOrder
      <4>4. Body(call[t].got) = r
        BY Zenon, <4>2, <4>3 DEF Body, BodyOf
      <4>5. answer'[r] = r
        BY <1>0, <2>0, <3>3, <4>4
      <4> QED
        BY <4>5
    <3> QED
      BY Zenon, <1>3, <2>2, <3>2, <3>3
  <2> QED
    BY <2>1, <2>2
<1> QED
  BY Zenon, AnswerGiven, <1>2, <1>3

-----------------------------------------------------------------------------
(* The invariant.                                                          *)

\* The invariant holds at first ...
LEMMA InitIInv == Init => IInv
<1> SUFFICES ASSUME Init PROVE IInv
  OBVIOUS
<1>1. Typed
  BY TypedInit
<1>2. \A t \in Threads : call[t].at = "idle" /\ dangling[t] = 0
  <2> SUFFICES ASSUME NEW t \in Threads
               PROVE  call[t].at = "idle" /\ dangling[t] = 0
    BY Zenon
  <2>1. call[t] = Idle /\ dangling[t] = 0
    BY Zenon DEF Init
  <2> QED
    BY Zenon, <2>1, IdleRec
<1>3. /\ reads = <<>> /\ aborted = <<>> /\ io.at = "run" /\ mutex = "free"
      /\ inProgress = FALSE /\ clean = {} /\ next = 1
  BY DEF Init, Running
<1>4. \A r \in Reqs : answer[r] = Pending /\ calls[r] = 0 /\ ~ok[r]
  BY DEF Init
<1>5. MutexHeld
  BY Zenon, <1>2, <1>3, ThreadsAssumption DEF MutexHeld
<1>6. Numbered
  BY <1>2, <1>4 DEF Numbered
<1>7. Staged
  BY Zenon, <1>2 DEF Staged, Early
<1>8. DOMAIN reads = {} /\ DOMAIN aborted = {}
  BY <1>3
<1>9. Queued
  BY <1>3, <1>8 DEF Queued
<1>10. FewDangling
  <2> SUFFICES ASSUME NEW t \in Threads PROVE dangling[t] <= DanglingLimit(t)
    BY Zenon DEF FewDangling
  <2>1. DanglingLimit(t) = 2 * (next - 1)
    BY Zenon, <1>2 DEF DanglingLimit
  <2> QED
    BY <1>2, <1>3, <2>1
<1>11. \A r : ~ReadOf(r) /\ ~AbortedOf(r) /\ ~IoOf(r)
  BY <1>3, <1>8 DEF ReadOf, AbortedOf, IoOf
<1>12. OneHandler
  BY Zenon, <1>8, <1>11 DEF OneHandler
<1>13. NoneBefore /\ NoneAfter
  BY <1>2, <1>11 DEF NoneBefore, NoneAfter, NotAdmitted, Handled
<1>14. Busy /\ CleanIsAlone /\ CleanAnswersMatch
  BY <1>3 DEF Busy, CleanIsAlone, CleanAnswersMatch
<1> QED
  BY <1>1, <1>5, <1>6, <1>7, <1>9, <1>10, <1>12, <1>13, <1>14 DEF IInv

\* ... is kept by every step ...
LEMMA IInvStep == IInv /\ [Next]_vars => IInv'
<1>1. ASSUME IInv, Next
      PROVE  IInv'
  <2>0. /\ Typed /\ MutexHeld /\ Numbered /\ Staged /\ Queued /\ FewDangling
        /\ OneHandler /\ NoneBefore /\ NoneAfter /\ Busy
        /\ CleanIsAlone /\ CleanAnswersMatch
    BY Zenon, <1>1 DEF IInv
  <2>1. Requested
    BY Zenon, <2>0, RequestedInv DEF Typed
  <2>2. Typed'
    BY Zenon, <1>1, <2>0, <2>1, TypedStep
  <2>3. MutexHeld' /\ Staged' /\ FewDangling'
    BY Zenon, <1>1, <2>0, MutexHeldStep, StagedStep, FewDanglingStep
  <2>4. Numbered' /\ Queued'
    BY Zenon, <1>1, <2>0, NumberedStep, QueuedStep
  <2>5. OneHandler' /\ NoneBefore' /\ NoneAfter'
    BY Zenon, <1>1, <2>0, <2>1, OneHandlerStep, NoneBeforeStep, NoneAfterStep
  <2>6. Busy'
    BY Zenon, <1>1, <2>0, <2>1, BusyStep
  <2>7. CleanIsAlone' /\ CleanAnswersMatch'
    BY Zenon, <1>1, <2>0, CleanIsAloneStep, CleanAnswersStep
  <2> QED
    BY Zenon, <2>2, <2>3, <2>4, <2>5, <2>6, <2>7 DEF IInv
<1>2. ASSUME IInv, UNCHANGED vars
      PROVE  IInv'
  <2>1. Typed'
    <3>1. Requested
      BY Zenon, <1>2, RequestedInv DEF IInv, Typed
    <3> QED
      BY Zenon, <1>2, <3>1, TypedStep DEF IInv
  <2>2. /\ UNCHANGED <<link, stream, outbox>> /\ UNCHANGED inProgress
        /\ UNCHANGED reads /\ UNCHANGED aborted /\ UNCHANGED io
        /\ UNCHANGED mutex /\ UNCHANGED call /\ UNCHANGED dangling
        /\ UNCHANGED answer /\ UNCHANGED calls /\ UNCHANGED ok /\ UNCHANGED clean
        /\ UNCHANGED next
    BY <1>2 DEF vars
  <2>3. MutexHeld' /\ Numbered' /\ Staged' /\ Queued' /\ FewDangling'
    BY <1>2, <2>2 DEF IInv, MutexHeld, Numbered, Staged, Early, Queued, FewDangling,
       DanglingLimit
  <2>4. OneHandler' /\ NoneBefore' /\ NoneAfter' /\ Busy'
    BY <1>2, <2>2 DEF IInv, OneHandler, NoneBefore, NotAdmitted, NoneAfter, Busy, Handled,
       ReadOf, AbortedOf, IoOf
  <2>5. CleanIsAlone' /\ CleanAnswersMatch'
    BY <1>2, <2>2 DEF IInv, CleanIsAlone, CleanAnswersMatch, Early, Alone, Drained,
       ReadsHeader, AwaitsHeader, HasHeader, BeforeHeader, AfterHeader
  <2> QED
    BY Zenon, <2>1, <2>3, <2>4, <2>5 DEF IInv
<1> QED
  BY Zenon, <1>1, <1>2

\* ... and so holds always.
LEMMA IInvAlways == Spec => []IInv
BY InitIInv, IInvStep, PTL DEF Spec

-----------------------------------------------------------------------------
(* The properties.                                                         *)

\* The client's state is always well formed: the mutex is held by the one call
\* that is past its lock, and the handlers that outlive a frame are bounded.
THEOREM ClientTypeCorrect == Spec => []TypeOK
<1>1. IInv => TypeOK
  <2> SUFFICES ASSUME IInv PROVE TypeOK
    OBVIOUS
  <2>1. Typed /\ MutexHeld /\ FewDangling
    BY Zenon DEF IInv
  <2>2. \A t \in Threads : dangling[t] \in 0..2 * MaxRequests
    <3> SUFFICES ASSUME NEW t \in Threads
                 PROVE  dangling[t] \in 0..2 * MaxRequests
      BY Zenon
    <3>1. dangling[t] \in Nat /\ dangling[t] <= DanglingLimit(t)
      BY <2>1 DEF Typed, DanglingTyped, FewDangling
    <3>2. next \in 1..(MaxRequests + 1)
      BY <2>1 DEF Typed, BoundTyped
    <3>3. DanglingLimit(t) \in Int /\ DanglingLimit(t) <= 2 * MaxRequests
      BY <3>2, MaxRequestsAssumption DEF DanglingLimit
    <3> QED
      BY <3>1, <3>3, MaxRequestsAssumption
  <2>3. io.at \in {"run", "body", "again"}
    BY <2>1 DEF Typed, IoTyped, IoRecs
  <2>4. answer \in [Reqs -> Reqs \cup {Failed, Garbage, Pending}]
    BY <2>1 DEF Typed, AnswerTyped, Nums
  <2>5. clean \subseteq Reqs /\ next \in 1..(MaxRequests + 1)
    BY <2>1 DEF Typed, CleanTyped, BoundTyped
  <2>6. /\ created \in BOOLEAN /\ link \in {"up", "broken", "down"}
        /\ stream \in Seq(Pieces) /\ outbox \in Seq(Pieces)
        /\ reads \in Seq(Reads) /\ aborted \in Seq(Reads)
        /\ mutex \in Threads \cup {"free"} /\ inProgress \in BOOLEAN
    BY Zenon, <2>1 DEF Typed, FlagTyped, WireTyped, QueueTyped, CallTyped
  <2> QED
    BY Zenon, <2>1, <2>2, <2>3, <2>4, <2>5, <2>6 DEF TypeOK, MutexHeld
<1> QED
  BY <1>1, IInvAlways, PTL

\* A synchronous request that is sent while nothing is under way returns its own
\* response or none (ExecuteRequest, SendRequest's reading the socket empty).
THEOREM CleanRequestsGetTheirOwn == Spec => []CleanAnswersMatch
<1>1. IInv => CleanAnswersMatch
  BY Zenon DEF IInv
<1> QED
  BY <1>1, IInvAlways, PTL

\* While m_async_request_in_progress is set there is a request whose callback has
\* not run and whose handler is at the socket or in the io thread: the client
\* does not refuse requests for ever.
THEOREM NeverBusyForNothing == Spec => []BusyIsBusy
<1>1. IInv => BusyIsBusy
  BY Zenon DEF IInv, Busy, BusyIsBusy, ReadOf, AbortedOf
<1> QED
  BY <1>1, IInvAlways, PTL

\* While the connection holds, no step runs a callback again that was given a
\* response: its request has no handler left, and the threads that call back
\* themselves do it for requests that have never had one.
THEOREM NoCallbackAfterResponse == Spec => NoCallAfterResponse
<1>1. IInv /\ [Next]_vars =>
        [\A r \in Reqs : ok[r] /\ link = "up" => calls'[r] = calls[r]]_vars
  <2> SUFFICES ASSUME IInv, Next, NEW r \in Reqs, ok[r], link = "up"
               PROVE  calls'[r] = calls[r]
    BY DEF vars
  <2>0. Typed /\ Staged /\ NoneBefore /\ NoneAfter
    BY Zenon DEF IInv
  <2>1. CASE UNCHANGED <<calls, ok>>
    BY <2>1
  <2>2. ASSUME NEW s, CalledBack(s), s # r
        PROVE  calls'[r] = calls[r]
    BY Zenon, <2>0, <2>2 DEF CalledBack, Typed, CallsTyped
  <2>3. ~CalledBack(r)
    <3>1. ~HandlerRuns(r)
      BY Zenon, <2>0, HandlerOfItsOwn DEF NoneAfter
    <3>2. ASSUME NEW t \in Threads, CallerRuns(t, r)
          PROVE  FALSE
      <4>1. call[t].at = "admit" /\ r = call[t].req
        BY <3>2 DEF CallerRuns
      <4> QED
        BY <4>1, <2>0 DEF Staged, NoneBefore, NotAdmitted
    <3> QED
      BY Zenon, <3>1, <3>2 DEF CalledBack
  <2>4. CallTyped
    BY Zenon, <2>0 DEF Typed
  <2> QED
    BY Zenon, <2>1, <2>2, <2>3, <2>4, CallbackMoves
<1> QED
  BY <1>1, IInvAlways, PTL DEF Spec, NoCallAfterResponse

=============================================================================

------------------------------- MODULE TcpServer -------------------------------
(***************************************************************************)
(* The proxy's server: easy_tcp::CTcpServer and its derived class          *)
(* apollo_proxy_server, the CAsioServer that accepts connections and one   *)
(* CAsioSession per connection.  One thread owns the object and starts,    *)
(* stops and destroys it; one thread, m_server_thread, runs the io_service *)
(* and with it every handler.  Clients and their connections are external. *)
(*                                                                         *)
(* A request is two pieces of the byte stream, its head and its tail.  It  *)
(* carries no length: a session hands over what it has read once the       *)
(* socket is empty.                                                        *)
(***************************************************************************)
EXTENDS Integers, Sequences, FiniteSets

CONSTANTS
    Clients,        \* connections
    Appids,
    Asks,           \* the appid each connection asks for
    MaxRequests,    \* bound: requests, per connection
    MaxStarts,      \* bound: calls of Init, apollo_proxy_server's start
    MaxFaults       \* bound: failures that are not eof or connection_reset

ASSUME ClientsAssumption == IsFiniteSet(Clients)
ASSUME AppidsAssumption == Asks \in [Clients -> Appids]
ASSUME BoundsAssumption ==
    MaxRequests \in [Clients -> Nat] /\ MaxStarts \in Nat /\ MaxFaults \in Nat

VARIABLES
    owner,     \* what the owning thread is doing
    started,   \* m_started
    thread,    \* m_server_thread; "none" when it is not joinable
    server,    \* m_server is not null
    stopping,  \* m_io_service is stopped
    monitor,   \* monitor_server_ is joinable
    data,      \* data_map_: the appids it has a client for
    died,      \* why the process has ended, or "no"
    link,      \* external: the connection, as the server will find it
    wire,      \* external: pieces sent and not read
    session,   \* CAsioSession: none, or the operation it waits for
    request,   \* request_
    reply,     \* response_: the request answered, 0 for none, and with what
    cnt,       \* connect_cnt_
    sent,      \* history: per connection, how many requests were sent ...
    answers,   \* ... and the replies that were written
    split,     \* history: connections with a request handed over in two parts
    crowded,   \* history: those on which a request was sent before an answer
    starts, faults

lifecycle == <<owner, started, thread, server, stopping, monitor, data>>
network   == <<link, wire>>
sessions  == <<session, request, reply, cnt>>
history   == <<sent, answers, split, crowded>>
bounds    == <<starts, faults>>
vars      == <<lifecycle, died, network, sessions, history, bounds>>

NoReply == [no |-> 0, with |-> "nothing"]
Fault   == faults < MaxFaults /\ faults' = faults + 1
Live    == {c \in Clients : session[c] \in {"reading", "writing"}}

Init ==
    /\ owner = "idle" /\ started = FALSE /\ thread = "none" /\ server = FALSE
    /\ stopping = FALSE /\ monitor = FALSE /\ data = {} /\ died = "no"
    /\ link = [c \in Clients |-> "none"]
    /\ wire = [c \in Clients |-> <<>>]
    /\ session = [c \in Clients |-> "none"]
    /\ request = [c \in Clients |-> <<>>]
    /\ reply = [c \in Clients |-> NoReply]
    /\ cnt = 0
    /\ sent = [c \in Clients |-> 0]
    /\ answers = [c \in Clients |-> <<>>]
    /\ split = {} /\ crowded = {}
    /\ starts = 0 /\ faults = 0

-----------------------------------------------------------------------------
(* The owner.                                                              *)

OwnerFree == died = "no" /\ owner = "idle"
Ends(why) == died' = why

\* An std::thread that is joinable ends the process when it is assigned to.
Start ==
    IF started \/ server
      THEN UNCHANGED <<started, thread, died>>
      ELSE IF thread # "none"
             THEN Ends("assigned") /\ UNCHANGED <<started, thread>>
             ELSE started' = TRUE /\ thread' = "spawned" /\ UNCHANGED died

\* data_map_ is filled without a lock while the server thread may copy it:
\* owners are assumed to call Init on a server that is not started.
InitServer(appids) ==
    /\ OwnerFree
    /\ ~started
    /\ starts < MaxStarts
    /\ starts' = starts + 1
    /\ data' = data \cup appids
    /\ Start
    /\ UNCHANGED <<owner, server, stopping, monitor, network, sessions, history,
                   faults>>

StartMonitorService ==
    /\ OwnerFree
    /\ monitor' = TRUE
    /\ IF monitor THEN Ends("assigned") ELSE UNCHANGED died
    /\ UNCHANGED <<owner, started, thread, server, stopping, data, network,
                   sessions, history, bounds>>

Stop_Forgets(next) ==
    /\ started
    /\ stopping' = server
    /\ started' = server
    /\ owner' = IF server THEN next ELSE "idle"
    /\ UNCHANGED <<thread, server, monitor, data, died, network, sessions, history,
                   bounds>>

\* Stop does nothing until the server thread has made m_server.
Stop(next) ==
    /\ started /\ server
    /\ stopping' = TRUE
    /\ owner' = next
    /\ UNCHANGED <<started, thread, server, monitor, data, died, network, sessions,
                   history, bounds>>

CallStop_NoWait ==
    /\ OwnerFree
    /\ started /\ server
    /\ stopping' = TRUE
    /\ started' = FALSE
    /\ UNCHANGED <<owner, thread, server, monitor, data, died, network, sessions,
                   history, bounds>>

CallStop == OwnerFree /\ Stop("stopping")

Join ==
    /\ died = "no"
    /\ owner \in {"stopping", "ending"}
    /\ thread = "ended"
    /\ thread' = "none"
    /\ started' = FALSE
    /\ owner' = IF owner = "ending" THEN "gone" ELSE "idle"
    /\ UNCHANGED <<server, stopping, monitor, data, died, network, sessions,
                   history, bounds>>

\* The members of apollo_proxy_server go first, monitor_server_ and data_map_
\* among them ...
DestroyProxy ==
    /\ OwnerFree
    /\ IF monitor THEN Ends("monitor") ELSE UNCHANGED died
    /\ owner' = "dying"
    /\ data' = {}
    /\ UNCHANGED <<started, thread, server, stopping, monitor, network, sessions,
                   history, bounds>>

\* ... then ~CTcpServer stops the server, if it finds one, and destroys the
\* thread object.
DestroyServer ==
    /\ died = "no"
    /\ owner = "dying"
    /\ \/ Stop("ending")
       \/ /\ ~(started /\ server)
          /\ IF thread # "none" THEN Ends("unjoined") ELSE UNCHANGED died
          /\ owner' = "gone"
          /\ UNCHANGED <<started, thread, server, stopping, monitor, data, network,
                         sessions, history, bounds>>

-----------------------------------------------------------------------------
(* ServerThread.                                                           *)

\* A new io_service and a new CAsioServer, which listens and counts from zero.
\* A port that is taken throws, and nothing catches it.
CreateServer ==
    /\ died = "no"
    /\ thread = "spawned"
    /\ stopping' = FALSE
    /\ \/ /\ server' = TRUE /\ thread' = "ready" /\ cnt' = 0
          /\ UNCHANGED <<died, faults>>
       \/ /\ Fault /\ Ends("bind")
          /\ UNCHANGED <<server, thread, cnt>>
    /\ UNCHANGED <<owner, started, monitor, data, network, session, request,
                   reply, history, starts>>

Run_Restarts ==
    /\ died = "no"
    /\ thread = "ready"
    /\ thread' = "running"
    /\ stopping' = FALSE
    /\ UNCHANGED <<owner, started, server, monitor, data, died, network, sessions,
                   history, bounds>>

Run ==
    /\ died = "no"
    /\ thread = "ready"
    /\ thread' = "running"
    /\ UNCHANGED <<owner, started, server, stopping, monitor, data, died, network,
                   sessions, history, bounds>>

\* The handlers that wait are dropped; their sessions are not deleted, and the
\* sockets stay open.  The acceptor goes, and with it what it had not accepted.
RunReturns ==
    /\ died = "no"
    /\ thread = "running"
    /\ stopping
    /\ thread' = "ended"
    /\ server' = FALSE
    /\ session' = [c \in Clients |->
                     IF c \in Live THEN "abandoned" ELSE session[c]]
    /\ link' = [c \in Clients |-> IF link[c] # "none" /\ session[c] = "none"
                                    THEN "closed" ELSE link[c]]
    /\ wire' = [c \in Clients |-> <<>>]
    /\ request' = [c \in Clients |-> <<>>]
    /\ reply' = [c \in Clients |-> NoReply]
    /\ UNCHANGED <<owner, started, stopping, monitor, data, died, cnt, history,
                   bounds>>

Handling == died = "no" /\ thread = "running" /\ ~stopping

-----------------------------------------------------------------------------
(* Sessions.                                                               *)

HandleAccept(c) ==
    /\ Handling
    /\ session[c] = "none"
    /\ link[c] \notin {"none", "closed"}
    /\ cnt' = cnt + 1
    /\ session' = [session EXCEPT ![c] = "reading"]
    /\ UNCHANGED <<lifecycle, died, network, request, reply, history, bounds>>

Whole(pieces) ==
    /\ Len(pieces) % 2 = 0
    /\ \A i \in DOMAIN pieces : pieces[i].part = IF i % 2 = 1 THEN "head" ELSE "tail"

\* ParseFromString merges messages that follow each other: the last one counts.
\* Its result is not looked at, so that bytes that are no message count as well.
Understood(pieces) ==
    IF Whole(pieces)
      THEN {pieces[Len(pieces)].no}
      ELSE {0} \cup {pieces[i].no : i \in {j \in DOMAIN pieces :
                  \E k \in DOMAIN pieces : pieces[k].no = pieces[j].no
                                          /\ pieces[k].part # pieces[j].part}}

\* The content of the answer is cut at its first NUL byte: the length of a
\* document that is empty, which any of those asked for may be.
Answers(c, no) ==
    {[no |-> no, with |-> how] : how \in IF no = 0 \/ Asks[c] \notin data
                                           THEN {"nothing"} ELSE {"configs", "cut"}}

\* defaultRequestCallback: the object it casts to is gone when the destructor
\* of the base class runs.  A document that is no scalar has no string: the
\* conversion throws, and nothing catches it.
RequestCallback(c, pieces) ==
    IF owner = "dying"
      THEN Ends("callback") /\ UNCHANGED reply
      ELSE \E no \in Understood(pieces) :
              \/ /\ \E answer \in Answers(c, no) : reply' = [reply EXCEPT ![c] = answer]
                 /\ UNCHANGED died
              \/ /\ no # 0 /\ Asks[c] \in data
                 /\ Ends("thrown") /\ UNCHANGED reply

HandleRead_Forgets(c, k) ==
    /\ Handling
    /\ session[c] = "reading"
    /\ link[c] \in {"open", "eof"}
    /\ k \in 1..Len(wire[c])
    /\ wire' = [wire EXCEPT ![c] = SubSeq(@, k + 1, Len(@))]
    /\ LET pieces == SubSeq(wire[c], 1, k) IN
       \/ /\ k < Len(wire[c])
          /\ request' = [request EXCEPT ![c] = pieces]
          /\ UNCHANGED <<died, session, reply, split>>
       \/ /\ RequestCallback(c, pieces)
          /\ request' = [request EXCEPT ![c] = <<>>]
          /\ session' = [session EXCEPT ![c] = "writing"]
          /\ split' = IF wire[c][k].part = "tail" THEN split ELSE split \cup {c}
    /\ UNCHANGED <<lifecycle, link, cnt, sent, answers, crowded, bounds>>

\* k pieces are read.  The socket may hold some more or look empty, because the
\* rest has yet to arrive.
HandleRead(c, k) ==
    /\ Handling
    /\ session[c] = "reading"
    /\ link[c] \in {"open", "eof"}
    /\ k \in 1..Len(wire[c])
    /\ wire' = [wire EXCEPT ![c] = SubSeq(@, k + 1, Len(@))]
    /\ LET pieces == request[c] \o SubSeq(wire[c], 1, k) IN
       \/ /\ k < Len(wire[c])
          /\ request' = [request EXCEPT ![c] = pieces]
          /\ UNCHANGED <<died, session, reply, split>>
       \/ /\ RequestCallback(c, pieces)
          /\ request' = [request EXCEPT ![c] = <<>>]
          /\ session' = [session EXCEPT ![c] = "writing"]
          /\ split' = IF wire[c][k].part = "tail" THEN split ELSE split \cup {c}
    /\ UNCHANGED <<lifecycle, link, cnt, sent, answers, crowded, bounds>>

Deleted_Twice(c, counted) ==
    /\ session' = [session EXCEPT ![c] = "deleted"]
    /\ request' = [request EXCEPT ![c] = <<>>]
    /\ reply' = [reply EXCEPT ![c] = NoReply]
    /\ cnt' = IF counted THEN cnt - 2 ELSE cnt - 1

\* The session deletes itself; the count goes down for two of the errors.
Deleted(c, counted) ==
    /\ session' = [session EXCEPT ![c] = "deleted"]
    /\ request' = [request EXCEPT ![c] = <<>>]
    /\ reply' = [reply EXCEPT ![c] = NoReply]
    /\ cnt' = IF counted THEN cnt - 1 ELSE cnt

HandleReadError(c) ==
    /\ Handling
    /\ session[c] = "reading"
    /\ link[c] \in {"eof", "reset", "error"}
    /\ wire[c] = <<>>
    /\ Deleted(c, link[c] # "error")
    /\ UNCHANGED <<lifecycle, died, network, history, bounds>>

HandleWrite_Once(c) ==
    /\ Handling
    /\ session[c] = "writing"
    /\ link[c] \in {"open", "eof"}
    /\ session' = [session EXCEPT ![c] = "deleted"]
    /\ answers' = [answers EXCEPT ![c] = Append(@, reply[c])]
    /\ reply' = [reply EXCEPT ![c] = NoReply]
    /\ UNCHANGED <<lifecycle, died, network, request, cnt, sent, split,
                   crowded, bounds>>

HandleWrite(c) ==
    /\ Handling
    /\ session[c] = "writing"
    /\ link[c] \in {"open", "eof"}
    /\ session' = [session EXCEPT ![c] = "reading"]
    /\ answers' = [answers EXCEPT ![c] = Append(@, reply[c])]
    /\ reply' = [reply EXCEPT ![c] = NoReply]
    /\ UNCHANGED <<lifecycle, died, network, request, cnt, sent, split,
                   crowded, bounds>>

\* A peer that is gone shows as connection_reset or as broken_pipe.
HandleWriteError(c) ==
    /\ Handling
    /\ session[c] = "writing"
    /\ link[c] \in {"reset", "error"}
    /\ \E counted \in BOOLEAN : Deleted(c, counted /\ link[c] = "reset")
    /\ UNCHANGED <<lifecycle, died, network, history, bounds>>

-----------------------------------------------------------------------------
(* Clients and their connections (external).                               *)

Connect(c) ==
    /\ died = "no"
    /\ server
    /\ link[c] = "none"
    /\ link' = [link EXCEPT ![c] = "open"]
    /\ UNCHANGED <<lifecycle, died, wire, sessions, history, bounds>>

\* What is sent to a session that is abandoned is left out: nobody reads it.
Send(c) ==
    /\ died = "no"
    /\ link[c] = "open"
    /\ session[c] # "abandoned"
    /\ sent[c] < MaxRequests[c]
    /\ sent' = [sent EXCEPT ![c] = @ + 1]
    /\ wire' = [wire EXCEPT ![c] = @ \o <<[no |-> sent[c] + 1, part |-> "head"],
                                          [no |-> sent[c] + 1, part |-> "tail"]>>]
    /\ crowded' = IF sent[c] > Len(answers[c]) THEN crowded \cup {c} ELSE crowded
    /\ UNCHANGED <<lifecycle, died, link, sessions, answers, split, bounds>>

\* The peer closes or resets the connection, or the network loses it.
Leave(c, how) ==
    /\ died = "no"
    /\ link[c] = "open"
    /\ IF how = "error" THEN Fault ELSE UNCHANGED faults
    /\ link' = [link EXCEPT ![c] = how]
    /\ wire' = IF how = "eof" THEN wire ELSE [wire EXCEPT ![c] = <<>>]
    /\ UNCHANGED <<lifecycle, died, sessions, history, starts>>

-----------------------------------------------------------------------------
Owner ==
    \/ \E appids \in SUBSET Appids : InitServer(appids)
    \/ StartMonitorService
    \/ CallStop
    \/ Join
    \/ DestroyProxy
    \/ DestroyServer

Handler(c) ==
    \/ HandleAccept(c)
    \/ \E k \in 1..(2 * MaxRequests[c]) : HandleRead(c, k)
    \/ HandleReadError(c)
    \/ HandleWrite(c)
    \/ HandleWriteError(c)

Peer(c) ==
    \/ Connect(c)
    \/ Send(c)
    \/ \E how \in {"eof", "reset", "error"} : Leave(c, how)

Next ==
    \/ Owner
    \/ CreateServer
    \/ Run
    \/ RunReturns
    \/ \E c \in Clients : Handler(c) \/ Peer(c)

Spec == Init /\ [][Next]_vars

\* The server thread goes on, the io_service serves every session that can go
\* on, and an owner inside Stop or the destructor goes on.
Fairness ==
    /\ WF_vars(CreateServer) /\ WF_vars(Run) /\ WF_vars(RunReturns)
    /\ WF_vars(Join) /\ WF_vars(DestroyServer)
    /\ \A c \in Clients : WF_vars(Handler(c))

FairSpec == Spec /\ Fairness

-----------------------------------------------------------------------------
(* Properties.                                                             *)

Piece == [no : Nat \ {0}, part : {"head", "tail"}]
Reply == [no : Nat, with : {"nothing", "configs", "cut"}]

\* The type of the state.
TypeOK ==
    /\ owner \in {"idle", "stopping", "dying", "ending", "gone"}
    /\ thread \in {"none", "spawned", "ready", "running", "ended"}
    /\ started \in BOOLEAN /\ server \in BOOLEAN
    /\ stopping \in BOOLEAN /\ monitor \in BOOLEAN
    /\ died \in {"no", "assigned", "monitor", "unjoined", "bind", "callback", "thrown"}
    /\ data \subseteq Appids
    /\ link \in [Clients -> {"none", "open", "eof", "reset", "error", "closed"}]
    /\ session \in [Clients -> {"none", "reading", "writing", "deleted", "abandoned"}]
    /\ wire \in [Clients -> Seq(Piece)]
    /\ request \in [Clients -> Seq(Piece)]
    /\ reply \in [Clients -> Reply]
    /\ answers \in [Clients -> Seq(Reply)]
    /\ sent \in [Clients -> Nat]
    /\ split \subseteq Clients /\ crowded \subseteq Clients
    /\ cnt \in Nat /\ starts \in Nat /\ faults \in Nat

\* m_started tells whether the thread has to be joined, and no server is left
\* once it has been: a server that was stopped can be started again, and its
\* start never assigns to a thread that is joinable (easy_tcpserver.cpp, Start
\* and Stop).
ThreadOwned ==
    /\ started <=> thread # "none"
    /\ ~started => ~server
    /\ died = "assigned" => monitor

\* An owner whose Stop took effect can destroy the object while clients are
\* connected: only a destructor that finds the server started ends the process,
\* in a handler that casts an object half destroyed or with a thread that was
\* never joined (~CTcpServer, defaultRequestCallback).
StoppedIsSafe == died \in {"callback", "unjoined"} => started

\* IsConnected never denies a connection: connect_cnt_ is not less than the number
\* of sessions that live, through errors, stops and new servers.  It may be more:
\* a session lost to an error other than eof and connection_reset stays counted,
\* and IsConnected says yes from then on (handle_accept, handle_read,
\* handle_write, on_event, is_connected).
ConnectionsCounted == server => cnt >= Cardinality(Live)

\* Nothing frames a request.  While no request of a connection is handed over in
\* parts, what is answered is answered in the order it was sent, each request at
\* most once, and a client that waits for each answer is answered one to one
\* (handle_read, handle_write, defaultRequestCallback).
AnswersInOrder ==
    \A c \in Clients \ split : \A i \in DOMAIN answers[c] :
        LET no == answers[c][i].no IN
        /\ no \in i..sent[c]
        /\ i > 1 => answers[c][i-1].no < no
        /\ c \notin crowded => no = i
        /\ starts = 1 /\ owner \in {"idle", "stopping"} => answers[c][i] \in Answers(c, no)

Answered(c, no) == \E i \in DOMAIN answers[c] : answers[c][i].no = no

\* The last request a client has sent is answered, unless bytes of a request came
\* apart, the connection ended, the owner stopped or destroyed the server (its
\* sessions are abandoned then, connected), or the process ended (handle_accept
\* through handle_write).
LastRequestAnswered ==
    \A c \in Clients : \A no \in 1..MaxRequests[c] :
        (link[c] = "open" /\ sent[c] = no)
            ~> (\/ Answered(c, no) \/ sent[c] > no \/ c \in split
                \/ link[c] # "open" \/ session[c] = "abandoned"
                \/ owner # "idle" \/ died # "no")

\* A Stop that found the server returns, whatever the sessions are doing
\* (easy_tcpserver.cpp, Stop and ServerThread).
StopReturns ==
    owner \in {"stopping", "ending"} ~> (owner \in {"idle", "gone"} \/ died # "no")

-----------------------------------------------------------------------------
(* What the server promises its clients (module TcpDialogue).              *)

\* The requests that were answered, while the promise stands.
AnsweredWhole ==
    [c \in Clients |-> IF c \in split THEN <<>>
                      ELSE [i \in DOMAIN answers[c] |-> answers[c][i].no]]

Dialogue == INSTANCE TcpDialogue
    WITH asked <- sent, answered <- AnsweredWhole, framed <- Clients \ split

\* Through starts, stops and destruction, and with as many sessions as there are,
\* the server answers as TcpDialogue says (handle_read, handle_write,
\* defaultRequestCallback): this is what TcpClient takes for granted of its server.
DialogueSpec == Dialogue!Spec

=============================================================================

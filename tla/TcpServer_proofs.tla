---------------------------- MODULE TcpServer_proofs ----------------------------
(***************************************************************************)
(* Proofs about the proxy's server, for all sets of connections and        *)
(* bounds.  The inductive invariant adds to the invariants that TcpServer  *)
(* checks that the server object lives exactly while its thread runs it,   *)
(* that no session outlives it, that the pieces a session has not handed   *)
(* over are those of the requests after the last it has, up to the last    *)
(* sent, and that what it answers is made of the data it has.              *)
(***************************************************************************)
EXTENDS TcpServer, FiniteSetTheorems, SequenceTheorems, TLAPS

ServesWhileUp == server <=> thread \in {"ready", "running"}

NoOrphans == ~server => Live = {}

\* The state of the owner and of the thread.
OwnerTypeOK ==
    /\ owner \in {"idle", "stopping", "dying", "ending", "gone"}
    /\ thread \in {"none", "spawned", "ready", "running", "ended"}
    /\ started \in BOOLEAN /\ server \in BOOLEAN
    /\ stopping \in BOOLEAN /\ monitor \in BOOLEAN
    /\ died \in {"no", "assigned", "monitor", "unjoined", "bind", "callback", "thrown"}

\* The state of the sessions, and what was sent on their connections.
SessionTypeOK ==
    /\ link \in [Clients -> {"none", "open", "eof", "reset", "error", "closed"}]
    /\ session \in [Clients -> {"none", "reading", "writing", "deleted", "abandoned"}]
    /\ wire \in [Clients -> Seq(Piece)]
    /\ request \in [Clients -> Seq(Piece)]
    /\ sent \in [Clients -> Nat]
    /\ split \subseteq Clients /\ crowded \subseteq Clients

ReplyTypeOK ==
    /\ reply \in [Clients -> Reply]
    /\ answers \in [Clients -> Seq(Reply)]

DataTypeOK == data \subseteq Appids

CountTypeOK == cnt \in Nat

BoundTypeOK == starts \in Nat /\ faults \in Nat

LEMMA TypeParts ==
    TypeOK <=> /\ OwnerTypeOK /\ DataTypeOK /\ SessionTypeOK
               /\ ReplyTypeOK /\ CountTypeOK /\ BoundTypeOK
BY Zenon DEF TypeOK, OwnerTypeOK, DataTypeOK, SessionTypeOK, ReplyTypeOK, CountTypeOK,
             BoundTypeOK

Lifecycle == OwnerTypeOK /\ ThreadOwned /\ StoppedIsSafe /\ ServesWhileUp

\* The ways of a step.
LEMMA NextCases ==
    ASSUME Next
    PROVE  \/ \E appids \in SUBSET Appids : InitServer(appids)
           \/ StartMonitorService \/ CallStop \/ Join \/ DestroyProxy \/ DestroyServer
           \/ CreateServer \/ Run \/ RunReturns
           \/ \E c \in Clients :
                 \/ HandleAccept(c)
                 \/ \E k \in 1..(2 * MaxRequests[c]) : HandleRead(c, k)
                 \/ HandleReadError(c)
                 \/ HandleWrite(c)
                 \/ HandleWriteError(c)
                 \/ Connect(c)
                 \/ Send(c)
                 \/ \E how \in {"eof", "reset", "error"} : Leave(c, how)
BY Zenon DEF Next, Owner, Handler, Peer

-----------------------------------------------------------------------------
(* The owner and its thread.                                               *)

LEMMA InitLifecycle == Init => Lifecycle
BY DEF Init, Lifecycle, OwnerTypeOK, ThreadOwned, StoppedIsSafe, ServesWhileUp

\* What each step of a handler or of a client leaves alone.
LEMMA HandlerFrame ==
    ASSUME NEW c \in Clients,
           \/ HandleAccept(c) \/ HandleReadError(c) \/ HandleWrite(c)
           \/ HandleWriteError(c) \/ Connect(c) \/ Send(c)
    PROVE  UNCHANGED <<lifecycle, died, bounds>>
BY DEF HandleAccept, HandleReadError, HandleWrite, HandleWriteError, Connect, Send

LEMMA LifecycleStep == Lifecycle /\ [Next]_vars => Lifecycle'
<1> SUFFICES ASSUME Lifecycle, [Next]_vars PROVE Lifecycle'
  OBVIOUS
<1> USE DEF Lifecycle, OwnerTypeOK, ThreadOwned, StoppedIsSafe, ServesWhileUp, lifecycle
<1>1. ASSUME NEW appids \in SUBSET Appids, InitServer(appids) PROVE Lifecycle'
  BY <1>1 DEF InitServer, OwnerFree, Start, Ends
<1>2. CASE StartMonitorService
  BY <1>2 DEF StartMonitorService, OwnerFree, Ends
<1>3. CASE CallStop
  BY <1>3 DEF CallStop, Stop, OwnerFree
<1>4. CASE Join
  BY <1>4 DEF Join
<1>5. CASE DestroyProxy
  BY <1>5 DEF DestroyProxy, OwnerFree, Ends
<1>6. CASE DestroyServer
  <2>1. CASE Stop("ending")
    BY <1>6, <2>1 DEF Stop
  <2>2. CASE ~(started /\ server)
    <3>1. /\ owner' = "gone"
          /\ UNCHANGED <<started, thread, server, stopping, monitor>>
          /\ died' = IF thread # "none" THEN "unjoined" ELSE died
      BY <1>6, <2>2 DEF DestroyServer, Ends, Stop
    <3>2. OwnerTypeOK' /\ ThreadOwned'
      BY <3>1
    <3>3. StoppedIsSafe' /\ ServesWhileUp'
      BY <3>1
    <3> QED BY <3>2, <3>3
  <2> QED BY <1>6, <2>1, <2>2, Zenon DEF DestroyServer
<1>7. CASE CreateServer
  <2>1. /\ died = "no" /\ thread = "spawned"
        /\ UNCHANGED <<owner, started, monitor>>
        /\ stopping' = FALSE
        /\ \/ server' = TRUE /\ thread' = "ready" /\ UNCHANGED died
           \/ died' = "bind" /\ UNCHANGED <<server, thread>>
    BY <1>7, Zenon DEF CreateServer, Ends
  <2>2. OwnerTypeOK'
    BY <2>1
  <2>3. ThreadOwned'
    BY <2>1
  <2>4. StoppedIsSafe'
    BY <2>1
  <2>5. ServesWhileUp'
    BY <2>1
  <2> QED BY <2>2, <2>3, <2>4, <2>5
<1>8. CASE Run
  <2>1. /\ thread = "ready" /\ thread' = "running"
        /\ UNCHANGED <<owner, started, server, stopping, monitor, died>>
    BY <1>8, Zenon DEF Run
  <2>2. OwnerTypeOK'
    BY <2>1
  <2>3. ThreadOwned'
    BY <2>1
  <2>4. StoppedIsSafe' /\ ServesWhileUp'
    BY <2>1
  <2> QED BY <2>2, <2>3, <2>4
<1>9. CASE RunReturns
  BY <1>9 DEF RunReturns
<1>10. ASSUME NEW c \in Clients, NEW k, HandleRead(c, k) PROVE Lifecycle'
  BY <1>10 DEF HandleRead, Handling, RequestCallback, Ends
<1>11. ASSUME NEW c \in Clients, NEW how, Leave(c, how) PROVE Lifecycle'
  BY <1>11 DEF Leave
<1>12. ASSUME UNCHANGED <<lifecycle, died, bounds>> PROVE Lifecycle'
  BY <1>12
<1>13. CASE UNCHANGED vars
  BY <1>12, <1>13 DEF vars
<1> QED BY <1>1, <1>2, <1>3, <1>4, <1>5, <1>6, <1>7, <1>8, <1>9, <1>10, <1>11, <1>12,
           <1>13, NextCases, HandlerFrame, Zenon

LEMMA LifecycleAlways == Spec => []Lifecycle
BY InitLifecycle, LifecycleStep, PTL DEF Spec

\* m_started tells whether there is a thread to join, and a start never meets
\* a thread that was not joined: a stopped server can be started again.
THEOREM ThreadsAreOwned == Spec => []ThreadOwned
<1>1. Lifecycle => ThreadOwned
  BY DEF Lifecycle
<1> QED BY <1>1, LifecycleAlways, PTL

\* Destroying an object whose server was stopped never ends the process.
THEOREM DestroyedSafely == Spec => []StoppedIsSafe
<1>1. Lifecycle => StoppedIsSafe
  BY DEF Lifecycle
<1> QED BY <1>1, LifecycleAlways, PTL

-----------------------------------------------------------------------------
(* Connections.                                                            *)

SessionStates == {"none", "reading", "writing", "deleted", "abandoned"}

LEMMA LiveIsFinite == IsFiniteSet(Live) /\ Cardinality(Live) \in Nat
<1>1. Live \subseteq Clients
  BY DEF Live
<1> QED BY <1>1, ClientsAssumption, FS_Subset, FS_CardinalityType

\* What becomes of the sessions when one of them changes.
LEMMA SessionChanges ==
    ASSUME SessionTypeOK, NEW c \in Clients, NEW state \in SessionStates,
           session' = [session EXCEPT ![c] = state]
    PROVE  /\ session' \in [Clients -> SessionStates]
           /\ state \in {"reading", "writing"} => Live' = Live \cup {c}
           /\ state \notin {"reading", "writing"} => Live' = Live \ {c}
           /\ c \in Live <=> session[c] \in {"reading", "writing"}
BY DEF SessionTypeOK, SessionStates, Live

LEMMA OneMore ==
    ASSUME NEW c, c \notin Live, Live' = Live \cup {c}
    PROVE  Cardinality(Live') = Cardinality(Live) + 1
BY LiveIsFinite, FS_AddElement

LEMMA OneLess ==
    ASSUME NEW c \in Live, Live' = Live \ {c}
    PROVE  Cardinality(Live') = Cardinality(Live) - 1 /\ Cardinality(Live) > 0
<1>1. Cardinality(Live') = Cardinality(Live) - 1
  BY LiveIsFinite, FS_RemoveElement
<1>2. Cardinality(Live) # 0
  BY LiveIsFinite, FS_EmptySet
<1> QED BY <1>1, <1>2, LiveIsFinite

\* The sessions and connections keep their types.
LEMMA SessionTypeInit == Init => SessionTypeOK
BY DEF Init, SessionTypeOK

Pieces(c) == <<[no |-> sent[c] + 1, part |-> "head"], [no |-> sent[c] + 1, part |-> "tail"]>>

LEMMA SessionTypeStep == SessionTypeOK /\ [Next]_vars => SessionTypeOK'
<1> SUFFICES ASSUME SessionTypeOK, [Next]_vars PROVE SessionTypeOK'
  OBVIOUS
<1> USE DEF SessionTypeOK
<1>1. ASSUME UNCHANGED <<network, session, request, sent, split, crowded>>
      PROVE  SessionTypeOK'
  BY <1>1 DEF network
<1>2. CASE \/ \E appids \in SUBSET Appids : InitServer(appids)
           \/ StartMonitorService \/ CallStop \/ Join \/ DestroyProxy \/ DestroyServer
           \/ CreateServer \/ Run \/ UNCHANGED vars
  BY <1>1, <1>2, Zenon DEF InitServer, StartMonitorService, CallStop, Stop, Join,
     DestroyProxy, DestroyServer, CreateServer, Run, network, sessions, history, vars
<1>3. CASE RunReturns
  BY <1>3 DEF RunReturns, history
<1>4. ASSUME NEW c \in Clients, HandleAccept(c) PROVE SessionTypeOK'
  BY <1>4 DEF HandleAccept, network, history
<1>5. ASSUME NEW c \in Clients, NEW k \in Nat, HandleRead(c, k) PROVE SessionTypeOK'
  <2>1. wire' = [wire EXCEPT ![c] = SubSeq(@, k + 1, Len(@))]
        /\ k \in 1..Len(wire[c])
    BY <1>5 DEF HandleRead
  <2>2. wire' \in [Clients -> Seq(Piece)]
    <3>1. SubSeq(wire[c], k + 1, Len(wire[c])) \in Seq(Piece)
      BY <2>1
    <3> QED BY <2>1, <3>1
  <2>3. request' \in [Clients -> Seq(Piece)]
    <3>1. SubSeq(wire[c], 1, k) \in Seq(Piece)
      BY <2>1
    <3>2. request[c] \o SubSeq(wire[c], 1, k) \in Seq(Piece) /\ <<>> \in Seq(Piece)
      BY <3>1
    <3>3. \/ request' = [request EXCEPT ![c] = request[c] \o SubSeq(wire[c], 1, k)]
          \/ request' = [request EXCEPT ![c] = <<>>]
      BY <1>5, Zenon DEF HandleRead
    <3> QED BY <3>2, <3>3
  <2>4. session' \in [Clients -> SessionStates] /\ split' \subseteq Clients
    BY <1>5 DEF HandleRead, SessionStates
  <2>5. UNCHANGED <<link, sent, crowded>>
    BY <1>5 DEF HandleRead
  <2> QED BY <2>2, <2>3, <2>4, <2>5 DEF SessionStates
<1>6. ASSUME NEW c \in Clients, HandleReadError(c) \/ HandleWriteError(c)
      PROVE  SessionTypeOK'
  <2>1. /\ session' = [session EXCEPT ![c] = "deleted"]
        /\ request' = [request EXCEPT ![c] = <<>>]
        /\ UNCHANGED <<network, history>>
    BY <1>6, Zenon DEF HandleReadError, HandleWriteError, Deleted
  <2> QED BY <2>1 DEF network, history
<1>7. ASSUME NEW c \in Clients, HandleWrite(c) PROVE SessionTypeOK'
  BY <1>7 DEF HandleWrite, network
<1>8. ASSUME NEW c \in Clients, Connect(c) PROVE SessionTypeOK'
  BY <1>8 DEF Connect, sessions, history
<1>9. ASSUME NEW c \in Clients, Send(c) PROVE SessionTypeOK'
  <2>1. Pieces(c) \in Seq(Piece)
    BY DEF Pieces, Piece
  <2>2. /\ wire' = [wire EXCEPT ![c] = wire[c] \o Pieces(c)]
        /\ sent' = [sent EXCEPT ![c] = sent[c] + 1]
        /\ crowded' \in {crowded, crowded \cup {c}}
        /\ UNCHANGED <<link, session, request, split>>
    BY <1>9 DEF Send, sessions, Pieces
  <2> QED BY <2>1, <2>2
<1>10. ASSUME NEW c \in Clients, NEW how \in {"eof", "reset", "error"}, Leave(c, how)
       PROVE  SessionTypeOK'
  BY <1>10 DEF Leave, sessions, history
<1>11. ASSUME NEW c \in Clients, NEW k \in 1..(2 * MaxRequests[c]) PROVE k \in Nat
  BY BoundsAssumption
<1> QED BY <1>1, <1>2, <1>3, <1>4, <1>5, <1>6, <1>7, <1>8, <1>9, <1>10, <1>11,
           NextCases, Zenon

\* Without a server there is no session, and with one they are counted.
Counting == CountTypeOK /\ NoOrphans /\ ConnectionsCounted

Balance == CountTypeOK /\ cnt >= Cardinality(Live)

LEMMA Balanced ==
    ASSUME server, server', Balance'
    PROVE  Counting'
BY DEF Counting, NoOrphans, ConnectionsCounted, Balance

LEMMA Unbalanced ==
    ASSUME ~server', Live' = {}, CountTypeOK'
    PROVE  Counting'
BY DEF Counting, NoOrphans, ConnectionsCounted

LEMMA CountingInit == Init => Counting
<1> SUFFICES ASSUME Init PROVE Counting
  OBVIOUS
<1>1. ~server /\ Live = {}
  BY DEF Init, Live
<1>2. CountTypeOK
  BY DEF Init, CountTypeOK
<1> QED BY <1>1, <1>2 DEF Counting, NoOrphans, ConnectionsCounted

\* A session that ends is counted down at most once, and it was counted.
LEMMA DeletedCounts ==
    ASSUME SessionTypeOK, Balance, NEW c \in Live, NEW counted, Deleted(c, counted)
    PROVE  Balance'
<1>1. c \in Clients
  BY DEF Live
<1>2. Live' = Live \ {c}
  BY <1>1, SessionChanges DEF Deleted, SessionStates
<1>3. Cardinality(Live') = Cardinality(Live) - 1 /\ Cardinality(Live) > 0
  BY <1>2, OneLess
<1>4. cnt' = cnt - 1 \/ cnt' = cnt
  BY DEF Deleted
<1> QED BY <1>3, <1>4, LiveIsFinite DEF Balance, CountTypeOK

LEMMA CountingStep ==
    Lifecycle /\ SessionTypeOK /\ Counting /\ [Next]_vars => Counting'
<1> SUFFICES ASSUME Lifecycle, SessionTypeOK, Counting, [Next]_vars PROVE Counting'
  OBVIOUS
<1>1. ASSUME UNCHANGED <<server, session, cnt>> PROVE Counting'
  <2>1. Live' = Live
    BY <1>1 DEF Live
  <2> QED BY <1>1, <2>1 DEF Counting, CountTypeOK, NoOrphans, ConnectionsCounted
<1>2. CASE \/ \E appids \in SUBSET Appids : InitServer(appids)
           \/ StartMonitorService \/ CallStop \/ Join \/ DestroyProxy \/ DestroyServer
           \/ Run \/ UNCHANGED vars
  BY <1>1, <1>2, Zenon DEF InitServer, Start, StartMonitorService, CallStop, Stop, Join,
     DestroyProxy, DestroyServer, Run, sessions, lifecycle, vars
<1>3. CASE CreateServer
  <2>1. ~server /\ session' = session
    <3>1. thread = "spawned" /\ session' = session
      BY <1>3 DEF CreateServer
    <3> QED BY <3>1 DEF Lifecycle, ServesWhileUp
  <2>2. Live' = Live /\ Live = {}
    BY <2>1 DEF Live, Counting, NoOrphans
  <2>3. CASE server' = TRUE /\ cnt' = 0
    <3>1. Cardinality(Live') = 0
      BY <2>2, FS_EmptySet
    <3> QED BY <2>2, <2>3, <3>1
            DEF Counting, CountTypeOK, NoOrphans, ConnectionsCounted
  <2>4. CASE UNCHANGED <<server, cnt>>
    BY <1>1, <2>1, <2>4
  <2> QED BY <1>3, <2>3, <2>4, Zenon DEF CreateServer
<1>4. CASE RunReturns
  <2>1. ~server' /\ UNCHANGED cnt
    BY <1>4 DEF RunReturns
  <2>2. Live' = {}
    BY <1>4 DEF RunReturns, Live, SessionTypeOK
  <2>3. CountTypeOK'
    BY <2>1 DEF Counting, CountTypeOK
  <2> QED BY <2>1, <2>2, <2>3, Unbalanced
<1>5. ASSUME Handling PROVE server /\ Balance
  <2>1. server
    BY <1>5 DEF Handling, Lifecycle, ServesWhileUp
  <2> QED BY <2>1 DEF Counting, ConnectionsCounted, Balance
<1>6. ASSUME NEW c \in Clients, HandleAccept(c) PROVE Counting'
  <2>1. server /\ Balance /\ server' = server
    BY <1>5, <1>6, Zenon DEF HandleAccept, lifecycle
  <2>2. c \notin Live /\ Live' = Live \cup {c}
    <3>1. session[c] = "none" /\ session' = [session EXCEPT ![c] = "reading"]
      BY <1>6 DEF HandleAccept
    <3> QED BY <3>1, SessionChanges DEF SessionStates
  <2>3. cnt' = cnt + 1
    BY <1>6 DEF HandleAccept
  <2>4. Balance'
    BY <2>1, <2>2, <2>3, OneMore, LiveIsFinite, SMTT(30) DEF Balance, CountTypeOK
  <2> QED BY <2>1, <2>4, Balanced
<1>7. ASSUME NEW c \in Clients, NEW k, HandleRead(c, k) \/ HandleWrite(c) PROVE Counting'
  <2>1. server /\ Balance /\ server' = server
    BY <1>5, <1>7, Zenon DEF HandleRead, HandleWrite, lifecycle
  <2>2. Live' = Live
    <3>1. session[c] \in {"reading", "writing"}
          /\ \/ session' = session
             \/ session' = [session EXCEPT ![c] = "writing"]
             \/ session' = [session EXCEPT ![c] = "reading"]
      BY <1>7 DEF HandleRead, HandleWrite
    <3>2. c \in Live
      BY <3>1 DEF Live
    <3>3. CASE session' = session
      BY <3>3 DEF Live
    <3>4. CASE session' # session
      <4>1. Live' = Live \cup {c}
        BY <3>1, <3>4, SessionChanges DEF SessionStates
      <4> QED BY <3>2, <4>1
    <3> QED BY <3>3, <3>4
  <2>3. UNCHANGED cnt
    BY <1>7 DEF HandleRead, HandleWrite
  <2> QED BY <2>1, <2>2, <2>3, Balanced DEF Balance, CountTypeOK
<1>8. ASSUME NEW c \in Clients, HandleReadError(c) \/ HandleWriteError(c) PROVE Counting'
  <2>1. server /\ Balance /\ server' = server
    BY <1>5, <1>8, Zenon DEF HandleReadError, HandleWriteError, lifecycle
  <2>2. c \in Live
    BY <1>8 DEF HandleReadError, HandleWriteError, Live
  <2>3. PICK counted : Deleted(c, counted)
    BY <1>8, Zenon DEF HandleReadError, HandleWriteError
  <2>4. Balance'
    BY <2>1, <2>2, <2>3, DeletedCounts
  <2> QED BY <2>1, <2>4, Balanced
<1>9. ASSUME NEW c \in Clients,
             Connect(c) \/ Send(c) \/ \E how \in {"eof", "reset", "error"} : Leave(c, how)
      PROVE  Counting'
  BY <1>1, <1>9, Zenon DEF Connect, Send, Leave, sessions, lifecycle
<1> QED BY <1>1, <1>2, <1>3, <1>4, <1>6, <1>7, <1>8, <1>9, NextCases, Zenon

-----------------------------------------------------------------------------
(* Requests and replies.                                                   *)

LEMMA Joined ==
    ASSUME NEW S, NEW a \in Seq(S), NEW b \in Seq(S), Len(b) > 0
    PROVE  a \o b \in Seq(S) /\ a \o b # <<>>
<1>1. a \o b \in Seq(S) /\ Len(a \o b) = Len(a) + Len(b)
  OBVIOUS
<1>2. Len(a \o b) # 0
  BY <1>1
<1> QED BY <1>1, <1>2

\* A session understands the number of a request, or none.
LEMMA UnderstoodType ==
    ASSUME NEW pieces \in Seq(Piece), pieces # <<>>
    PROVE  Understood(pieces) \subseteq Nat
<1>1. ASSUME NEW i \in DOMAIN pieces PROVE pieces[i].no \in Nat
  <2>1. pieces[i] \in Piece
    OBVIOUS
  <2> QED BY <2>1 DEF Piece
<1>2. Len(pieces) \in DOMAIN pieces
  OBVIOUS
<1> QED BY <1>1, <1>2 DEF Understood

LEMMA AnswersType ==
    ASSUME NEW c, NEW no \in Nat, NEW answer \in Answers(c, no)
    PROVE  answer \in Reply
BY DEF Answers, Reply

LEMMA ReplyTypeInit == Init => ReplyTypeOK
BY DEF Init, ReplyTypeOK, Reply, NoReply

LEMMA ReplyTypeStep == SessionTypeOK /\ ReplyTypeOK /\ [Next]_vars => ReplyTypeOK'
<1> SUFFICES ASSUME SessionTypeOK, ReplyTypeOK, [Next]_vars PROVE ReplyTypeOK'
  OBVIOUS
<1> USE DEF ReplyTypeOK
<1>0. NoReply \in Reply
  BY DEF NoReply, Reply
<1>1. ASSUME UNCHANGED <<reply, answers>> PROVE ReplyTypeOK'
  BY <1>1
<1>2. CASE \/ \E appids \in SUBSET Appids : InitServer(appids)
           \/ StartMonitorService \/ CallStop \/ Join \/ DestroyProxy \/ DestroyServer
           \/ CreateServer \/ Run \/ UNCHANGED vars
  BY <1>1, <1>2, Zenon DEF InitServer, StartMonitorService, CallStop, Stop, Join,
     DestroyProxy, DestroyServer, CreateServer, Run, sessions, history, vars
<1>3. CASE RunReturns
  <2>1. reply' = [c \in Clients |-> NoReply] /\ answers' = answers
    BY <1>3, Zenon DEF RunReturns, history
  <2> QED BY <1>0, <2>1
<1>4. ASSUME NEW c \in Clients,
             \/ HandleAccept(c) \/ Connect(c) \/ Send(c)
             \/ \E how \in {"eof", "reset", "error"} : Leave(c, how)
      PROVE  ReplyTypeOK'
  BY <1>1, <1>4, Zenon DEF HandleAccept, Connect, Send, Leave, sessions, history
<1>5. ASSUME NEW c \in Clients, NEW k \in Nat, HandleRead(c, k) PROVE ReplyTypeOK'
  <2>1. answers' = answers
    BY <1>5 DEF HandleRead
  <2>2. CASE reply' = reply
    BY <2>1, <2>2
  <2>3. CASE RequestCallback(c, request[c] \o SubSeq(wire[c], 1, k)) /\ reply' # reply
    <3> DEFINE pieces == request[c] \o SubSeq(wire[c], 1, k)
    <3>1. k \in 1..Len(wire[c])
      BY <1>5 DEF HandleRead
    <3>2. SubSeq(wire[c], 1, k) \in Seq(Piece) /\ Len(SubSeq(wire[c], 1, k)) > 0
      BY <3>1 DEF SessionTypeOK
    <3>3. pieces \in Seq(Piece) /\ pieces # <<>>
      <4>1. request[c] \in Seq(Piece)
        BY DEF SessionTypeOK
      <4> QED BY <3>2, <4>1, Joined
    <3>4. PICK no \in Understood(pieces) :
            \E answer \in Answers(c, no) : reply' = [reply EXCEPT ![c] = answer]
      BY <2>3, Zenon DEF RequestCallback
    <3>5. no \in Nat
      BY <3>3, <3>4, UnderstoodType
    <3>6. PICK answer \in Answers(c, no) : reply' = [reply EXCEPT ![c] = answer]
      BY <3>4
    <3>7. answer \in Reply
      BY <3>5, <3>6, AnswersType
    <3> QED BY <2>1, <3>6, <3>7
  <2> QED BY <1>5, <2>2, <2>3, Zenon DEF HandleRead
<1>6. ASSUME NEW c \in Clients, HandleReadError(c) \/ HandleWriteError(c)
      PROVE  ReplyTypeOK'
  <2>1. reply' = [reply EXCEPT ![c] = NoReply] /\ answers' = answers
    BY <1>6, Zenon DEF HandleReadError, HandleWriteError, Deleted, history
  <2> QED BY <1>0, <2>1
<1>7. ASSUME NEW c \in Clients, HandleWrite(c) PROVE ReplyTypeOK'
  <2>1. /\ answers' = [answers EXCEPT ![c] = Append(answers[c], reply[c])]
        /\ reply' = [reply EXCEPT ![c] = NoReply]
    BY <1>7 DEF HandleWrite
  <2>2. Append(answers[c], reply[c]) \in Seq(Reply)
    OBVIOUS
  <2> QED BY <1>0, <2>1, <2>2
<1>8. ASSUME NEW c \in Clients, NEW k \in 1..(2 * MaxRequests[c]) PROVE k \in Nat
  BY BoundsAssumption
<1> QED BY <1>1, <1>2, <1>3, <1>4, <1>5, <1>6, <1>7, <1>8, NextCases, Zenon

-----------------------------------------------------------------------------
\* The bounds, and the appids of the owner.
Rest == DataTypeOK /\ BoundTypeOK

LEMMA RestInit == Init => Rest
<1> SUFFICES ASSUME Init PROVE Rest
  OBVIOUS
<1>1. DataTypeOK
  BY DEF Init, DataTypeOK
<1>2. BoundTypeOK
  BY DEF Init, BoundTypeOK
<1> QED BY <1>1, <1>2 DEF Rest

LEMMA RestStep == Rest /\ [Next]_vars => Rest'
<1> SUFFICES ASSUME Rest, [Next]_vars PROVE Rest'
  OBVIOUS
<1>1. ASSUME UNCHANGED <<data, starts, faults>> PROVE Rest'
  BY <1>1 DEF Rest, DataTypeOK, BoundTypeOK
<1>2. ASSUME UNCHANGED <<data, starts>>, Fault PROVE Rest'
  <2>1. DataTypeOK'
    BY <1>2 DEF Rest, DataTypeOK
  <2>2. BoundTypeOK'
    BY <1>2 DEF Rest, BoundTypeOK, Fault
  <2> QED BY <2>1, <2>2 DEF Rest
<1>3. ASSUME NEW appids \in SUBSET Appids, InitServer(appids) PROVE Rest'
  <2>1. data' = data \cup appids /\ starts' = starts + 1 /\ faults' = faults
    BY <1>3, Zenon DEF InitServer
  <2>2. DataTypeOK'
    BY <2>1 DEF Rest, DataTypeOK
  <2>3. BoundTypeOK'
    BY <2>1 DEF Rest, BoundTypeOK
  <2> QED BY <2>2, <2>3 DEF Rest
<1>4. CASE DestroyProxy
  <2>1. data' = {} /\ UNCHANGED <<starts, faults>>
    BY <1>4, Zenon DEF DestroyProxy, bounds
  <2>2. DataTypeOK'
    BY <2>1 DEF DataTypeOK
  <2>3. BoundTypeOK'
    BY <2>1 DEF Rest, BoundTypeOK
  <2> QED BY <2>2, <2>3 DEF Rest
<1>5. CASE StartMonitorService \/ CallStop \/ Join \/ DestroyServer \/ Run \/ RunReturns
           \/ UNCHANGED vars
  BY <1>1, <1>5, Zenon DEF StartMonitorService, CallStop, Stop, Join, DestroyServer, Run,
     RunReturns, bounds, lifecycle, vars
<1>6. CASE CreateServer
  BY <1>1, <1>2, <1>6, Zenon DEF CreateServer
<1>7. ASSUME NEW c \in Clients,
             \/ HandleAccept(c) \/ HandleReadError(c) \/ HandleWrite(c)
             \/ HandleWriteError(c) \/ Connect(c) \/ Send(c)
             \/ \E k \in 1..(2 * MaxRequests[c]) : HandleRead(c, k)
      PROVE  Rest'
  BY <1>1, <1>7, Zenon DEF HandleAccept, HandleReadError, HandleWrite, HandleWriteError,
     Connect, Send, HandleRead, bounds, lifecycle
<1>8. ASSUME NEW c \in Clients, NEW how, Leave(c, how) PROVE Rest'
  BY <1>1, <1>2, <1>8, Zenon DEF Leave, lifecycle
<1> QED BY <1>1, <1>3, <1>4, <1>5, <1>6, <1>7, <1>8, NextCases, Zenon

-----------------------------------------------------------------------------
(* The order of the answers.  Requests are numbered as they are sent, and    *)
(* the pieces of each follow those of the one before.                        *)

\* The number of the last request that was answered, and of the last that was
\* handed over to the callback.
LastAnswered(c) ==
    IF answers[c] = <<>> THEN 0 ELSE answers[c][Len(answers[c])].no

HandedOver(c) == IF session[c] = "writing" THEN reply[c].no ELSE LastAnswered(c)

\* The pieces sent and not handed over: those read, and those on the wire.
Unread(c) == request[c] \o wire[c]

\* The pieces are those of the requests after no: a head counts one more than
\* the tail that follows it.
Follows(pieces, no) ==
    \A i \in DOMAIN pieces :
        2 * pieces[i].no = 2 * no + i + (IF pieces[i].part = "head" THEN 1 ELSE 0)

\* A connection whose requests the server still reads.
Served(c) ==
    /\ died = "no"
    /\ link[c] \in {"open", "eof"}
    /\ session[c] \in {"none", "reading", "writing"}

\* What is unread are the requests after the last handed over, up to the last
\* sent, and the one handed over is not answered yet.
Stream(c) ==
    /\ Follows(Unread(c), HandedOver(c))
    /\ Len(Unread(c)) = 2 * (sent[c] - HandedOver(c))
    /\ session[c] = "writing" => LastAnswered(c) < reply[c].no

\* The answers, in the order of the requests.
Ordered(c) ==
    \A i \in DOMAIN answers[c] :
        /\ answers[c][i].no \in i..sent[c]
        /\ i > 1 => answers[c][i - 1].no < answers[c][i].no
        /\ c \notin crowded => answers[c][i].no = i

\* A client that waits for each answer has sent one request more at most.
Waiting(c) == c \notin crowded => sent[c] <= Len(answers[c]) + 1

\* A connection that is not made.
Untouched(c) ==
    /\ session[c] = "none" /\ sent[c] = 0
    /\ wire[c] = <<>> /\ request[c] = <<>> /\ answers[c] = <<>>

InOrder(c) ==
    /\ Waiting(c)
    /\ link[c] = "none" => Untouched(c)
    /\ c \notin split => Ordered(c) /\ (Served(c) => Stream(c))

OrderInv == \A c \in Clients : InOrder(c)

\* What the proofs use of the types, for one connection.
LEMMA TypesOf ==
    ASSUME SessionTypeOK, ReplyTypeOK, NEW c \in Clients
    PROVE  /\ wire[c] \in Seq(Piece) /\ request[c] \in Seq(Piece)
           /\ Unread(c) \in Seq(Piece)
           /\ Len(Unread(c)) = Len(request[c]) + Len(wire[c])
           /\ answers[c] \in Seq(Reply) /\ reply[c] \in Reply /\ reply[c].no \in Nat
           /\ sent[c] \in Nat /\ LastAnswered(c) \in Nat /\ HandedOver(c) \in Nat
<1>1. wire[c] \in Seq(Piece) /\ request[c] \in Seq(Piece) /\ sent[c] \in Nat
  BY DEF SessionTypeOK
<1>2. answers[c] \in Seq(Reply) /\ reply[c] \in Reply
  BY DEF ReplyTypeOK
<1>3. Unread(c) \in Seq(Piece) /\ Len(Unread(c)) = Len(request[c]) + Len(wire[c])
  BY <1>1 DEF Unread
<1>4. reply[c].no \in Nat
  BY <1>2 DEF Reply
<1>5. LastAnswered(c) \in Nat
  <2>1. CASE answers[c] = <<>>
    BY <2>1 DEF LastAnswered
  <2>2. CASE answers[c] # <<>>
    <3>1. answers[c][Len(answers[c])] \in Reply
      BY <1>2, <2>2
    <3> QED BY <2>2, <3>1 DEF LastAnswered, Reply
  <2> QED BY <2>1, <2>2
<1> QED BY <1>1, <1>2, <1>3, <1>4, <1>5 DEF HandedOver

\* The parity that tells a head from a tail.
LEMMA Parity ==
    ASSUME NEW x \in Nat, NEW y \in Nat, NEW n \in Nat
    PROVE  /\ 2 * x = 2 * y + n => n % 2 = 0
           /\ 2 * x = 2 * y + n + 1 => n % 2 = 1
OBVIOUS

\* With a request cut between a head and its tail nowhere, what is handed over
\* ends in the last request it holds, and is understood as that request.
LEMMA HandedWhole ==
    ASSUME NEW pieces \in Seq(Piece), NEW no \in Nat, Follows(pieces, no),
           pieces # <<>>, pieces[Len(pieces)].part = "tail"
    PROVE  /\ Understood(pieces) = {pieces[Len(pieces)].no}
           /\ 2 * pieces[Len(pieces)].no = 2 * no + Len(pieces)
<1>1. Len(pieces) \in DOMAIN pieces
  OBVIOUS
<1>2. ASSUME NEW i \in DOMAIN pieces
      PROVE  /\ i \in Nat /\ pieces[i].no \in Nat /\ pieces[i].part \in {"head", "tail"}
             /\ pieces[i].part = "head" => 2 * pieces[i].no = 2 * no + i + 1
             /\ pieces[i].part = "tail" => 2 * pieces[i].no = 2 * no + i
  <2>1. pieces[i] \in Piece /\ i \in Nat
    OBVIOUS
  <2>2. pieces[i].no \in Nat /\ pieces[i].part \in {"head", "tail"}
    BY <2>1 DEF Piece
  <2>3. 2 * pieces[i].no = 2 * no + i + (IF pieces[i].part = "head" THEN 1 ELSE 0)
    BY Zenon DEF Follows
  <2> QED BY <2>1, <2>2, <2>3
<1>3. 2 * pieces[Len(pieces)].no = 2 * no + Len(pieces)
  BY <1>1, <1>2
<1>4. Len(pieces) % 2 = 0
  <2>1. pieces[Len(pieces)].no \in Nat /\ Len(pieces) \in Nat
    BY <1>1, <1>2
  <2> QED BY <1>3, <2>1, Parity
<1>5. ASSUME NEW i \in DOMAIN pieces
      PROVE  pieces[i].part = IF i % 2 = 1 THEN "head" ELSE "tail"
  <2>1. CASE pieces[i].part = "head"
    <3>1. i % 2 = 1
      BY <1>2, <2>1, Parity
    <3> QED BY <2>1, <3>1
  <2>2. CASE pieces[i].part = "tail"
    <3>1. i % 2 = 0
      BY <1>2, <2>2, Parity
    <3> QED BY <2>2, <3>1
  <2> QED BY <1>2, <2>1, <2>2
<1>6. Whole(pieces)
  BY <1>4, <1>5, Zenon DEF Whole
<1> QED BY <1>3, <1>6, Zenon DEF Understood

LEMMA OrderInit == Init => OrderInv
<1> SUFFICES ASSUME Init, NEW c \in Clients PROVE InOrder(c)
  BY Zenon DEF OrderInv
<1>1. Untouched(c) /\ link[c] = "none"
  BY DEF Init, Untouched
<1>2. Waiting(c)
  BY <1>1 DEF Waiting, Untouched
<1>3. Ordered(c)
  BY <1>1 DEF Ordered, Untouched
<1>4. ~Served(c)
  BY <1>1 DEF Served
<1> QED BY <1>1, <1>2, <1>3, <1>4, Zenon DEF InOrder

\* A connection whose pieces and replies stay as they are.
LEMMA OrderKept ==
    ASSUME NEW c, InOrder(c), Served(c)' => Served(c),
           link'[c] = "none" => link[c] = "none" /\ session'[c] = session[c],
           session'[c] = "writing" <=> session[c] = "writing", wire'[c] = wire[c],
           request'[c] = request[c], reply'[c] = reply[c], sent'[c] = sent[c],
           answers'[c] = answers[c], c \in crowded' <=> c \in crowded,
           c \in split' <=> c \in split
    PROVE  InOrder(c)'
<1>1. Waiting(c)'
  BY Zenon DEF InOrder, Waiting
<1>2. link'[c] = "none" => Untouched(c)'
  BY Zenon DEF InOrder, Untouched
<1>3. c \notin split' => Ordered(c)'
  BY Zenon DEF InOrder, Ordered
<1>4. c \notin split' /\ Served(c)' => Stream(c)'
  <2> SUFFICES ASSUME c \notin split', Served(c)' PROVE Stream(c)'
    OBVIOUS
  <2>1. Served(c)
    OBVIOUS
  <2>2. Stream(c)
    BY <2>1, Zenon DEF InOrder
  <2>3. LastAnswered(c)' = LastAnswered(c) /\ Unread(c)' = Unread(c)
    BY Zenon DEF LastAnswered, Unread
  <2>4. HandedOver(c)' = HandedOver(c)
    BY <2>3, Zenon DEF HandedOver
  <2> QED BY <2>2, <2>3, <2>4, Zenon DEF Stream, Follows
<1> QED BY <1>1, <1>2, <1>3, <1>4, Zenon DEF InOrder

\* A connection that is served no longer.
LEMMA OrderDropped ==
    ASSUME NEW c, InOrder(c), ~Served(c)', link'[c] = "none" => Untouched(c)',
           sent'[c] = sent[c], answers'[c] = answers[c],
           c \in crowded' <=> c \in crowded, c \in split' <=> c \in split
    PROVE  InOrder(c)'
<1>1. Waiting(c)'
  BY Zenon DEF InOrder, Waiting
<1>2. c \notin split' => Ordered(c)'
  BY Zenon DEF InOrder, Ordered
<1> QED BY <1>1, <1>2, Zenon DEF InOrder

\* A step of one connection leaves the others alone.
LEMMA OrderOthers ==
    ASSUME OrderInv, SessionTypeOK, ReplyTypeOK, died' = "no" => died = "no",
           NEW c \in Clients, NEW f, NEW g, NEW h, NEW p, NEW q, NEW r, NEW s,
           link' \in {link, [link EXCEPT ![c] = f]},
           session' \in {session, [session EXCEPT ![c] = g]},
           wire' \in {wire, [wire EXCEPT ![c] = h]},
           request' \in {request, [request EXCEPT ![c] = p]},
           reply' \in {reply, [reply EXCEPT ![c] = q]},
           sent' \in {sent, [sent EXCEPT ![c] = r]},
           answers' \in {answers, [answers EXCEPT ![c] = s]},
           crowded' \in {crowded, crowded \cup {c}}, split' \in {split, split \cup {c}},
           InOrder(c)'
    PROVE  OrderInv'
<1>1. ASSUME NEW d \in Clients, d # c PROVE InOrder(d)'
  <2>1. link'[d] = link[d] /\ session'[d] = session[d] /\ wire'[d] = wire[d]
    BY <1>1 DEF SessionTypeOK
  <2>2. request'[d] = request[d] /\ sent'[d] = sent[d]
    BY <1>1 DEF SessionTypeOK
  <2>3. reply'[d] = reply[d] /\ answers'[d] = answers[d]
    BY <1>1 DEF ReplyTypeOK
  <2>4. (d \in crowded' <=> d \in crowded) /\ (d \in split' <=> d \in split)
    BY <1>1
  <2>5. InOrder(d)
    BY Zenon DEF OrderInv
  <2>6. Served(d)' => Served(d)
    BY <2>1, Zenon DEF Served
  <2> QED BY <2>1, <2>2, <2>3, <2>4, <2>5, <2>6, OrderKept, Zenon
<1> QED BY <1>1, Zenon DEF OrderInv

\* An element of a concatenation.
LEMMA Joint ==
    ASSUME NEW S, NEW a \in Seq(S), NEW b \in Seq(S)
    PROVE  /\ a \o b \in Seq(S) /\ Len(a \o b) = Len(a) + Len(b)
           /\ DOMAIN (a \o b) = 1..(Len(a) + Len(b))
           /\ \A i \in 1..Len(a) : (a \o b)[i] = a[i]
           /\ \A i \in 1..Len(b) : (a \o b)[Len(a) + i] = b[i]
OBVIOUS

\* What a read leaves on the wire.
LEMMA Suffix ==
    ASSUME NEW S, NEW b \in Seq(S), NEW k \in 1..Len(b)
    PROVE  /\ SubSeq(b, k + 1, Len(b)) \in Seq(S)
           /\ Len(SubSeq(b, k + 1, Len(b))) = Len(b) - k
           /\ \A i \in 1..(Len(b) - k) : SubSeq(b, k + 1, Len(b))[i] = b[k + i]
OBVIOUS

\* A prefix of what is unread is handed over, and the rest is unread still.
LEMMA Handing ==
    ASSUME NEW S, NEW a \in Seq(S), NEW b \in Seq(S), NEW k \in 1..Len(b),
           NEW before, before = a \o SubSeq(b, 1, k),
           NEW after, after = SubSeq(b, k + 1, Len(b)), NEW all, all = a \o b
    PROVE  /\ before \in Seq(S) /\ after \in Seq(S) /\ all \in Seq(S)
           /\ Len(before) = Len(a) + k /\ Len(after) = Len(b) - k
           /\ Len(all) = Len(a) + Len(b)
           /\ before[Len(before)] = b[k]
           /\ \A i \in 1..Len(before) : before[i] = all[i]
           /\ \A i \in 1..Len(after) : after[i] = all[Len(before) + i]
<1> DEFINE read == SubSeq(b, 1, k)
<1>1. /\ read \in Seq(S) /\ Len(read) = k
      /\ \A i \in 1..k : read[i] = b[i]
  OBVIOUS
<1>2. /\ after \in Seq(S) /\ Len(after) = Len(b) - k
      /\ \A i \in 1..(Len(b) - k) : after[i] = b[k + i]
  BY Suffix, Zenon
<1>3. before = a \o read
  OBVIOUS
<1> HIDE DEF read
<1>4. /\ before \in Seq(S) /\ Len(before) = Len(a) + k
      /\ \A i \in 1..Len(a) : before[i] = a[i]
      /\ \A i \in 1..k : before[Len(a) + i] = read[i]
  BY <1>1, <1>3, Joint
<1>5. /\ all \in Seq(S) /\ Len(all) = Len(a) + Len(b)
      /\ \A i \in 1..Len(a) : all[i] = a[i]
      /\ \A i \in 1..Len(b) : all[Len(a) + i] = b[i]
  BY Joint
<1>6. before[Len(before)] = b[k]
  BY <1>1, <1>4
<1>7. ASSUME NEW i \in 1..Len(before) PROVE before[i] = all[i]
  <2>1. CASE i <= Len(a)
    BY <1>4, <1>5, <2>1
  <2>2. CASE i > Len(a)
    <3>1. i - Len(a) \in 1..k /\ i - Len(a) \in 1..Len(b) /\ Len(a) + (i - Len(a)) = i
      BY <1>4, <2>2
    <3>2. before[i] = read[i - Len(a)] /\ all[i] = b[i - Len(a)]
      <4>1. before[Len(a) + (i - Len(a))] = read[i - Len(a)]
        BY <1>4, <3>1, Zenon
      <4>2. all[Len(a) + (i - Len(a))] = b[i - Len(a)]
        BY <1>5, <3>1, Zenon
      <4> QED BY <3>1, <4>1, <4>2, Zenon
    <3> QED BY <1>1, <3>1, <3>2, Zenon
  <2> QED BY <1>4, <2>1, <2>2
<1>8. ASSUME NEW i \in 1..Len(after) PROVE after[i] = all[Len(before) + i]
  <2>1. i \in 1..(Len(b) - k) /\ k + i \in 1..Len(b) /\ Len(a) + (k + i) = Len(before) + i
    BY <1>2, <1>4
  <2>2. after[i] = b[k + i]
    BY <1>2, <2>1, Zenon
  <2>3. all[Len(a) + (k + i)] = b[k + i]
    BY <1>5, <2>1, Zenon
  <2> QED BY <2>1, <2>2, <2>3, Zenon
<1> QED BY <1>2, <1>4, <1>5, <1>6, <1>7, <1>8

\* A read that hands nothing over moves pieces, and changes none.
LEMMA Reading ==
    ASSUME NEW S, NEW a \in Seq(S), NEW b \in Seq(S), NEW k \in 1..Len(b)
    PROVE  (a \o SubSeq(b, 1, k)) \o SubSeq(b, k + 1, Len(b)) = a \o b
<1> DEFINE before == a \o SubSeq(b, 1, k)
           after  == SubSeq(b, k + 1, Len(b))
           all    == a \o b
<1>1. /\ before \in Seq(S) /\ after \in Seq(S) /\ all \in Seq(S)
      /\ Len(before) = Len(a) + k /\ Len(after) = Len(b) - k /\ Len(all) = Len(a) + Len(b)
      /\ \A i \in 1..Len(before) : before[i] = all[i]
      /\ \A i \in 1..Len(after) : after[i] = all[Len(before) + i]
  BY Handing
<1> HIDE DEF before, after, all
<1>2. /\ before \o after \in Seq(S) /\ Len(before \o after) = Len(all)
      /\ \A i \in 1..Len(before) : (before \o after)[i] = before[i]
      /\ \A i \in 1..Len(after) : (before \o after)[Len(before) + i] = after[i]
  <2>1. Len(before) + Len(after) = Len(all)
    BY <1>1
  <2>2. /\ before \o after \in Seq(S)
        /\ Len(before \o after) = Len(before) + Len(after)
        /\ \A i \in 1..Len(before) : (before \o after)[i] = before[i]
        /\ \A i \in 1..Len(after) : (before \o after)[Len(before) + i] = after[i]
    <3>1. before \in Seq(S) /\ after \in Seq(S)
      BY <1>1, Zenon
    <3> QED BY <3>1, Joint
  <2> QED BY <2>1, <2>2, Zenon
<1>3. ASSUME NEW i \in 1..Len(all) PROVE (before \o after)[i] = all[i]
  <2>1. CASE i <= Len(before)
    <3>1. i \in 1..Len(before)
      BY <1>1, <2>1
    <3> QED BY <1>1, <1>2, <3>1, Zenon
  <2>2. CASE i > Len(before)
    <3>1. i - Len(before) \in 1..Len(after) /\ Len(before) + (i - Len(before)) = i
      BY <1>1, <2>2
    <3>2. (before \o after)[Len(before) + (i - Len(before))] = after[i - Len(before)]
      BY <1>2, <3>1, Zenon
    <3>3. after[i - Len(before)] = all[Len(before) + (i - Len(before))]
      BY <1>1, <3>1, Zenon
    <3> QED BY <3>1, <3>2, <3>3, Zenon
  <2> QED BY <1>1, <2>1, <2>2
<1>4. before \o after = all
  BY <1>1, <1>2, <1>3, SeqEqual
<1> QED BY <1>4 DEF before, after, all

\* The answers are at least as many as the number of the last.
LEMMA LastIsLate ==
    ASSUME SessionTypeOK, ReplyTypeOK, NEW c \in Clients, Ordered(c)
    PROVE  Len(answers[c]) <= LastAnswered(c)
<1>1. answers[c] \in Seq(Reply) /\ sent[c] \in Nat
  BY TypesOf
<1>2. CASE answers[c] = <<>>
  BY <1>2 DEF LastAnswered
<1>3. CASE answers[c] # <<>>
  <2>1. Len(answers[c]) \in DOMAIN answers[c]
    BY <1>1, <1>3
  <2>2. answers[c][Len(answers[c])].no \in Len(answers[c])..sent[c]
    BY <2>1, Zenon DEF Ordered
  <2> QED BY <1>1, <1>3, <2>2 DEF LastAnswered
<1> QED BY <1>2, <1>3

\* All that is unread is what is handed over and what is left.
Cut(pieces, after, all) ==
    /\ pieces \in Seq(Piece) /\ after \in Seq(Piece) /\ all \in Seq(Piece)
    /\ Len(pieces) > 0 /\ Len(all) = Len(pieces) + Len(after)
    /\ \A i \in 1..Len(pieces) : pieces[i] = all[i]
    /\ \A i \in 1..Len(after) : after[i] = all[Len(pieces) + i]

LEMMA CutTypes ==
    ASSUME NEW pieces, NEW after, NEW all, Cut(pieces, after, all)
    PROVE  /\ pieces \in Seq(Piece) /\ pieces # <<>> /\ after \in Seq(Piece)
           /\ Len(pieces) \in Nat /\ Len(after) \in Nat /\ Len(pieces) > 0
           /\ DOMAIN pieces = 1..Len(pieces) /\ DOMAIN after = 1..Len(after)
           /\ \A i \in 1..Len(pieces) : i \in DOMAIN all /\ pieces[i] = all[i]
           /\ \A i \in 1..Len(after) :
                 Len(pieces) + i \in DOMAIN all /\ after[i] = all[Len(pieces) + i]
           /\ Len(all) = Len(pieces) + Len(after)
BY DEF Cut

\* What is handed over follows the request before.
LEMMA CutFollows ==
    ASSUME NEW pieces, NEW after, NEW all, Cut(pieces, after, all), NEW m \in Nat,
           Follows(all, m)
    PROVE  Follows(pieces, m)
<1> SUFFICES ASSUME NEW i \in DOMAIN pieces
             PROVE  2 * pieces[i].no
                      = 2 * m + i + (IF pieces[i].part = "head" THEN 1 ELSE 0)
  BY Zenon DEF Follows
<1>1. i \in DOMAIN all /\ pieces[i] = all[i]
  BY CutTypes, Zenon
<1>2. 2 * all[i].no = 2 * m + i + (IF all[i].part = "head" THEN 1 ELSE 0)
  BY <1>1, Zenon DEF Follows
<1> QED BY <1>1, <1>2, Zenon

LEMMA Places ==
    ASSUME NEW l \in Nat, NEW i \in Nat, NEW m \in Nat, NEW no \in Nat, 2 * no = 2 * m + l
    PROVE  2 * m + (l + i) = 2 * no + i
OBVIOUS

\* What is left follows the last request handed over.
LEMMA CutLeaves ==
    ASSUME NEW pieces, NEW after, NEW all, Cut(pieces, after, all), NEW m \in Nat,
           Follows(all, m), NEW no \in Nat, 2 * no = 2 * m + Len(pieces)
    PROVE  Follows(after, no)
<1> SUFFICES ASSUME NEW i \in DOMAIN after
             PROVE  2 * after[i].no = 2 * no + i + (IF after[i].part = "head" THEN 1 ELSE 0)
  BY Zenon DEF Follows
<1>1. /\ Len(pieces) + i \in DOMAIN all /\ after[i] = all[Len(pieces) + i]
      /\ Len(pieces) \in Nat /\ i \in 1..Len(after)
  <2>1. DOMAIN after = 1..Len(after) /\ Len(pieces) \in Nat
    BY CutTypes, Zenon
  <2>2. i \in 1..Len(after)
    BY <2>1, Zenon
  <2> QED BY <2>1, <2>2, CutTypes, SMTT(30)
<1>2. 2 * all[Len(pieces) + i].no
        = 2 * m + (Len(pieces) + i) + (IF all[Len(pieces) + i].part = "head" THEN 1 ELSE 0)
  BY <1>1, Zenon DEF Follows
<1>3. 2 * m + (Len(pieces) + i) = 2 * no + i
  <2>1. i \in Nat
    BY <1>1
  <2> QED BY <1>1, <2>1, Places, SMTT(30)
<1> QED BY <1>1, <1>2, <1>3, Zenon

\* What is handed over is understood as the last request it holds, and what is
\* left starts with the request after it.
LEMMA HandedOn ==
    ASSUME NEW pieces, NEW after, NEW all, Cut(pieces, after, all),
           NEW m \in Nat, NEW s \in Nat, Follows(all, m), Len(all) = 2 * (s - m),
           pieces[Len(pieces)].part = "tail", NEW no \in Understood(pieces)
    PROVE  Follows(after, no) /\ Len(after) = 2 * (s - no) /\ m < no
<1>1. Follows(pieces, m) /\ pieces \in Seq(Piece) /\ pieces # <<>>
  BY CutFollows, CutTypes, Zenon
<1>2. no = pieces[Len(pieces)].no /\ 2 * no = 2 * m + Len(pieces)
  <2>1. Understood(pieces) = {pieces[Len(pieces)].no}
        /\ 2 * pieces[Len(pieces)].no = 2 * m + Len(pieces)
    BY <1>1, HandedWhole, Zenon
  <2> QED BY <2>1, Zenon
<1>3. no \in Nat
  <2>1. pieces[Len(pieces)] \in Piece
    BY <1>1
  <2> QED BY <1>2, <2>1 DEF Piece
<1>4. Follows(after, no)
  BY <1>2, <1>3, CutLeaves, Zenon
<1>5. /\ Len(pieces) \in Nat /\ Len(after) \in Nat /\ Len(pieces) > 0
      /\ Len(all) = Len(pieces) + Len(after)
  BY CutTypes, Zenon
<1>6. Len(after) = 2 * (s - no) /\ m < no
  BY <1>2, <1>3, <1>5, SMTT(30)
<1> QED BY <1>4, <1>6

\* A read of k pieces cuts what is unread.
LEMMA HandedParts ==
    ASSUME NEW a \in Seq(Piece), NEW b \in Seq(Piece), NEW k \in 1..Len(b)
    PROVE  /\ Cut(a \o SubSeq(b, 1, k), <<>> \o SubSeq(b, k + 1, Len(b)), a \o b)
           /\ (a \o SubSeq(b, 1, k))[Len(a \o SubSeq(b, 1, k))] = b[k]
<1> DEFINE pieces == a \o SubSeq(b, 1, k)
           after  == SubSeq(b, k + 1, Len(b))
           all    == a \o b
<1>1. /\ pieces \in Seq(Piece) /\ after \in Seq(Piece) /\ all \in Seq(Piece)
      /\ Len(pieces) = Len(a) + k /\ Len(after) = Len(b) - k
      /\ Len(all) = Len(a) + Len(b)
      /\ pieces[Len(pieces)] = b[k]
      /\ \A i \in 1..Len(pieces) : pieces[i] = all[i]
      /\ \A i \in 1..Len(after) : after[i] = all[Len(pieces) + i]
  BY Handing
<1>2. Len(a) \in Nat /\ Len(b) \in Nat /\ k \in 1..Len(b)
  OBVIOUS
<1>3. <<>> \o after = after
  BY <1>1
<1> HIDE DEF pieces, after, all
<1>4. Len(pieces) > 0 /\ Len(all) = Len(pieces) + Len(after)
  BY <1>1, <1>2, SMTT(30)
<1>5. Cut(pieces, after, all)
  BY <1>1, <1>4, Zenon DEF Cut
<1> QED BY <1>1, <1>3, <1>5, Zenon DEF pieces, after, all

\* What a read hands over, of a stream that is in order.
LEMMA OrderCut ==
    ASSUME SessionTypeOK, ReplyTypeOK, NEW c \in Clients, NEW k \in 1..Len(wire[c]),
           Stream(c), session[c] = "reading", wire[c][k].part = "tail",
           NEW no \in Understood(request[c] \o SubSeq(wire[c], 1, k))
    PROVE  LET after == <<>> \o SubSeq(wire[c], k + 1, Len(wire[c])) IN
           Follows(after, no) /\ Len(after) = 2 * (sent[c] - no) /\ LastAnswered(c) < no
<1> DEFINE pieces == request[c] \o SubSeq(wire[c], 1, k)
           after  == <<>> \o SubSeq(wire[c], k + 1, Len(wire[c]))
           all    == request[c] \o wire[c]
           m      == HandedOver(c)
           s      == sent[c]
<1>1. /\ request[c] \in Seq(Piece) /\ wire[c] \in Seq(Piece)
      /\ m \in Nat /\ s \in Nat
  BY TypesOf, Zenon
<1>2. m = LastAnswered(c)
  <2>1. session[c] # "writing"
    OBVIOUS
  <2> QED BY <2>1, Zenon DEF HandedOver
<1>3. Follows(all, m) /\ Len(all) = 2 * (s - m)
  BY Zenon DEF Stream, Unread
<1>4. Cut(pieces, after, all) /\ pieces[Len(pieces)] = wire[c][k]
  BY <1>1, HandedParts, Zenon
<1>5. no \in Understood(pieces) /\ pieces[Len(pieces)].part = "tail"
  BY <1>4, Zenon
<1> HIDE DEF pieces, after, all, m, s
<1>6. Follows(after, no) /\ Len(after) = 2 * (s - no) /\ m < no
  BY <1>1, <1>3, <1>4, <1>5, HandedOn
<1> QED BY <1>2, <1>6, Zenon DEF after, s

\* What remains when it is handed over.
LEMMA OrderHanded ==
    ASSUME NEW c, NEW no, NEW after,
           Follows(after, no), Len(after) = 2 * (sent[c] - no), LastAnswered(c) < no,
           request'[c] \o wire'[c] = after, session'[c] = "writing", reply'[c].no = no,
           answers'[c] = answers[c], sent'[c] = sent[c]
    PROVE  Stream(c)'
<1>1. LastAnswered(c)' = LastAnswered(c)
  BY Zenon DEF LastAnswered
<1>2. HandedOver(c)' = no
  BY Zenon DEF HandedOver
<1>3. Unread(c)' = after
  BY Zenon DEF Unread
<1> QED BY <1>1, <1>2, <1>3, Zenon DEF Stream

\* The callback either answers a request it understands or ends the process.
LEMMA CallbackCases ==
    ASSUME NEW c, NEW pieces, RequestCallback(c, pieces)
    PROVE  \/ \E no \in Understood(pieces) : \E answer \in Answers(c, no) :
                 reply' = [reply EXCEPT ![c] = answer] /\ died' = died
           \/ died' # "no" /\ reply' = reply
<1>1. Ends("callback") \/ Ends("thrown") => died' # "no"
  BY DEF Ends
<1>2. CASE owner = "dying"
  BY <1>1, <1>2, Zenon DEF RequestCallback
<1>3. CASE owner # "dying"
  BY <1>1, <1>3, Zenon DEF RequestCallback
<1> QED BY <1>2, <1>3

\* Each step keeps the order: a read, ...
LEMMA OrderRead ==
    ASSUME SessionTypeOK, ReplyTypeOK, OrderInv, NEW c \in Clients, NEW k \in Nat,
           HandleRead(c, k)
    PROVE  OrderInv'
<1> DEFINE pieces == request[c] \o SubSeq(wire[c], 1, k)
<1>1. /\ died = "no" /\ session[c] = "reading" /\ link[c] \in {"open", "eof"}
      /\ k \in 1..Len(wire[c])
      /\ wire' = [wire EXCEPT ![c] = SubSeq(wire[c], k + 1, Len(wire[c]))]
      /\ UNCHANGED <<link, sent, answers, crowded>>
  BY Zenon DEF HandleRead, Handling
<1>2. InOrder(c) /\ wire'[c] = SubSeq(wire[c], k + 1, Len(wire[c]))
  <2>1. wire'[c] = SubSeq(wire[c], k + 1, Len(wire[c]))
    BY <1>1 DEF SessionTypeOK
  <2> QED BY <2>1, Zenon DEF OrderInv
<1>3. Waiting(c)' /\ link'[c] # "none" /\ (Ordered(c) => Ordered(c)')
  <2>1. link'[c] # "none"
    BY <1>1
  <2> QED BY <1>1, <1>2, <2>1, Zenon DEF InOrder, Waiting, Ordered
<1>4. c \notin split => Ordered(c) /\ Stream(c)
  <2>1. Served(c)
    BY <1>1, Zenon DEF Served
  <2> QED BY <1>2, <2>1, Zenon DEF InOrder
<1>5. CASE /\ request' = [request EXCEPT ![c] = pieces]
           /\ UNCHANGED <<died, session, reply, split>>
  <2>1. request'[c] = pieces
    BY <1>5 DEF SessionTypeOK
  <2>2. Unread(c)' = Unread(c)
    <3>1. (request[c] \o SubSeq(wire[c], 1, k)) \o SubSeq(wire[c], k + 1, Len(wire[c]))
            = request[c] \o wire[c]
      BY <1>1, TypesOf, Reading
    <3> QED BY <1>2, <2>1, <3>1, Zenon DEF Unread
  <2>3. LastAnswered(c)' = LastAnswered(c)
    BY <1>1, Zenon DEF LastAnswered
  <2>4. HandedOver(c)' = HandedOver(c)
    BY <1>5, <2>3, Zenon DEF HandedOver
  <2>5. Stream(c) => Stream(c)'
    BY <1>1, <1>5, <2>2, <2>3, <2>4, Zenon DEF Stream
  <2>6. InOrder(c)'
    BY <1>3, <1>4, <1>5, <2>5, Zenon DEF InOrder
  <2> QED BY <1>1, <1>5, <2>6, OrderOthers, Zenon
<1>6. CASE /\ RequestCallback(c, pieces)
           /\ request' = [request EXCEPT ![c] = <<>>]
           /\ session' = [session EXCEPT ![c] = "writing"]
           /\ split' = IF wire[c][k].part = "tail" THEN split ELSE split \cup {c}
  <2>1. request'[c] = <<>> /\ session'[c] = "writing"
    BY <1>6 DEF SessionTypeOK
  <2>2. split' \in {split, split \cup {c}}
        /\ (c \notin split' => c \notin split /\ wire[c][k].part = "tail")
    BY <1>6
  <2>3. CASE \E no \in Understood(pieces) : \E answer \in Answers(c, no) :
                reply' = [reply EXCEPT ![c] = answer] /\ died' = died
    <3>1. PICK no \in Understood(pieces) :
            \E answer \in Answers(c, no) : reply' = [reply EXCEPT ![c] = answer]
      BY <2>3, Zenon
    <3>2. PICK answer \in Answers(c, no) : reply' = [reply EXCEPT ![c] = answer]
      BY <3>1, Zenon
    <3>3. reply'[c].no = no
      <4>1. answer.no = no
        BY DEF Answers
      <4>2. reply'[c] = answer
        BY <3>2 DEF ReplyTypeOK
      <4> QED BY <4>1, <4>2
    <3>4. answers'[c] = answers[c] /\ sent'[c] = sent[c]
      BY <1>1, Zenon
    <3>5. ASSUME c \notin split' PROVE Stream(c)'
      <4> DEFINE after == <<>> \o SubSeq(wire[c], k + 1, Len(wire[c]))
      <4>1. Follows(after, no) /\ Len(after) = 2 * (sent[c] - no) /\ LastAnswered(c) < no
        BY <1>1, <1>4, <2>2, <3>1, <3>5, OrderCut, Zenon
      <4>2. request'[c] \o wire'[c] = after
        BY <1>2, <2>1, Zenon
      <4> HIDE DEF after
      <4> QED BY <2>1, <3>3, <3>4, <4>1, <4>2, OrderHanded, Zenon
    <3>6. InOrder(c)'
      BY <1>3, <1>4, <2>2, <3>5, Zenon DEF InOrder
    <3> QED BY <1>1, <1>6, <2>2, <3>2, <3>6, OrderOthers, Zenon
  <2>4. CASE died' # "no" /\ reply' = reply
    <3>1. InOrder(c)'
      BY <1>3, <1>4, <2>2, <2>4, Zenon DEF InOrder, Served
    <3> QED BY <1>1, <1>6, <2>2, <2>4, <3>1, OrderOthers, Zenon
  <2> QED BY <1>6, <2>3, <2>4, CallbackCases
<1> QED BY <1>5, <1>6, Zenon DEF HandleRead

\* ... an answer that is written, ...
LEMMA OrderWrite ==
    ASSUME SessionTypeOK, ReplyTypeOK, OrderInv, NEW c \in Clients, HandleWrite(c)
    PROVE  OrderInv'
<1> DEFINE last == Append(answers[c], reply[c])
<1>1. /\ died = "no" /\ session[c] = "writing" /\ link[c] \in {"open", "eof"}
      /\ session' = [session EXCEPT ![c] = "reading"]
      /\ answers' = [answers EXCEPT ![c] = last]
      /\ reply' = [reply EXCEPT ![c] = NoReply]
      /\ UNCHANGED <<died, link, wire, request, sent, crowded, split>>
  BY Zenon DEF HandleWrite, Handling, network
<1>2. InOrder(c) /\ session'[c] = "reading" /\ answers'[c] = last
  <2>1. session'[c] = "reading"
    BY <1>1 DEF SessionTypeOK
  <2>2. answers'[c] = last
    BY <1>1 DEF ReplyTypeOK
  <2> QED BY <2>1, <2>2, Zenon DEF OrderInv
<1>3. /\ answers[c] \in Seq(Reply) /\ sent[c] \in Nat /\ reply[c] \in Reply
      /\ reply[c].no \in Nat
  BY TypesOf, Zenon
<1>4. /\ Len(last) = Len(answers[c]) + 1 /\ last # <<>>
      /\ last[Len(answers[c]) + 1] = reply[c]
      /\ \A i \in 1..Len(answers[c]) : last[i] = answers[c][i]
      /\ DOMAIN last = 1..(Len(answers[c]) + 1) /\ Len(answers[c]) \in Nat
  BY <1>3
<1> HIDE DEF last
<1>5. Waiting(c)'
  <2>1. CASE c \in crowded'
    BY <2>1, Zenon DEF Waiting
  <2>2. CASE c \notin crowded'
    <3>1. sent[c] <= Len(answers[c]) + 1
      BY <1>1, <1>2, <2>2, Zenon DEF InOrder, Waiting
    <3>2. sent'[c] <= Len(answers'[c]) + 1
      BY <1>1, <1>2, <1>3, <1>4, <3>1
    <3> QED BY <3>2, Zenon DEF Waiting
  <2> QED BY <2>1, <2>2
<1>6. ASSUME c \notin split' PROVE Ordered(c)' /\ Stream(c)'
  <2>1. Ordered(c) /\ Stream(c)
    BY <1>1, <1>2, <1>6, Zenon DEF InOrder, Served
  <2>2. /\ LastAnswered(c) < reply[c].no /\ HandedOver(c) = reply[c].no
        /\ Len(Unread(c)) = 2 * (sent[c] - reply[c].no) /\ Follows(Unread(c), reply[c].no)
    BY <1>1, <2>1, Zenon DEF Stream, HandedOver
  <2>3. Len(answers[c]) <= LastAnswered(c) /\ LastAnswered(c) \in Nat
        /\ Len(Unread(c)) \in Nat
    <3>1. Unread(c) \in Seq(Piece) /\ LastAnswered(c) \in Nat
      BY TypesOf, Zenon
    <3> QED BY <2>1, <3>1, LastIsLate
  <2>4. reply[c].no \in (Len(answers[c]) + 1)..sent[c]
    BY <1>3, <1>4, <2>2, <2>3, SMTT(30)
  <2>5. LastAnswered(c)' = reply[c].no
    <3>1. last[Len(last)] = reply[c]
      BY <1>4, Zenon
    <3> QED BY <1>2, <1>4, <3>1, Zenon DEF LastAnswered
  <2>6. Stream(c)'
    <3>1. HandedOver(c)' = reply[c].no
      BY <1>2, <2>5 DEF HandedOver
    <3>2. Unread(c)' = Unread(c) /\ sent'[c] = sent[c] /\ session'[c] # "writing"
      <4>1. session'[c] # "writing"
        BY <1>2
      <4> QED BY <1>1, <4>1, Zenon DEF Unread
    <3> QED BY <2>2, <3>1, <3>2, Zenon DEF Stream
  <2>7. ASSUME NEW i \in DOMAIN last
        PROVE  /\ last[i].no \in i..sent[c]
               /\ i > 1 => last[i - 1].no < last[i].no
               /\ c \notin crowded => last[i].no = i
    <3>1. i \in 1..(Len(answers[c]) + 1)
      BY <1>4, Zenon
    <3>2. CASE i <= Len(answers[c])
      <4>1. i \in DOMAIN answers[c] /\ i \in 1..Len(answers[c])
            /\ (i > 1 => i - 1 \in 1..Len(answers[c]))
        BY <1>3, <3>1, <3>2
      <4> QED BY <1>4, <2>1, <4>1, Zenon DEF Ordered
    <3>3. CASE i = Len(answers[c]) + 1
      <4>1. last[i] = reply[c]
        BY <1>4, <3>3, Zenon
      <4>2. last[i].no \in i..sent[c]
        BY <2>4, <3>3, <4>1, Zenon
      <4>3. ASSUME i > 1 PROVE last[i - 1].no < last[i].no
        <5>1. i - 1 = Len(answers[c]) /\ Len(answers[c]) \in 1..Len(answers[c])
              /\ answers[c] # <<>>
          BY <1>3, <1>4, <3>3, <4>3
        <5>2. last[i - 1].no = LastAnswered(c)
          BY <1>4, <5>1, Zenon DEF LastAnswered
        <5> QED BY <2>2, <4>1, <5>2, Zenon
      <4>4. ASSUME c \notin crowded PROVE last[i].no = i
        <5>1. sent[c] <= Len(answers[c]) + 1
          BY <1>2, <4>4, Zenon DEF InOrder, Waiting
        <5>2. reply[c].no = Len(answers[c]) + 1
          BY <1>3, <1>4, <2>4, <5>1
        <5> QED BY <3>3, <4>1, <5>2, Zenon
      <4> QED BY <4>2, <4>3, <4>4, Zenon
    <3> QED BY <1>4, <3>1, <3>2, <3>3
  <2>8. Ordered(c)'
    BY <1>1, <1>2, <2>7, Zenon DEF Ordered
  <2> QED BY <2>6, <2>8
<1>7. link'[c] # "none"
  BY <1>1
<1>8. InOrder(c)'
  BY <1>5, <1>6, <1>7, Zenon DEF InOrder
<1>9. /\ died' = "no" => died = "no"
      /\ link' \in {link, [link EXCEPT ![c] = "open"]}
      /\ wire' \in {wire, [wire EXCEPT ![c] = <<>>]}
      /\ request' \in {request, [request EXCEPT ![c] = <<>>]}
      /\ sent' \in {sent, [sent EXCEPT ![c] = 0]}
      /\ session' \in {session, [session EXCEPT ![c] = "reading"]}
      /\ answers' \in {answers, [answers EXCEPT ![c] = last]}
      /\ reply' \in {reply, [reply EXCEPT ![c] = NoReply]}
      /\ crowded' \in {crowded, crowded \cup {c}} /\ split' \in {split, split \cup {c}}
  BY <1>1, Zenon
<1> QED BY <1>8, <1>9, OrderOthers, SMTT(30)

\* A request that is sent follows what is unread.
LEMMA Sending ==
    ASSUME NEW q \in Seq(Piece), NEW m \in Nat, NEW n \in Nat, NEW p \in Seq(Piece),
           Follows(q, m), Len(q) = 2 * (n - m), Len(p) = 2,
           p[1].no = n + 1, p[1].part = "head", p[2].no = n + 1, p[2].part = "tail"
    PROVE  Follows(q \o p, m) /\ Len(q \o p) = 2 * ((n + 1) - m)
<1> DEFINE r == q \o p
<1>1. /\ Len(p) = 2 /\ 1 \in 1..2 /\ 2 \in 1..2
      /\ p[1].no = n + 1 /\ p[1].part = "head"
      /\ p[2].no = n + 1 /\ p[2].part = "tail"
  OBVIOUS
<1>2. /\ r \in Seq(Piece) /\ Len(r) = Len(q) + 2 /\ DOMAIN r = 1..(Len(q) + 2)
      /\ \A i \in 1..Len(q) : r[i] = q[i]
      /\ \A i \in 1..2 : r[Len(q) + i] = p[i]
  <2>1. /\ q \o p \in Seq(Piece) /\ Len(q \o p) = Len(q) + Len(p)
        /\ DOMAIN (q \o p) = 1..(Len(q) + Len(p))
        /\ \A i \in 1..Len(q) : (q \o p)[i] = q[i]
        /\ \A i \in 1..Len(p) : (q \o p)[Len(q) + i] = p[i]
    <3>1. \A a, b \in Seq(Piece) :
             /\ a \o b \in Seq(Piece) /\ Len(a \o b) = Len(a) + Len(b)
             /\ DOMAIN (a \o b) = 1..(Len(a) + Len(b))
             /\ \A i \in 1..Len(a) : (a \o b)[i] = a[i]
             /\ \A i \in 1..Len(b) : (a \o b)[Len(a) + i] = b[i]
      OBVIOUS
    <3> QED BY <3>1, Zenon
  <2> QED BY <1>1, <2>1, Zenon
<1>3. Len(q) \in Nat /\ DOMAIN q = 1..Len(q)
  OBVIOUS
<1> HIDE DEF r
<1>4. Len(r) = 2 * ((n + 1) - m)
  BY <1>2, <1>3, SMTT(30)
<1>5. ASSUME NEW i \in DOMAIN r
      PROVE  2 * r[i].no = 2 * m + i + (IF r[i].part = "head" THEN 1 ELSE 0)
  <2>1. i \in 1..(Len(q) + 2)
    BY <1>2, Zenon
  <2>2. i \in 1..Len(q) \/ i = Len(q) + 1 \/ i = Len(q) + 2
    BY <1>3, <2>1, SMTT(30)
  <2>3. CASE i \in 1..Len(q)
    <3>1. r[i] = q[i]
      BY <1>2, <2>3, Zenon
    <3>2. 2 * q[i].no = 2 * m + i + (IF q[i].part = "head" THEN 1 ELSE 0)
      BY <1>3, <2>3, Zenon DEF Follows
    <3> QED BY <3>1, <3>2, Zenon
  <2>4. CASE i = Len(q) + 1
    <3>1. r[i].no = n + 1 /\ r[i].part = "head"
      BY <1>1, <1>2, <2>4, Zenon
    <3>2. 2 * (n + 1) = 2 * m + i + 1
      BY <1>3, <2>4, SMTT(30)
    <3> QED BY <3>1, <3>2, Zenon
  <2>5. CASE i = Len(q) + 2
    <3>1. r[i].no = n + 1 /\ r[i].part # "head"
      <4>1. r[i] = p[2]
        BY <1>1, <1>2, <2>5, Zenon
      <4>2. p[2].part # "head"
        BY <1>1
      <4> QED BY <1>1, <4>1, <4>2, Zenon
    <3>2. 2 * (n + 1) = 2 * m + i + 0
      BY <1>3, <2>5, SMTT(30)
    <3> QED BY <3>1, <3>2, Zenon
  <2> QED BY <2>2, <2>3, <2>4, <2>5, Zenon
<1> QED BY <1>4, <1>5, Zenon DEF Follows, r

LEMMA PiecesType ==
    ASSUME NEW c, sent[c] \in Nat
    PROVE  /\ Pieces(c) \in Seq(Piece) /\ Len(Pieces(c)) = 2
           /\ Pieces(c)[1].no = sent[c] + 1 /\ Pieces(c)[1].part = "head"
           /\ Pieces(c)[2].no = sent[c] + 1 /\ Pieces(c)[2].part = "tail"
BY DEF Pieces, Piece

LEMMA PiecesJoin ==
    ASSUME NEW a \in Seq(Piece), NEW b \in Seq(Piece), NEW p \in Seq(Piece)
    PROVE  (a \o b) \o p = a \o (b \o p)
BY ConcatAssociative

\* ... a request that is sent, ...
LEMMA OrderSend ==
    ASSUME SessionTypeOK, ReplyTypeOK, OrderInv, NEW c \in Clients, Send(c)
    PROVE  OrderInv'
<1>1. /\ died = "no" /\ link[c] = "open"
      /\ sent' = [sent EXCEPT ![c] = sent[c] + 1]
      /\ wire' = [wire EXCEPT ![c] = wire[c] \o Pieces(c)]
      /\ crowded' = IF sent[c] > Len(answers[c]) THEN crowded \cup {c} ELSE crowded
      /\ UNCHANGED <<died, link, session, request, reply, answers, split>>
  BY Zenon DEF Send, Pieces, sessions
<1>2. /\ InOrder(c) /\ link'[c] # "none"
      /\ sent'[c] = sent[c] + 1 /\ wire'[c] = wire[c] \o Pieces(c)
  <2>1. sent'[c] = sent[c] + 1 /\ wire'[c] = wire[c] \o Pieces(c) /\ link'[c] # "none"
    BY <1>1 DEF SessionTypeOK
  <2> QED BY <2>1, Zenon DEF OrderInv
<1>3. /\ wire[c] \in Seq(Piece) /\ request[c] \in Seq(Piece) /\ Unread(c) \in Seq(Piece)
      /\ sent[c] \in Nat /\ HandedOver(c) \in Nat /\ answers[c] \in Seq(Reply)
  BY TypesOf, Zenon
<1>4. Waiting(c)' /\ crowded' \in {crowded, crowded \cup {c}}
  <2>1. CASE sent[c] > Len(answers[c])
    BY <1>1, <2>1 DEF Waiting
  <2>2. CASE ~(sent[c] > Len(answers[c]))
    <3>1. sent'[c] <= Len(answers'[c]) + 1
      BY <1>1, <1>2, <1>3, <2>2
    <3> QED BY <1>1, <2>2, <3>1, Zenon DEF Waiting
  <2> QED BY <2>1, <2>2
<1>5. ASSUME c \notin split' PROVE Ordered(c)' /\ (Served(c)' => Stream(c)')
  <2>1. Ordered(c)'
    <3> SUFFICES ASSUME NEW i \in DOMAIN answers[c]
                 PROVE  /\ answers[c][i].no \in i..sent'[c]
                        /\ i > 1 => answers[c][i - 1].no < answers[c][i].no
                        /\ c \notin crowded' => answers[c][i].no = i
      BY <1>1, Zenon DEF Ordered
    <3>1. /\ answers[c][i].no \in i..sent[c]
          /\ i > 1 => answers[c][i - 1].no < answers[c][i].no
          /\ c \notin crowded => answers[c][i].no = i
      BY <1>1, <1>2, <1>5, Zenon DEF InOrder, Ordered
    <3>2. i \in Nat
      BY <1>3
    <3>3. answers[c][i].no \in i..sent'[c]
      BY <1>2, <1>3, <3>1, <3>2, SMTT(30)
    <3>4. c \notin crowded' => c \notin crowded
      BY <1>1
    <3> QED BY <3>1, <3>3, <3>4, Zenon
  <2>2. ASSUME Served(c)' PROVE Stream(c)'
    <3>1. Stream(c)
      BY <1>1, <1>2, <1>5, <2>2, Zenon DEF InOrder, Served
    <3>2. Unread(c)' = Unread(c) \o Pieces(c)
      <4>1. Pieces(c) \in Seq(Piece)
        BY <1>3, PiecesType, Zenon
      <4>2. (request[c] \o wire[c]) \o Pieces(c) = request[c] \o (wire[c] \o Pieces(c))
        <5> DEFINE a == request[c]
                   b == wire[c]
                   p == Pieces(c)
        <5>1. a \in Seq(Piece) /\ b \in Seq(Piece) /\ p \in Seq(Piece)
          BY <1>3, <4>1, Zenon
        <5> HIDE DEF a, b, p
        <5>2. (a \o b) \o p = a \o (b \o p)
          BY <5>1, PiecesJoin, Zenon
        <5> QED BY <5>2, Zenon DEF a, b, p
      <4> QED BY <1>1, <1>2, <4>2, Zenon DEF Unread
    <3>3. LastAnswered(c)' = LastAnswered(c)
      BY <1>1, Zenon DEF LastAnswered
    <3>4. HandedOver(c)' = HandedOver(c)
      BY <1>1, <3>3, Zenon DEF HandedOver
    <3>5. /\ Follows(Unread(c) \o Pieces(c), HandedOver(c))
          /\ Len(Unread(c) \o Pieces(c)) = 2 * ((sent[c] + 1) - HandedOver(c))
      <4> DEFINE p == Pieces(c)
                 q == Unread(c)
                 m == HandedOver(c)
                 n == sent[c]
      <4>1. /\ p \in Seq(Piece) /\ Len(p) = 2 /\ p[1].no = n + 1 /\ p[1].part = "head"
            /\ p[2].no = n + 1 /\ p[2].part = "tail"
        BY <1>3, PiecesType, Zenon
      <4>2. q \in Seq(Piece) /\ m \in Nat /\ n \in Nat
        BY <1>3, Zenon
      <4>3. Follows(q, m) /\ Len(q) = 2 * (n - m)
        BY <3>1, Zenon DEF Stream
      <4> HIDE DEF p, q, m, n
      <4>4. Follows(q \o p, m) /\ Len(q \o p) = 2 * ((n + 1) - m)
        BY <4>1, <4>2, <4>3, Sending
      <4> QED BY <4>4, Zenon DEF p, q, m, n
    <3> QED BY <1>1, <1>2, <3>1, <3>2, <3>3, <3>4, <3>5, Zenon DEF Stream
  <2> QED BY <2>1, <2>2
<1>6. InOrder(c)'
  BY <1>2, <1>4, <1>5, Zenon DEF InOrder
<1> QED BY <1>1, <1>4, <1>6, OrderOthers, Zenon

\* ... a connection that is made, ...
LEMMA OrderConnect ==
    ASSUME SessionTypeOK, ReplyTypeOK, OrderInv, NEW c \in Clients, Connect(c)
    PROVE  OrderInv'
<1>1. /\ link[c] = "none" /\ link' = [link EXCEPT ![c] = "open"]
      /\ UNCHANGED <<died, session, wire, request, reply, sent, answers, crowded, split>>
  BY Zenon DEF Connect, sessions, history
<1>2. InOrder(c) /\ link'[c] = "open"
  <2>1. link'[c] = "open"
    BY <1>1 DEF SessionTypeOK
  <2> QED BY <2>1, Zenon DEF OrderInv
<1>3. Untouched(c)
  BY <1>1, <1>2, Zenon DEF InOrder
<1>4. Stream(c)'
  <2>1. /\ session'[c] = "none" /\ sent'[c] = 0 /\ answers'[c] = <<>>
        /\ wire'[c] = <<>> /\ request'[c] = <<>>
    BY <1>1, <1>3, Zenon DEF Untouched
  <2>2. Unread(c)' = <<>>
    BY <2>1 DEF Unread
  <2>3. LastAnswered(c)' = 0
    BY <2>1 DEF LastAnswered
  <2>4. HandedOver(c)' = 0 /\ session'[c] # "writing"
    BY <2>1, <2>3 DEF HandedOver
  <2>5. Follows(<<>>, 0) /\ Len(<<>>) = 2 * (0 - 0)
    BY DEF Follows
  <2> QED BY <2>1, <2>2, <2>4, <2>5, Zenon DEF Stream
<1>5. Ordered(c)'
  <2>1. DOMAIN answers'[c] = {}
    BY <1>1, <1>3 DEF Untouched
  <2> QED BY <2>1, Zenon DEF Ordered
<1>6. Waiting(c)' /\ link'[c] # "none"
  <2>1. link'[c] # "none"
    BY <1>2
  <2> QED BY <1>1, <1>2, <2>1, Zenon DEF InOrder, Waiting
<1>7. InOrder(c)'
  BY <1>4, <1>5, <1>6, Zenon DEF InOrder
<1> QED BY <1>1, <1>7, OrderOthers, Zenon

\* ... accepted, ...
LEMMA OrderAccept ==
    ASSUME SessionTypeOK, ReplyTypeOK, OrderInv, NEW c \in Clients, HandleAccept(c)
    PROVE  OrderInv'
<1>1. /\ died = "no" /\ session[c] = "none" /\ link[c] \notin {"none", "closed"}
      /\ session' = [session EXCEPT ![c] = "reading"]
      /\ UNCHANGED <<died, link, wire, request, reply, sent, answers, crowded, split>>
  BY Zenon DEF HandleAccept, Handling, network, history
<1>2. InOrder(c) /\ session'[c] = "reading"
  <2>1. session'[c] = "reading"
    BY <1>1 DEF SessionTypeOK
  <2> QED BY <2>1, Zenon DEF OrderInv
<1>3. Served(c)' => Served(c)
  BY <1>1, Zenon DEF Served
<1>4. session'[c] # "writing" /\ session[c] # "writing" /\ link'[c] # "none"
  BY <1>1, <1>2
<1>5. InOrder(c)'
  BY <1>1, <1>2, <1>3, <1>4, OrderKept, Zenon
<1> QED BY <1>1, <1>5, OrderOthers, Zenon

\* ... given up by the server, ...
LEMMA OrderErrors ==
    ASSUME SessionTypeOK, ReplyTypeOK, OrderInv, NEW c \in Clients,
           HandleReadError(c) \/ HandleWriteError(c)
    PROVE  OrderInv'
<1>1. /\ link[c] \in {"eof", "reset", "error"}
      /\ session' = [session EXCEPT ![c] = "deleted"]
      /\ request' = [request EXCEPT ![c] = <<>>]
      /\ reply' = [reply EXCEPT ![c] = NoReply]
      /\ UNCHANGED <<died, link, wire, sent, answers, crowded, split>>
  <2>1. CASE HandleReadError(c)
    BY <2>1, Zenon DEF HandleReadError, Deleted, network, history
  <2>2. CASE HandleWriteError(c)
    BY <2>2, Zenon DEF HandleWriteError, Deleted, network, history
  <2> QED BY <2>1, <2>2
<1>2. InOrder(c) /\ session'[c] = "deleted"
  <2>1. session'[c] = "deleted"
    BY <1>1 DEF SessionTypeOK
  <2> QED BY <2>1, Zenon DEF OrderInv
<1>3. ~Served(c)' /\ link'[c] # "none"
  BY <1>1, <1>2 DEF Served
<1>4. InOrder(c)'
  BY <1>1, <1>2, <1>3, OrderDropped, Zenon
<1> QED BY <1>1, <1>4, OrderOthers, Zenon

\* ... left by the client, ...
LEMMA OrderLeave ==
    ASSUME SessionTypeOK, ReplyTypeOK, OrderInv, NEW c \in Clients,
           NEW how \in {"eof", "reset", "error"}, Leave(c, how)
    PROVE  OrderInv'
<1>1. /\ link[c] = "open" /\ link' = [link EXCEPT ![c] = how]
      /\ wire' = IF how = "eof" THEN wire ELSE [wire EXCEPT ![c] = <<>>]
      /\ UNCHANGED <<died, session, request, reply, sent, answers, crowded, split>>
  BY Zenon DEF Leave, sessions, history
<1>2. InOrder(c) /\ link'[c] = how
  <2>1. link'[c] = how
    BY <1>1 DEF SessionTypeOK
  <2> QED BY <2>1, Zenon DEF OrderInv
<1>3. link'[c] # "none"
  BY <1>2
<1>4. CASE how = "eof"
  <2>1. Served(c)' => Served(c)
    BY <1>1, Zenon DEF Served
  <2>2. InOrder(c)'
    BY <1>1, <1>2, <1>3, <1>4, <2>1, OrderKept, Zenon
  <2> QED BY <1>1, <1>4, <2>2, OrderOthers, Zenon
<1>5. CASE how # "eof"
  <2>1. ~Served(c)'
    BY <1>2, <1>5 DEF Served
  <2>2. InOrder(c)'
    BY <1>1, <1>2, <1>3, <2>1, OrderDropped, Zenon
  <2> QED BY <1>1, <1>5, <2>2, OrderOthers, Zenon
<1> QED BY <1>4, <1>5

\* ... or abandoned.
LEMMA OrderReturns ==
    ASSUME SessionTypeOK, OrderInv, RunReturns
    PROVE  OrderInv'
<1> SUFFICES ASSUME NEW c \in Clients PROVE InOrder(c)'
  BY Zenon DEF OrderInv
<1>1. /\ session'[c] = IF c \in Live THEN "abandoned" ELSE session[c]
      /\ link'[c] = IF link[c] # "none" /\ session[c] = "none" THEN "closed" ELSE link[c]
      /\ wire'[c] = <<>> /\ request'[c] = <<>>
      /\ UNCHANGED <<sent, answers, crowded, split>>
  BY DEF RunReturns, history
<1>2. InOrder(c)
  BY Zenon DEF OrderInv
<1>3. ~Served(c)'
  <2>1. CASE c \in Live
    BY <1>1, <2>1 DEF Served
  <2>2. CASE c \notin Live /\ session[c] = "none"
    BY <1>1, <2>2 DEF Served
  <2>3. CASE c \notin Live /\ session[c] # "none"
    BY <1>1, <2>3 DEF Served, Live
  <2> QED BY <2>1, <2>2, <2>3
<1>4. link'[c] = "none" => Untouched(c)'
  <2> SUFFICES ASSUME link'[c] = "none" PROVE Untouched(c)'
    OBVIOUS
  <2>1. link[c] = "none"
    BY <1>1
  <2>2. Untouched(c)
    BY <1>2, <2>1, Zenon DEF InOrder
  <2>3. session'[c] = "none"
    BY <1>1, <2>2 DEF Untouched, Live
  <2> QED BY <1>1, <2>2, <2>3, Zenon DEF Untouched
<1> QED BY <1>1, <1>2, <1>3, <1>4, OrderDropped, Zenon

LEMMA OrderStep == SessionTypeOK /\ ReplyTypeOK /\ OrderInv /\ [Next]_vars => OrderInv'
<1> SUFFICES ASSUME SessionTypeOK, ReplyTypeOK, OrderInv, [Next]_vars PROVE OrderInv'
  OBVIOUS
<1>1. ASSUME died' = "no" => died = "no", UNCHANGED <<network, session, request, reply, history>>
      PROVE  OrderInv'
  <2> SUFFICES ASSUME NEW c \in Clients PROVE InOrder(c)'
    BY Zenon DEF OrderInv
  <2>1. InOrder(c)
    BY Zenon DEF OrderInv
  <2>2. Served(c)' => Served(c)
    BY <1>1, Zenon DEF Served, network
  <2> QED BY <1>1, <2>1, <2>2, OrderKept, Zenon DEF network, history
<1>2. CASE \/ \E appids \in SUBSET Appids : InitServer(appids)
           \/ StartMonitorService \/ CallStop \/ Join \/ DestroyProxy \/ DestroyServer
           \/ CreateServer \/ Run \/ UNCHANGED vars
  BY <1>1, <1>2, Zenon DEF InitServer, StartMonitorService, CallStop, Stop, Join,
     DestroyProxy, DestroyServer, CreateServer, Run, OwnerFree, sessions, vars
<1>3. ASSUME NEW c \in Clients, NEW k \in 1..(2 * MaxRequests[c]) PROVE k \in Nat
  BY BoundsAssumption
<1> QED BY <1>2, <1>3, NextCases, OrderRead, OrderWrite, OrderSend, OrderConnect,
           OrderAccept, OrderErrors, OrderLeave, OrderReturns, Zenon

-----------------------------------------------------------------------------
(* The content of the answers.  data_map_ changes when the server is         *)
(* initialised, before it serves, and when it is destroyed.                  *)

\* A server that never was initialised.
Idle ==
    /\ thread = "none"
    /\ \A c \in Clients : session[c] = "none" /\ answers[c] = <<>>

\* The answers, and the one being written, are of the data the server has.
FromData(c) ==
    /\ \A i \in DOMAIN answers[c] : answers[c][i] \in Answers(c, answers[c][i].no)
    /\ died = "no" /\ session[c] = "writing" => reply[c] \in Answers(c, reply[c].no)

DataInv ==
    /\ starts = 0 => Idle
    /\ starts = 1 /\ owner \in {"idle", "stopping"} => \A c \in Clients : FromData(c)

LEMMA DataInit == Init => DataInv
<1> SUFFICES ASSUME Init PROVE DataInv
  OBVIOUS
<1>1. Idle
  BY DEF Init, Idle
<1>2. starts # 1
  BY DEF Init
<1> QED BY <1>1, <1>2, Zenon DEF DataInv

\* A connection that is neither answered nor given something to answer.
LEMMA DataKept ==
    ASSUME NEW c, FromData(c), died' = "no" => died = "no", data' = data,
           answers'[c] = answers[c],
           session'[c] = "writing" => session[c] = "writing" /\ reply'[c] = reply[c]
    PROVE  FromData(c)'
<1>1. /\ \A i \in DOMAIN answers[c] : answers[c][i] \in Answers(c, answers[c][i].no)
      /\ died = "no" /\ session[c] = "writing" => reply[c] \in Answers(c, reply[c].no)
  BY Zenon DEF FromData
<1>2. (\A i \in DOMAIN answers[c] : answers[c][i] \in Answers(c, answers[c][i].no))'
  BY <1>1 DEF Answers
<1>3. (died = "no" /\ session[c] = "writing" => reply[c] \in Answers(c, reply[c].no))'
  BY <1>1, Zenon DEF Answers
<1> QED BY <1>2, <1>3, Zenon DEF FromData

\* A reply that is written was made of the data.
LEMMA DataWrite ==
    ASSUME ReplyTypeOK, SessionTypeOK, NEW c \in Clients, HandleWrite(c),
           \A d \in Clients : FromData(d)
    PROVE  \A d \in Clients : FromData(d)'
<1>1. /\ died = "no" /\ session[c] = "writing" /\ UNCHANGED <<died, data>>
      /\ session' = [session EXCEPT ![c] = "reading"]
      /\ answers' = [answers EXCEPT ![c] = Append(answers[c], reply[c])]
      /\ reply' = [reply EXCEPT ![c] = NoReply]
  BY Zenon DEF HandleWrite, Handling, lifecycle
<1>2. ASSUME NEW d \in Clients, d # c PROVE FromData(d)'
  <2>1. answers'[d] = answers[d] /\ reply'[d] = reply[d] /\ session'[d] = session[d]
    BY <1>1, <1>2 DEF ReplyTypeOK, SessionTypeOK
  <2> QED BY <1>1, <2>1, DataKept, Zenon
<1>3. FromData(c)'
  <2>1. answers[c] \in Seq(Reply) /\ reply[c] \in Reply
    BY DEF ReplyTypeOK
  <2>2. answers'[c] = Append(answers[c], reply[c]) /\ session'[c] = "reading"
    BY <1>1 DEF ReplyTypeOK, SessionTypeOK
  <2>3. /\ \A i \in DOMAIN answers[c] : answers[c][i] \in Answers(c, answers[c][i].no)
        /\ reply[c] \in Answers(c, reply[c].no)
    BY <1>1, Zenon DEF FromData
  <2>4. \A i \in DOMAIN Append(answers[c], reply[c]) :
           Append(answers[c], reply[c])[i]
              \in Answers(c, Append(answers[c], reply[c])[i].no)
    <3> DEFINE last == Append(answers[c], reply[c])
    <3>1. /\ DOMAIN last = 1..(Len(answers[c]) + 1) /\ Len(answers[c]) \in Nat
          /\ DOMAIN answers[c] = 1..Len(answers[c])
          /\ last[Len(answers[c]) + 1] = reply[c]
          /\ \A i \in 1..Len(answers[c]) : last[i] = answers[c][i]
      BY <2>1
    <3> HIDE DEF last
    <3> SUFFICES ASSUME NEW i \in DOMAIN last PROVE last[i] \in Answers(c, last[i].no)
      BY Zenon DEF last
    <3>2. i \in 1..Len(answers[c]) \/ i = Len(answers[c]) + 1
      BY <3>1, SMTT(30)
    <3> QED BY <2>3, <3>1, <3>2, Zenon
  <2>5. (\A i \in DOMAIN answers[c] : answers[c][i] \in Answers(c, answers[c][i].no))'
    BY <1>1, <2>2, <2>4 DEF Answers
  <2>6. session'[c] # "writing"
    BY <2>2
  <2> QED BY <2>5, <2>6, Zenon DEF FromData
<1> QED BY <1>2, <1>3

\* A reply that is made is made of the data.
LEMMA DataRead ==
    ASSUME ReplyTypeOK, SessionTypeOK, NEW c \in Clients, NEW k \in Nat, HandleRead(c, k),
           \A d \in Clients : FromData(d)
    PROVE  \A d \in Clients : FromData(d)'
<1> DEFINE pieces == request[c] \o SubSeq(wire[c], 1, k)
<1>1. /\ died = "no" /\ session[c] = "reading" /\ UNCHANGED <<data, answers>>
      /\ \/ UNCHANGED <<died, session, reply>>
         \/ RequestCallback(c, pieces) /\ session' = [session EXCEPT ![c] = "writing"]
  BY Zenon DEF HandleRead, Handling, lifecycle
<1>2. CASE UNCHANGED <<died, session, reply>>
  BY <1>1, <1>2, DataKept, Zenon
<1>3. CASE /\ session' = [session EXCEPT ![c] = "writing"]
           /\ died' # "no" \/ \E no, answer : /\ answer \in Answers(c, no)
                                              /\ reply' = [reply EXCEPT ![c] = answer]
  <2>1. ASSUME died' # "no", NEW d \in Clients PROVE FromData(d)'
    <3>1. /\ \A i \in DOMAIN answers[d] : answers[d][i] \in Answers(d, answers[d][i].no)
      BY Zenon DEF FromData
    <3>2. (\A i \in DOMAIN answers[d] : answers[d][i] \in Answers(d, answers[d][i].no))'
      BY <1>1, <3>1 DEF Answers
    <3> QED BY <2>1, <3>2, Zenon DEF FromData
  <2>2. ASSUME NEW no, NEW answer \in Answers(c, no), reply' = [reply EXCEPT ![c] = answer],
               NEW d \in Clients
        PROVE  FromData(d)'
    <3>1. CASE d # c
      <4>1. session'[d] = session[d] /\ reply'[d] = reply[d]
        BY <1>3, <2>2, <3>1 DEF ReplyTypeOK, SessionTypeOK
      <4> QED BY <1>1, <4>1, DataKept, Zenon
    <3>2. CASE d = c
      <4>1. reply'[c] = answer /\ answer.no = no
        <5>1. answer.no = no
          BY DEF Answers
        <5>2. reply'[c] = answer
          BY <2>2 DEF ReplyTypeOK
        <5> QED BY <5>1, <5>2
      <4>2. (reply[c] \in Answers(c, reply[c].no))'
        BY <1>1, <4>1, Zenon DEF Answers
      <4>3. \A i \in DOMAIN answers[c] : answers[c][i] \in Answers(c, answers[c][i].no)
        BY Zenon DEF FromData
      <4>4. (\A i \in DOMAIN answers[c] : answers[c][i] \in Answers(c, answers[c][i].no))'
        BY <1>1, <4>3, Zenon DEF Answers
      <4> QED BY <3>2, <4>2, <4>4, Zenon DEF FromData
    <3> QED BY <3>1, <3>2
  <2> QED BY <1>3, <2>1, <2>2, Zenon
<1>4. ASSUME RequestCallback(c, pieces)
      PROVE  died' # "no" \/ \E no, answer : /\ answer \in Answers(c, no)
                                             /\ reply' = [reply EXCEPT ![c] = answer]
  BY <1>4, CallbackCases, Zenon
<1> QED BY <1>1, <1>2, <1>3, <1>4, Zenon

\* While the server is initialised once and the owner has not turned to destroy
\* it, the data is what it was when the first session began.
LEMMA DataStep ==
    Lifecycle /\ SessionTypeOK /\ ReplyTypeOK /\ Rest /\ DataInv /\ [Next]_vars => DataInv'
<1> SUFFICES ASSUME Lifecycle, SessionTypeOK, ReplyTypeOK, Rest, DataInv, [Next]_vars
             PROVE  DataInv'
  OBVIOUS
<1>1. ASSUME starts' = starts, UNCHANGED <<thread, session, answers>> \/ thread # "none",
             owner' \in {"idle", "stopping"} => owner \in {"idle", "stopping"},
             (\A c \in Clients : FromData(c)) => (\A c \in Clients : FromData(c)')
             \/ owner' \notin {"idle", "stopping"}
      PROVE  DataInv'
  <2>1. starts = 0 => Idle /\ thread = "none"
    BY Zenon DEF DataInv, Idle
  <2>2. starts' = 0 => Idle'
    BY <1>1, <2>1, Zenon DEF Idle
  <2>3. starts' = 1 /\ owner' \in {"idle", "stopping"} => \A c \in Clients : FromData(c)'
    BY <1>1, Zenon DEF DataInv
  <2> QED BY <2>2, <2>3, Zenon DEF DataInv
<1>2. ASSUME died' = "no" => died = "no", UNCHANGED <<data, session, reply, answers>>
      PROVE  (\A c \in Clients : FromData(c)) => (\A c \in Clients : FromData(c)')
  BY <1>2, DataKept, Zenon
<1>3. ASSUME NEW appids \in SUBSET Appids, InitServer(appids) PROVE DataInv'
  <2>1. starts' = starts + 1 /\ UNCHANGED <<session, answers>>
    BY <1>3, Zenon DEF InitServer, sessions, history
  <2>2. starts' # 0 /\ (starts' = 1 => starts = 0)
    BY <2>1 DEF Rest, BoundTypeOK
  <2>3. ASSUME starts = 0, NEW c \in Clients PROVE FromData(c)'
    <3>1. session'[c] = "none" /\ answers'[c] = <<>>
      BY <2>1, <2>3, Zenon DEF DataInv, Idle
    <3>2. DOMAIN answers'[c] = {} /\ session'[c] # "writing"
      BY <3>1
    <3> QED BY <3>2, Zenon DEF FromData
  <2> QED BY <2>2, <2>3, Zenon DEF DataInv
<1>4. CASE StartMonitorService \/ CallStop \/ UNCHANGED vars
  <2>1. /\ UNCHANGED <<thread, session, reply, answers, data, starts>>
        /\ died' = "no" => died = "no"
        /\ owner' = owner \/ owner = "idle"
    BY <1>4, Zenon DEF StartMonitorService, CallStop, Stop, OwnerFree, sessions, history,
       bounds, lifecycle, vars
  <2>2. owner' \in {"idle", "stopping"} => owner \in {"idle", "stopping"}
    BY <2>1
  <2> QED BY <1>1, <1>2, <2>1, <2>2, Zenon
<1>5. CASE Join
  <2>1. /\ UNCHANGED <<session, reply, answers, data, starts, died>> /\ thread = "ended"
        /\ owner' = IF owner = "ending" THEN "gone" ELSE "idle"
        /\ owner \in {"stopping", "ending"}
    BY <1>5, Zenon DEF Join, sessions, history, bounds
  <2>2. owner' \in {"idle", "stopping"} => owner \in {"idle", "stopping"}
    BY <2>1
  <2>3. thread # "none"
    BY <2>1
  <2> QED BY <1>1, <1>2, <2>1, <2>2, <2>3, Zenon
<1>6. CASE DestroyProxy \/ DestroyServer
  <2>1. /\ UNCHANGED <<thread, session, answers, starts>>
        /\ owner' \in {"dying", "ending", "gone"}
    <3>1. CASE DestroyProxy
      BY <3>1, Zenon DEF DestroyProxy, sessions, history, bounds
    <3>2. CASE DestroyServer
      BY <3>2, Zenon DEF DestroyServer, Stop, sessions, history, bounds
    <3> QED BY <1>6, <3>1, <3>2
  <2>2. owner' \notin {"idle", "stopping"}
    BY <2>1
  <2> QED BY <1>1, <2>1, <2>2, Zenon
<1>7. CASE CreateServer \/ Run
  <2>1. /\ UNCHANGED <<session, reply, answers, data, starts, owner>> /\ died = "no"
        /\ thread = "spawned" \/ thread = "ready"
    BY <1>7, Zenon DEF CreateServer, Run, sessions, history, bounds
  <2>2. thread # "none"
    BY <2>1
  <2> QED BY <1>1, <1>2, <2>1, <2>2, Zenon
<1>8. CASE RunReturns
  <2>1. /\ UNCHANGED <<answers, data, starts, owner, died>> /\ thread = "running"
    BY <1>8, Zenon DEF RunReturns, history, bounds
  <2>2. thread # "none"
    BY <2>1
  <2>3. ASSUME NEW c \in Clients PROVE session'[c] # "writing"
    BY <1>8 DEF RunReturns, Live
  <2> QED BY <1>1, <2>1, <2>2, <2>3, DataKept, Zenon
<1>9. ASSUME NEW c \in Clients, Handling, UNCHANGED <<starts, owner>>,
             (\A d \in Clients : FromData(d)) => (\A d \in Clients : FromData(d)')
      PROVE  DataInv'
  <2>1. thread # "none"
    BY <1>9 DEF Handling
  <2> QED BY <1>1, <1>9, <2>1, Zenon
<1>10. ASSUME NEW c \in Clients, HandleAccept(c) \/ HandleReadError(c) \/ HandleWriteError(c)
       PROVE  DataInv'
  <2>1. /\ Handling /\ UNCHANGED <<starts, owner, data, answers, died>>
        /\ \/ session' = [session EXCEPT ![c] = "reading"] /\ reply' = reply
           \/ session' = [session EXCEPT ![c] = "deleted"]
              /\ reply' = [reply EXCEPT ![c] = NoReply]
    <3>1. CASE HandleAccept(c)
      BY <3>1, Zenon DEF HandleAccept, lifecycle, history, bounds
    <3>2. CASE HandleReadError(c) \/ HandleWriteError(c)
      BY <3>2, Zenon DEF HandleReadError, HandleWriteError, Deleted, lifecycle, history, bounds
    <3> QED BY <1>10, <3>1, <3>2
  <2>2. ASSUME NEW d \in Clients, session'[d] = "writing"
        PROVE  session[d] = "writing" /\ reply'[d] = reply[d]
    BY <2>1, <2>2 DEF SessionTypeOK, ReplyTypeOK
  <2> QED BY <1>9, <2>1, <2>2, DataKept, Zenon
<1>11. ASSUME NEW c \in Clients, NEW k \in Nat, HandleRead(c, k) PROVE DataInv'
  <2>1. Handling /\ UNCHANGED <<starts, owner>>
    BY <1>11, Zenon DEF HandleRead, lifecycle, bounds
  <2> QED BY <1>9, <1>11, <2>1, DataRead, Zenon
<1>12. ASSUME NEW c \in Clients, HandleWrite(c) PROVE DataInv'
  <2>1. Handling /\ UNCHANGED <<starts, owner>>
    BY <1>12, Zenon DEF HandleWrite, lifecycle, bounds
  <2> QED BY <1>9, <1>12, <2>1, DataWrite, Zenon
<1>13. ASSUME NEW c \in Clients,
              Connect(c) \/ Send(c) \/ \E how \in {"eof", "reset", "error"} : Leave(c, how)
       PROVE  DataInv'
  <2>1. UNCHANGED <<thread, session, reply, answers, data, starts, owner, died>>
    BY <1>13, Zenon DEF Connect, Send, Leave, sessions, history, bounds, lifecycle
  <2> QED BY <1>1, <1>2, <2>1, Zenon
<1>14. ASSUME NEW c \in Clients, NEW k \in 1..(2 * MaxRequests[c]) PROVE k \in Nat
  BY BoundsAssumption
<1> QED BY <1>3, <1>4, <1>5, <1>6, <1>7, <1>8, <1>10, <1>11, <1>12, <1>13, <1>14,
           NextCases, Zenon

-----------------------------------------------------------------------------
(* What the server promises (module TcpDialogue).                          *)

\* The numbers of the answers of one connection.
Numbers(c) == [i \in DOMAIN answers[c] |-> answers[c][i].no]

LEMMA NumbersOf ==
    ASSUME ReplyTypeOK, NEW c \in Clients
    PROVE  /\ Numbers(c) \in Seq(Nat) /\ Len(Numbers(c)) = Len(answers[c])
           /\ LastAnswered(c) =
                IF Numbers(c) = <<>> THEN 0 ELSE Numbers(c)[Len(Numbers(c))]
<1>1. answers[c] \in Seq(Reply)
  BY DEF ReplyTypeOK
<1> DEFINE s == answers[c]
<1>2. Len(s) \in Nat /\ DOMAIN s = 1..Len(s) /\ \A i \in 1..Len(s) : s[i] \in Reply
  BY <1>1
<1>3. (s = <<>>) = (Len(s) = 0)
  BY <1>1
<1> HIDE DEF s
<1>4. \A i \in 1..Len(s) : s[i].no \in Nat
  BY <1>2 DEF Reply
<1>5. [i \in 1..Len(s) |-> s[i].no] \in Seq(Nat)
  BY <1>2, <1>4
<1>6. Numbers(c) = [i \in 1..Len(s) |-> s[i].no]
  BY <1>2 DEF Numbers, s
<1>7. Len(Numbers(c)) = Len(s)
  BY <1>2, <1>6
<1>8. (Numbers(c) = <<>>) = (Len(s) = 0)
  BY <1>5, <1>6, <1>7
<1>9. Len(s) # 0 => Numbers(c)[Len(s)] = s[Len(s)].no
  BY <1>2, <1>6
<1> QED BY <1>3, <1>5, <1>6, <1>7, <1>8, <1>9 DEF LastAnswered, s

\* One more answer.
LEMMA NumberAppended ==
    ASSUME NEW s \in Seq(Reply), NEW r \in Reply
    PROVE  [i \in DOMAIN Append(s, r) |-> Append(s, r)[i].no]
             = Append([i \in DOMAIN s |-> s[i].no], r.no)
<1> DEFINE n == [i \in DOMAIN s |-> s[i].no]
           m == Append(s, r)
           a == [i \in DOMAIN m |-> m[i].no]
           b == Append(n, r.no)
<1>1. Len(s) \in Nat /\ DOMAIN s = 1..Len(s) /\ \A i \in 1..Len(s) : s[i].no \in Nat
  <2>1. Len(s) \in Nat /\ DOMAIN s = 1..Len(s) /\ \A i \in 1..Len(s) : s[i] \in Reply
    OBVIOUS
  <2>2. \A x \in Reply : x.no \in Nat
    BY DEF Reply
  <2> QED BY <2>1, <2>2, Zenon
<1>2. n = [i \in 1..Len(s) |-> s[i].no]
  BY <1>1
<1>3. n \in Seq(Nat) /\ Len(n) = Len(s) /\ \A i \in 1..Len(s) : n[i] = s[i].no
  BY <1>1, <1>2
<1>4. Len(m) = Len(s) + 1 /\ DOMAIN m = 1..(Len(s) + 1) /\ m[Len(s) + 1] = r
  BY <1>1
<1>5. \A i \in 1..Len(s) : m[i] = s[i]
  BY <1>1
<1>6. r.no \in Nat
  BY DEF Reply
<1> HIDE DEF m, n
<1>7. b \in Seq(Nat) /\ DOMAIN b = 1..(Len(s) + 1) /\ b[Len(s) + 1] = r.no
  BY <1>1, <1>3, <1>6
<1>8. \A i \in 1..Len(s) : b[i] = n[i]
  BY <1>1, <1>3, <1>6
<1> HIDE DEF b
<1>9. ASSUME NEW i \in 1..(Len(s) + 1) PROVE m[i].no = b[i]
  <2>1. CASE i = Len(s) + 1
    BY <1>4, <1>7, <2>1
  <2>2. CASE i # Len(s) + 1
    <3>1. i \in 1..Len(s)
      BY <1>1, <2>2
    <3>2. m[i] = s[i] /\ b[i] = n[i] /\ n[i] = s[i].no
      BY <1>3, <1>5, <1>8, <3>1
    <3> QED BY <3>2
  <2> QED BY <2>1, <2>2
<1>10. a = [i \in 1..(Len(s) + 1) |-> b[i]]
  BY <1>4, <1>9
<1>11. b = [i \in 1..(Len(s) + 1) |-> b[i]]
  BY <1>7
<1> QED BY <1>10, <1>11 DEF b, m, n

LEMMA DialogueInit == Init => Dialogue!Init
<1> SUFFICES ASSUME Init PROVE Dialogue!Init
  OBVIOUS
<1>1. /\ sent = [c \in Clients |-> 0] /\ answers = [c \in Clients |-> <<>>]
      /\ split = {}
  BY DEF Init
<1>2. \A c \in Clients : [i \in DOMAIN answers[c] |-> answers[c][i].no] = <<>>
  BY <1>1
<1>3. AnsweredWhole = [c \in Clients |-> <<>>]
  BY <1>1, <1>2 DEF AnsweredWhole
<1>4. Clients \ split = Clients
  BY <1>1
<1> QED BY <1>1, <1>3, <1>4, Zenon DEF Dialogue!Init

\* A connection that comes apart.
LEMMA DialogueSplits ==
    ASSUME NEW c \in Clients, split' = split \cup {c}, UNCHANGED <<sent, answers>>
    PROVE  Dialogue!ComeApart(c)
<1>1. (Clients \ split)' = (Clients \ split) \ {c}
  OBVIOUS
<1>2. AnsweredWhole' = [AnsweredWhole EXCEPT ![c] = <<>>]
  BY DEF AnsweredWhole
<1> QED BY <1>1, <1>2 DEF Dialogue!ComeApart

LEMMA DialogueWrites ==
    ASSUME SessionTypeOK, ReplyTypeOK, OrderInv, NEW c \in Clients, HandleWrite(c)
    PROVE  [Dialogue!Next]_(Dialogue!dialogueVars)
<1>1. /\ session[c] = "writing" /\ link[c] \in {"open", "eof"} /\ died = "no"
      /\ answers' = [answers EXCEPT ![c] = Append(@, reply[c])]
      /\ UNCHANGED <<sent, split>>
  BY DEF HandleWrite, Handling
<1>2. reply[c] \in Reply /\ answers[c] \in Seq(Reply) /\ reply[c].no \in Nat
      /\ sent[c] \in Nat /\ LastAnswered(c) \in Nat
  BY TypesOf
<1>3. answers = [d \in Clients |-> answers[d]]
  BY DEF ReplyTypeOK
<1>4. CASE c \in split
  <2>1. AnsweredWhole' = AnsweredWhole
    BY <1>1, <1>3, <1>4 DEF AnsweredWhole
  <2> QED BY <1>1, <2>1 DEF Dialogue!dialogueVars
<1>5. CASE c \notin split
  <2>1. Stream(c)
    BY <1>1, <1>5, Zenon DEF OrderInv, InOrder, Served
  <2>2. LastAnswered(c) < reply[c].no /\ reply[c].no <= sent[c]
    <3>1. Len(Unread(c)) \in Nat
      BY TypesOf
    <3>2. Len(Unread(c)) = 2 * (sent[c] - reply[c].no) /\ LastAnswered(c) < reply[c].no
      BY <1>1, <2>1 DEF Stream, HandedOver
    <3> QED BY <1>2, <3>1, <3>2
  <2>3. AnsweredWhole[c] = Numbers(c)
    BY <1>5 DEF AnsweredWhole, Numbers
  <2>4. Dialogue!Newest(c) = LastAnswered(c)
    BY <2>3, NumbersOf, Zenon DEF Dialogue!Newest
  <2>5. Numbers(c)' = Append(Numbers(c), reply[c].no)
    <3>1. answers'[c] = Append(answers[c], reply[c])
      BY <1>1, <1>3
    <3>2. Numbers(c)' = [i \in DOMAIN Append(answers[c], reply[c])
                           |-> Append(answers[c], reply[c])[i].no]
      BY <3>1, Zenon DEF Numbers
    <3> QED BY <1>2, <3>2, NumberAppended, Zenon DEF Numbers
  <2>6. AnsweredWhole' = [AnsweredWhole EXCEPT ![c] = Append(@, reply[c].no)]
    <3> DEFINE W(d) == IF d \in split THEN <<>> ELSE Numbers(d)
    <3>1. AnsweredWhole = [d \in Clients |-> W(d)]
      BY Zenon DEF AnsweredWhole, Numbers
    <3>2. AnsweredWhole' = [d \in Clients |-> IF d \in split THEN <<>> ELSE Numbers(d)']
      BY <1>1 DEF AnsweredWhole, Numbers
    <3>3. \A d \in Clients : d # c => answers'[d] = answers[d]
      BY <1>1, <1>3
    <3>4. \A d \in Clients : d # c => Numbers(d)' = Numbers(d)
      BY <3>3, Zenon DEF Numbers
    <3>5. W(c) = Numbers(c)
      BY <1>5
    <3> HIDE DEF W
    <3>6. \A d \in Clients : (IF d \in split THEN <<>> ELSE Numbers(d)')
                               = IF d = c THEN Append(W(c), reply[c].no) ELSE W(d)
      BY <1>5, <2>5, <3>4, <3>5, Zenon DEF W
    <3>7. AnsweredWhole' = [d \in Clients |-> IF d = c THEN Append(W(c), reply[c].no) ELSE W(d)]
      BY <3>2, <3>6, Zenon
    <3> QED BY <3>1, <3>7
  <2>7. Dialogue!Answer(c, reply[c].no)
    BY <1>1, <1>5, <2>2, <2>4, <2>6 DEF Dialogue!Answer
  <2>8. reply[c].no \in 1..sent[c]
    BY <1>2, <2>2
  <2> QED BY <2>7, <2>8, Zenon DEF Dialogue!Next
<1> QED BY <1>4, <1>5

LEMMA DialogueStep ==
    ASSUME SessionTypeOK, ReplyTypeOK, OrderInv, [Next]_vars
    PROVE  [Dialogue!Next]_(Dialogue!dialogueVars)
<1> DEFINE Goal == [Dialogue!Next]_(Dialogue!dialogueVars)
<1>1. ASSUME UNCHANGED <<sent, answers, split>> PROVE Goal
  BY <1>1 DEF Dialogue!dialogueVars, AnsweredWhole
<1>2. ASSUME NEW c \in Clients, Send(c) PROVE Goal
  <2>1. sent' = [sent EXCEPT ![c] = @ + 1] /\ UNCHANGED <<answers, split>>
    BY <1>2 DEF Send
  <2>2. AnsweredWhole' = AnsweredWhole
    BY <2>1 DEF AnsweredWhole
  <2>3. Dialogue!Ask(c)
    BY <2>1, <2>2 DEF Dialogue!Ask
  <2> QED BY <2>3, Zenon DEF Dialogue!Next
<1>3. ASSUME NEW c \in Clients, NEW k, HandleRead(c, k) PROVE Goal
  <2>1. UNCHANGED <<sent, answers>> /\ (split' = split \/ split' = split \cup {c})
    BY <1>3 DEF HandleRead
  <2>2. CASE split' = split
    BY <1>1, <2>1, <2>2
  <2>3. CASE split' = split \cup {c}
    <3>1. Dialogue!ComeApart(c)
      BY <2>1, <2>3, DialogueSplits
    <3> QED BY <3>1, Zenon DEF Dialogue!Next
  <2> QED BY <2>1, <2>2, <2>3
<1>4. ASSUME NEW c \in Clients, HandleWrite(c) PROVE Goal
  BY <1>4, DialogueWrites, Zenon
<1>5. ASSUME UNCHANGED vars PROVE Goal
  BY <1>1, <1>5 DEF vars, history
<1>6. ASSUME NEW appids, InitServer(appids) PROVE Goal
  BY <1>1, <1>6 DEF InitServer, history
<1>7. ASSUME \/ StartMonitorService \/ CallStop \/ Join \/ DestroyProxy \/ DestroyServer
             \/ CreateServer \/ Run \/ RunReturns
      PROVE  Goal
  <2>1. UNCHANGED history
    BY Zenon, <1>7 DEF StartMonitorService, CallStop, Stop, Join, DestroyProxy,
       DestroyServer, CreateServer, Run, RunReturns
  <2> QED BY <1>1, <2>1 DEF history
<1>8. ASSUME NEW c \in Clients,
             HandleAccept(c) \/ HandleReadError(c) \/ HandleWriteError(c) \/ Connect(c)
      PROVE  Goal
  <2>1. UNCHANGED history
    BY Zenon, <1>8 DEF HandleAccept, HandleReadError, HandleWriteError, Connect
  <2> QED BY <1>1, <2>1 DEF history
<1>9. ASSUME NEW c \in Clients, NEW how, Leave(c, how) PROVE Goal
  <2>1. UNCHANGED history
    BY Zenon, <1>9 DEF Leave
  <2> QED BY <1>1, <2>1 DEF history
<1> HIDE DEF Goal
<1>10. ASSUME Next PROVE Goal
  BY Zenon, <1>2, <1>3, <1>4, <1>6, <1>7, <1>8, <1>9, <1>10, NextCases
<1>11. Goal
  BY <1>5, <1>10
<1> QED BY <1>11, Zenon DEF Goal

-----------------------------------------------------------------------------
(* The theorems.                                                           *)

IInv ==
    /\ Lifecycle /\ SessionTypeOK /\ ReplyTypeOK /\ Counting /\ Rest
    /\ OrderInv /\ DataInv

LEMMA Inductive == Spec => []IInv
<1>1. Init => IInv
  BY InitLifecycle, SessionTypeInit, ReplyTypeInit, CountingInit, RestInit,
     OrderInit, DataInit DEF IInv
<1>2. IInv /\ [Next]_vars => IInv'
  BY LifecycleStep, SessionTypeStep, ReplyTypeStep, CountingStep, RestStep,
     OrderStep, DataStep DEF IInv
<1> QED BY <1>1, <1>2, PTL DEF Spec

\* Every variable of the server keeps its type: in particular connect_cnt_ is
\* never negative, whatever ends the sessions.
THEOREM ServerTypeCorrect == Spec => []TypeOK
<1>1. IInv => TypeOK
  BY TypeParts DEF IInv, Lifecycle, Counting, Rest
<1> QED BY <1>1, Inductive, PTL

\* connect_cnt_ is never less than the number of sessions that live: whatever
\* ended other sessions, IsConnected does not deny a connection.
THEOREM ConnectionsAreCounted == Spec => []ConnectionsCounted
<1>1. IInv => ConnectionsCounted
  BY DEF IInv, Counting
<1> QED BY <1>1, Inductive, PTL

\* While no request of a connection is handed over in parts, its requests are
\* answered in the order they were sent, each at most once, and with what the
\* server has; a client that waits for each answer is answered one to one.
THEOREM AnswersComeInOrder == Spec => []AnswersInOrder
<1>1. IInv => AnswersInOrder
  <2> SUFFICES ASSUME IInv, NEW c \in Clients \ split, NEW i \in DOMAIN answers[c]
               PROVE  /\ answers[c][i].no \in i..sent[c]
                      /\ i > 1 => answers[c][i - 1].no < answers[c][i].no
                      /\ c \notin crowded => answers[c][i].no = i
                      /\ starts = 1 /\ owner \in {"idle", "stopping"}
                           => answers[c][i] \in Answers(c, answers[c][i].no)
    BY Zenon DEF AnswersInOrder
  <2>1. Ordered(c)
    BY Zenon DEF IInv, OrderInv, InOrder
  <2>2. starts = 1 /\ owner \in {"idle", "stopping"} => FromData(c)
    BY Zenon DEF IInv, DataInv
  <2> QED BY <2>1, <2>2, Zenon DEF Ordered, FromData
<1> QED BY <1>1, Inductive, PTL

\* The server implements TcpDialogue: every step asks, answers a later request
\* than any answered before, gives up a connection whose requests came apart, or
\* changes nothing a client can see.
THEOREM ImplementsDialogue == Spec => DialogueSpec
<1>1. IInv /\ [Next]_vars => [Dialogue!Next]_(Dialogue!dialogueVars)
  BY DialogueStep DEF IInv
<1> QED BY <1>1, DialogueInit, Inductive, PTL DEF Spec, DialogueSpec, Dialogue!Spec

=============================================================================

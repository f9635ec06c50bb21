--------------------------- MODULE ParamServer_proofs ---------------------------
(***************************************************************************)
(* Theorems about ParamServer for any number of remote callers and any     *)
(* instance of the configuration client.  They use the step lemmas of      *)
(* ConfigClient_proofs, not its theorems: a call that reaches a deleted    *)
(* service may end the process, which is no step of the client alone.      *)
(***************************************************************************)
EXTENDS ParamServer, ConfigClient_proofs

USE NumNsAssumption, PropertiesAssumption, ReleaseKeysAssumption,
    BudgetAssumption, StopBeforeInitAssumption, BoundAssumption
    DEF Ns, Versions, Threads, Unlisted, Absent, Blank, Up

\* The step the client knows nothing of.
Crash ==
    /\ proc' = "terminated"
    /\ UNCHANGED <<server, poll, notifyId, container, flags, reconnect, mutex,
                   pc, work, faults, inits, history>>

\* A call is for a key of a namespace.
AskedFor ==
    \A c \in Callers :
        handler[c].at # "none" => handler[c].ns \in Ns /\ handler[c].key \in Keys

\* A client that is in an update is one whose init the owner is in, and one that
\* is being destroyed belongs to an owner that is done.
OwnerInv ==
    /\ pc["user"] \in {"fetch", "lock", "store", "wipe", "spawn"} => srv = "client"
    /\ pc["user"] \in {"destroy", "gone"} => srv = "gone"
    /\ pc["user"] # "join"
    /\ srv = "gone" => \A c \in Callers : handler[c].at = "none"

\* Whatever the owner and the remote callers do is a step of the client, or the
\* crash.
LEMMA ClientSteps ==
    ASSUME AskedFor, [PNext]_pvars
    PROVE  [Next]_vars \/ Crash
<1>1. CASE UNCHANGED pvars
  BY <1>1 DEF pvars
<1>2. CASE BeginInit \/ DestroyClient \/ JoinClient \/ ClientStarts
  BY <1>2 DEF BeginInit, DestroyClient, JoinClient, ClientStarts, Next, UserThread
<1>3. CASE InitClient
  BY <1>3 DEF InitClient, Next, UserThread
<1>4. CASE InitImp \/ DeleteService \/ StopServer
  BY <1>4 DEF InitImp, DeleteService, StopServer
<1>5. ASSUME NEW c \in Callers, Enter(c)
      PROVE  [Next]_vars \/ Crash
  BY <1>5 DEF Enter, Crash
<1>6. ASSUME NEW c \in Callers, Look(c)
      PROVE  Next
  <2>1. /\ Get(handler[c].ns, handler[c].key)
        /\ handler[c].ns \in Ns /\ handler[c].key \in Keys
    BY <1>6 DEF Look, AskedFor
  <2>2. Readers
    BY <2>1 DEF Readers
  <2> QED
    BY <2>2 DEF Next
<1>7. ASSUME NEW c \in Callers, LookRace(c)
      PROVE  Next
  BY <1>7 DEF LookRace, Next, Readers
<1>8. ASSUME NEW c \in Callers, Reply(c)
      PROVE  UNCHANGED vars
  BY <1>8 DEF Reply
<1>9. CASE Below
  BY <1>9 DEF Below, Next
<1> QED
  BY <1>1, <1>2, <1>3, <1>4, <1>5, <1>6, <1>7, <1>8, <1>9 DEF PNext, Serve

LEMMA CrashKeepsTypes ==
    ASSUME TypeInv, Crash
    PROVE  TypeInv'
<1> USE DEF Crash, TypeInv, TypeOK, server, poll, flags, work, history
<1>1. IdsTypeOK'
  BY DEF IdsTypeOK
<1>2. StoreTypeOK'
  BY DEF StoreTypeOK
<1>3. ThreadsTypeOK'
  BY DEF ThreadsTypeOK
<1>4. FlagsTypeOK'
  BY DEF FlagsTypeOK
<1>5. AtANamespace'
  BY DEF AtANamespace
<1> QED
  BY <1>1, <1>2, <1>3, <1>4, <1>5

LEMMA TypesStay ==
    ASSUME TypeInv, AskedFor, [PNext]_pvars
    PROVE  TypeInv'
  BY ClientSteps, TypeInvStep, CrashKeepsTypes

\* What the steps of the client do to the caller's thread.
LEMMA BackThreadLeavesUser ==
    ASSUME TypeInv, BackThread \/ \E ns \in Ns : Publish(ns)
    PROVE  pc'["user"] = pc["user"]
<1> USE DEF TypeInv, TypeOK, ThreadsTypeOK, Goto, server, poll, flags, work, history
<1>1. CASE \E ns \in Ns : Publish(ns)
  BY <1>1 DEF Publish
<1>2. CASE SendPoll \/ LeaveLoop \/ ServerAnswers \/ ReadReply
  BY <1>2 DEF SendPoll, LeaveLoop, ServerAnswers, ReadReply
<1>3. CASE UnreadableReply \/ NotModified \/ PollFails
  BY <1>3 DEF UnreadableReply, NotModified, PollFails, Reconnect
<1>4. CASE Update("back")
  BY <1>4 DEF Update, Fetch, FetchNothing, LockContainer, Malformed, StoreKey,
              UnlockContainer, FetchProperties, Wipe, UpdateDone, NextNs
<1> QED
  BY <1>1, <1>2, <1>3, <1>4 DEF BackThread

LEMMA UpdateMovesUser ==
    ASSUME TypeInv, Update("user")
    PROVE  pc'["user"] \in {"fetch", "lock", "store", "wipe", "spawn", "idle"}
<1> USE DEF TypeInv, TypeOK, ThreadsTypeOK, Goto, server, poll, flags, work, history
<1>1. CASE \E k \in Keys : StoreKey("user", k)
  BY <1>1 DEF StoreKey
<1>2. CASE Malformed("user")
  BY <1>2 DEF Malformed
<1> QED
  BY <1>1, <1>2 DEF Update, Fetch, FetchNothing, LockContainer,
              UnlockContainer, FetchProperties, Wipe, UpdateDone, NextNs

-----------------------------------------------------------------------------
(* Who may be where.                                                       *)

LEMMA OwnerStep ==
    ASSUME TypeInv, ServerTypeOK, OwnerInv, [PNext]_pvars
    PROVE  OwnerInv'
<1> USE DEF OwnerInv, svars
<1>0. pc \in [Threads -> Points]
  BY DEF TypeInv, TypeOK, ThreadsTypeOK
<1>1. CASE UNCHANGED pvars
  BY <1>1 DEF pvars, vars
<1>2. CASE BeginInit
  BY <1>0, <1>2 DEF BeginInit, CallInit, Goto
<1>3. CASE InitClient
  <2>1. pc'["user"] \in {"fetch", "lock", "store", "wipe", "spawn", "idle"}
    BY <1>3, UpdateMovesUser DEF InitClient
  <2>2. srv = "client" /\ srv' \in {"client", "new", "up"}
    BY <1>3 DEF InitClient
  <2>3. pc'["user"] # "idle" => srv' = "client"
    BY <1>3, <2>2 DEF InitClient
  <2> QED
    BY <2>1, <2>2, <2>3
<1>4. CASE ClientStarts
  BY <1>0, <1>4 DEF ClientStarts, Spawn, Goto
<1>5. CASE InitImp \/ DeleteService \/ StopServer
  BY <1>5 DEF InitImp, DeleteService, StopServer, vars
<1>6. CASE DestroyClient
  BY <1>0, <1>6 DEF DestroyClient, CallDestroy, Goto
<1>7. CASE JoinClient
  BY <1>0, <1>7 DEF JoinClient, Join
<1>8. ASSUME NEW c \in Callers, Enter(c)
      PROVE  OwnerInv'
  <2>1. srv # "gone" /\ srv' = srv
    BY <1>8 DEF Enter, ServerTypeOK
  <2>2. pc' = pc
    BY <1>8 DEF Enter, vars
  <2> QED
    BY <2>1, <2>2
<1>9. ASSUME NEW c \in Callers, Serve(c)
      PROVE  OwnerInv'
  <2>1. srv' = srv /\ srv # "gone"
    BY <1>9 DEF Serve, Look, LookRace, Reply
  <2>2. pc' = pc
    BY <1>9 DEF Serve, Look, LookRace, Reply, Get, GetRace, vars
  <2> QED
    BY <2>1, <2>2
<1>10. CASE Below
  <2>1. pc'["user"] = pc["user"]
    BY <1>10, BackThreadLeavesUser DEF Below
  <2> QED
    BY <1>10, <2>1 DEF Below
<1> QED
  BY <1>1, <1>2, <1>3, <1>4, <1>5, <1>6, <1>7, <1>8, <1>9, <1>10 DEF PNext

Call == [at : {"none", "inside", "looked"}, ns : Ns, key : Keys \cup {Absent},
         answer : Versions \cup {Blank}, floor : Versions \cup {Blank}]

LEMMA LookedIsCall ==
    ASSUME NEW h \in Call, NEW v \in Versions \cup {Blank}
    PROVE  [h EXCEPT !.at = "looked", !.answer = v] \in Call
<1>1. [h EXCEPT !.at = "looked"] \in Call
  BY DEF Call
<1> DEFINE g == [h EXCEPT !.at = "looked"]
<1>2. [g EXCEPT !.answer = v] \in Call
  BY <1>1 DEF Call
<1> QED
  BY <1>2 DEF Call

\* What a remote call, and the record of what was answered, may become.
LEMMA CallsStep ==
    ASSUME TypeInv, ServerTypeOK, AskedFor, [PNext]_pvars
    PROVE  /\ CallsTypeOK' /\ AskedFor'
           /\ shown' \in [Ns -> [Keys -> Versions \cup {Blank}]]
<1>0. /\ handler \in [Callers -> Call]
      /\ shown \in [Ns -> [Keys -> Versions \cup {Blank}]]
  BY DEF ServerTypeOK, CallsTypeOK, Call
<1>00. container \in [Ns -> [Keys -> Versions \cup {Absent, Blank}]]
  BY DEF TypeInv, TypeOK, StoreTypeOK
<1>1. CASE UNCHANGED <<handler, shown>>
  BY <1>0, <1>1 DEF CallsTypeOK, AskedFor, Call
<1>2. ASSUME NEW c \in Callers, Enter(c), ~UNCHANGED handler
      PROVE  /\ CallsTypeOK' /\ AskedFor' /\ UNCHANGED shown
  <2>1. PICK ns \in Ns, k \in Keys :
            handler' = [handler EXCEPT ![c] =
                          [at |-> "inside", ns |-> ns, key |-> k, answer |-> Blank,
                           floor |-> shown[ns][k]]]
    BY <1>2 DEF Enter
  <2> DEFINE h == [at |-> "inside", ns |-> ns, key |-> k, answer |-> Blank,
                   floor |-> shown[ns][k]]
  <2>2. h \in Call
    BY <1>0 DEF Call
  <2> HIDE DEF h
  <2>3. handler' \in [Callers -> Call]
    BY <1>0, <2>1, <2>2 DEF h
  <2>4. AskedFor'
    BY <1>0, <2>1 DEF AskedFor
  <2> QED
    BY <1>2, <2>3, <2>4 DEF Enter, CallsTypeOK, Call
<1>3. ASSUME NEW c \in Callers, Look(c)
      PROVE  /\ CallsTypeOK' /\ AskedFor' /\ UNCHANGED shown
  <2> DEFINE v == Looked(container[handler[c].ns][handler[c].key])
  <2>1. /\ handler[c].ns \in Ns /\ handler[c].key \in Keys
        /\ handler' = [handler EXCEPT ![c].at = "looked", ![c].answer = v]
    BY <1>3 DEF Look, AskedFor
  <2>2. v \in Versions \cup {Blank}
    BY <1>00, <2>1 DEF Looked
  <2> HIDE DEF v
  <2>3. [handler[c] EXCEPT !.at = "looked", !.answer = v] \in Call
    <3>1. handler[c] \in Call
      BY <1>0
    <3> QED
      BY <2>2, <3>1, LookedIsCall
  <2>4. handler' \in [Callers -> Call]
    BY <1>0, <2>1, <2>3
  <2>5. AskedFor'
    BY <1>0, <2>1 DEF AskedFor, Call
  <2> QED
    BY <1>3, <2>4, <2>5 DEF Look, CallsTypeOK, Call
<1>4. ASSUME NEW c \in Callers, Reply(c)
      PROVE  /\ CallsTypeOK' /\ AskedFor'
             /\ shown' \in [Ns -> [Keys -> Versions \cup {Blank}]]
  <2>1. /\ handler[c].ns \in Ns /\ handler[c].key \in Keys
        /\ handler[c].answer \in Versions \cup {Blank}
    BY <1>0, <1>4 DEF Reply, AskedFor, Call
  <2>2. Newest(shown[handler[c].ns][handler[c].key], handler[c].answer)
          \in Versions \cup {Blank}
    BY <1>0, <2>1 DEF Newest
  <2>3. shown' \in [Ns -> [Keys -> Versions \cup {Blank}]]
    BY <1>0, <1>4, <2>1, <2>2 DEF Reply
  <2>4. NoCall \in Call
    BY DEF NoCall, Call
  <2>5. handler' \in [Callers -> Call]
    BY <1>0, <1>4, <2>4 DEF Reply
  <2>6. AskedFor'
    BY <1>0, <1>4 DEF Reply, AskedFor, NoCall
  <2> QED
    BY <2>3, <2>5, <2>6 DEF CallsTypeOK, Call
<1>5. \/ UNCHANGED <<handler, shown>>
      \/ \E c \in Callers : (Enter(c) /\ ~UNCHANGED handler) \/ Look(c) \/ Reply(c)
  BY DEF PNext, pvars, BeginInit, InitClient, ClientStarts, InitImp, DeleteService,
         StopServer, DestroyClient, JoinClient, Serve, LookRace, Below, Enter
<1> QED
  BY <1>0, <1>1, <1>2, <1>3, <1>4, <1>5

LEMMA ServerTypeStep ==
    ASSUME TypeInv, ServerTypeOK, AskedFor, OwnerInv, [PNext]_pvars
    PROVE  ServerTypeOK'
<1>1. /\ CallsTypeOK'
      /\ shown' \in [Ns -> [Keys -> Versions \cup {Blank}]]
  BY CallsStep
<1>2. /\ srv' \in {"new", "client", "start", "up", "deleted", "stopping", "gone"}
      /\ service' \in {"none", "live", "deleted"}
      /\ listening' \in BOOLEAN
      /\ listening' => service' # "none" /\ srv' \notin {"stopping", "gone"}
  <2> USE DEF ServerTypeOK, svars
  <2>1. CASE BeginInit \/ DeleteService
    BY <2>1 DEF BeginInit, DeleteService
  <2>2. CASE InitClient \/ ClientStarts
    BY <2>2 DEF InitClient, ClientStarts
  <2>3. CASE InitImp
    BY <2>3 DEF InitImp
  <2>6. CASE StopServer
    BY <2>6 DEF StopServer
  <2>7. CASE DestroyClient
    <3>1. ~listening
      BY <2>7 DEF DestroyClient
    <3>2. /\ srv' = "gone" /\ service' = service /\ listening' = listening
      BY <2>7 DEF DestroyClient
    <3> QED
      BY <3>1, <3>2
  <2>4. CASE UNCHANGED svars
    BY <2>4
  <2>5. BeginInit \/ DeleteService \/ InitClient \/ ClientStarts \/ InitImp
          \/ StopServer \/ DestroyClient \/ UNCHANGED svars
    BY DEF PNext, pvars, JoinClient, Serve, Enter, Look, LookRace, Reply, Below
  <2> QED
    BY <2>1, <2>2, <2>3, <2>4, <2>5, <2>6, <2>7
<1> QED
  BY <1>1, <1>2 DEF ServerTypeOK

PInv == TypeInv /\ ServerTypeOK /\ AskedFor /\ OwnerInv

LEMMA PInvInit == PInit => PInv
<1> SUFFICES ASSUME PInit PROVE PInv
  OBVIOUS
<1>1. TypeInv
  BY TypeInvInit DEF PInit
<1>2. AskedFor /\ OwnerInv
  BY DEF PInit, Init, NoCall, AskedFor, OwnerInv
<1>3. NoCall \in Call
  BY DEF NoCall, Call
<1>4. handler \in [Callers -> Call]
  BY <1>3 DEF PInit
<1>5. ServerTypeOK
  BY <1>4 DEF PInit, ServerTypeOK, CallsTypeOK, Call
<1> QED
  BY <1>1, <1>2, <1>5 DEF PInv

LEMMA PInvStep == PInv /\ [PNext]_pvars => PInv'
  BY TypesStay, ServerTypeStep, CallsStep, OwnerStep DEF PInv

\* Every variable of the parameter server keeps its type; nobody listens once
\* the server is stopped, nor before there is a service.
THEOREM ParamServerTypeCorrect == PSpec => []ServerTypeOK
<1>1. PInv => ServerTypeOK
  BY DEF PInv
<1> QED
  BY <1>1, PInvInit, PInvStep, PTL DEF PSpec

\* For any number of remote callers none is inside the client when its
\* destructor begins, or after (~srpcServer_ and ~Base_Server).
THEOREM CallsEndFirst == PSpec => []ClientOutlivesCalls
<1>1. PInv => ClientOutlivesCalls
  BY DEF PInv, OwnerInv, ClientOutlivesCalls
<1> QED
  BY <1>1, PInvInit, PInvStep, PTL DEF PSpec

-----------------------------------------------------------------------------
(* Answers move forward.                                                   *)

Updating == {"fetch", "lock", "store", "wipe", "spawn"}

\* Before the first init neither thread is at work.
FirstInit ==
    pc["user"] \in Updating \/ pc["back"] # "none" => inits >= 1

LEMMA FirstInitStep ==
    ASSUME TypeInv, FirstInit, [Next]_vars \/ Crash
    PROVE  FirstInit' /\ inits' >= inits
<1> USE DEF FirstInit, Updating, server, poll, flags, work, history, Goto
<1>0. pc \in [Threads -> Points] /\ inits \in Nat
  BY DEF TypeInv, TypeOK, ThreadsTypeOK, FlagsTypeOK
<1>1. CASE UNCHANGED <<pc, inits>>
  BY <1>0, <1>1
<1>2. CASE CallInit
  BY <1>0, <1>2 DEF CallInit
<1>3. CASE Spawn
  BY <1>0, <1>3 DEF Spawn, Joinable
<1>4. CASE CallStop \/ CallDestroy \/ Join
  BY <1>0, <1>4 DEF CallStop, CallDestroy, Join
<1>5. ASSUME NEW t \in Threads, pc[t] # "none", pc[t] # "idle",
             pc[t] \in Updating \/ t = "back",
             NEW p, pc' = [pc EXCEPT ![t] = p], inits' = inits
      PROVE  FirstInit' /\ inits' >= inits
  <2>1. inits >= 1
    BY <1>5
  <2> QED
    BY <1>0, <1>5, <2>1
<1>6. ASSUME NEW t \in Threads,
             \/ Fetch(t) \/ FetchNothing(t) \/ LockContainer(t)
             \/ UnlockContainer(t) \/ FetchProperties(t) \/ Wipe(t) \/ UpdateDone(t)
      PROVE  FirstInit' /\ inits' >= inits
  <2>1. pc[t] \in Updating
    BY <1>6 DEF Fetch, FetchNothing, LockContainer, UnlockContainer,
                FetchProperties, Wipe, UpdateDone, AtNs
  <2>2. inits' = inits /\ \E p : pc' = [pc EXCEPT ![t] = p]
    BY <1>6 DEF Fetch, FetchNothing, LockContainer, UnlockContainer,
                FetchProperties, Wipe, UpdateDone, NextNs
  <2> QED
    BY <1>5, <2>1, <2>2
<1>7. ASSUME NEW t \in Threads, Malformed(t)
      PROVE  FirstInit' /\ inits' >= inits
  BY <1>0, <1>7 DEF Malformed
<1>8. CASE SendPoll \/ LeaveLoop \/ ServerAnswers \/ ReadReply \/ NotModified
  BY <1>0, <1>8 DEF SendPoll, LeaveLoop, ServerAnswers, ReadReply, NotModified
<1>9. CASE UnreadableReply \/ PollFails
  BY <1>0, <1>9 DEF UnreadableReply, PollFails, Reconnect
<1>10. CASE \/ \E ns \in Ns : Publish(ns)
            \/ \E ns \in Ns, k \in Keys : Get(ns, k)
            \/ GetRace
            \/ \E t \in Threads, k \in Keys : StoreKey(t, k)
  BY <1>1, <1>10 DEF Publish, Get, GetRace, StoreKey
<1>11. CASE UNCHANGED vars \/ Crash
  BY <1>1, <1>11 DEF vars, Crash
<1> QED
  BY <1>1, <1>2, <1>3, <1>4, <1>6, <1>7, <1>8, <1>9, <1>10, <1>11, StepCases

\* What was shown, and what a call has seen or was promised, is still there, or
\* something newer.
AnswersHeld ==
    /\ \A ns \in Ns, k \in Keys :
          shown[ns][k] \in Versions => shown[ns][k] <= container[ns][k]
    /\ \A c \in Callers :
          /\ handler[c].at # "none" /\ handler[c].floor \in Versions =>
                handler[c].floor <= container[handler[c].ns][handler[c].key]
          /\ handler[c].at = "looked" =>
                /\ handler[c].floor <= handler[c].answer
                /\ handler[c].answer \in Versions =>
                      handler[c].answer <= container[handler[c].ns][handler[c].key]

LEMMA AnswersHeldStep ==
    ASSUME PInv, AnswersHeld, [PNext]_pvars, NeverBack,
           container' \in [Ns -> [Keys -> Versions \cup {Absent, Blank}]]
    PROVE  AnswersHeld'
<1>0. /\ handler \in [Callers -> Call]
      /\ shown \in [Ns -> [Keys -> Versions \cup {Blank}]]
      /\ container \in [Ns -> [Keys -> Versions \cup {Absent, Blank}]]
      /\ AskedFor
  BY DEF PInv, ServerTypeOK, CallsTypeOK, Call, TypeInv, TypeOK, StoreTypeOK
\* A value in the container is replaced by a newer one only.
<1>1. ASSUME NEW ns \in Ns, NEW k \in Keys, NEW v \in Versions,
             v <= container[ns][k]
      PROVE  v <= container'[ns][k]
  <2>1. /\ container[ns][k] \in Versions
        /\ container'[ns][k] \in Versions \cup {Absent, Blank}
    BY <1>0, <1>1
  <2>2. container[ns][k] <= container'[ns][k]
    BY <2>1 DEF NeverBack
  <2> QED
    BY <1>1, <2>1, <2>2
<1>2. ASSUME NEW c \in Callers
      PROVE  /\ handler[c].at # "none" => handler[c].ns \in Ns /\ handler[c].key \in Keys
             /\ handler[c].answer \in Versions \cup {Blank}
             /\ handler[c].floor \in Versions \cup {Blank}
  BY <1>0 DEF Call, AskedFor
<1>3. CASE UNCHANGED <<handler, shown>>
  <2>1. ASSUME NEW ns \in Ns, NEW k \in Keys, shown'[ns][k] \in Versions
        PROVE  shown'[ns][k] <= container'[ns][k]
    BY <1>1, <1>3, <2>1 DEF AnswersHeld
  <2>2. ASSUME NEW c \in Callers, handler'[c].at # "none"
        PROVE  /\ handler'[c].floor \in Versions =>
                     handler'[c].floor <= container'[handler'[c].ns][handler'[c].key]
               /\ handler'[c].at = "looked" =>
                     /\ handler'[c].floor <= handler'[c].answer
                     /\ handler'[c].answer \in Versions =>
                        handler'[c].answer <= container'[handler'[c].ns][handler'[c].key]
    BY <1>1, <1>2, <1>3, <2>2 DEF AnswersHeld
  <2> QED
    BY <2>1, <2>2 DEF AnswersHeld
\* Calls other than the one that moves, and what was shown.
<1>4. ASSUME NEW c \in Callers, handler' = [handler EXCEPT ![c] = handler'[c]],
             UNCHANGED shown,
             handler'[c].at # "none" =>
                /\ handler'[c].ns \in Ns /\ handler'[c].key \in Keys
                /\ handler'[c].floor \in Versions =>
                     handler'[c].floor <= container'[handler'[c].ns][handler'[c].key]
                /\ handler'[c].at = "looked" =>
                     /\ handler'[c].floor <= handler'[c].answer
                     /\ handler'[c].answer \in Versions =>
                        handler'[c].answer <= container'[handler'[c].ns][handler'[c].key]
      PROVE  AnswersHeld'
  <2>1. ASSUME NEW ns \in Ns, NEW k \in Keys, shown'[ns][k] \in Versions
        PROVE  shown'[ns][k] <= container'[ns][k]
    BY <1>1, <1>4, <2>1 DEF AnswersHeld
  <2>2. ASSUME NEW d \in Callers, d # c, handler'[d].at # "none"
        PROVE  /\ handler'[d].floor \in Versions =>
                     handler'[d].floor <= container'[handler'[d].ns][handler'[d].key]
               /\ handler'[d].at = "looked" =>
                     /\ handler'[d].floor <= handler'[d].answer
                     /\ handler'[d].answer \in Versions =>
                        handler'[d].answer <= container'[handler'[d].ns][handler'[d].key]
    <3>1. handler'[d] = handler[d]
      BY <1>0, <1>4, <2>2
    <3> QED
      BY <1>1, <1>2, <2>2, <3>1 DEF AnswersHeld
  <2> QED
    BY <1>4, <2>1, <2>2 DEF AnswersHeld
<1>5. ASSUME NEW c \in Callers, Enter(c), ~UNCHANGED handler
      PROVE  AnswersHeld'
  <2>1. PICK ns \in Ns, k \in Keys :
            handler' = [handler EXCEPT ![c] =
                          [at |-> "inside", ns |-> ns, key |-> k, answer |-> Blank,
                           floor |-> shown[ns][k]]]
    BY <1>5 DEF Enter
  <2>2. handler'[c] = [at |-> "inside", ns |-> ns, key |-> k, answer |-> Blank,
                       floor |-> shown[ns][k]]
    BY <1>0, <2>1
  <2>3. shown[ns][k] \in Versions => shown[ns][k] <= container'[ns][k]
    BY <1>1 DEF AnswersHeld
  <2>4. handler' = [handler EXCEPT ![c] = handler'[c]] /\ UNCHANGED shown
    BY <1>5, <2>1, <2>2 DEF Enter
  <2>5. /\ handler'[c].at = "inside" /\ handler'[c].ns = ns /\ handler'[c].key = k
        /\ handler'[c].floor = shown[ns][k]
    BY <2>2
  <2>6. handler'[c].floor \in Versions =>
            handler'[c].floor <= container'[handler'[c].ns][handler'[c].key]
    BY <2>3, <2>5
  <2>7. handler'[c].ns \in Ns /\ handler'[c].key \in Keys /\ handler'[c].at # "looked"
    BY <2>5
  <2> QED
    BY <1>4, <2>4, <2>6, <2>7
<1>6. ASSUME NEW c \in Callers, Look(c)
      PROVE  AnswersHeld'
  <2> DEFINE w == container[handler[c].ns][handler[c].key]
  <2>1. /\ handler[c].at = "inside"
        /\ handler[c].ns \in Ns /\ handler[c].key \in Keys
        /\ handler' = [handler EXCEPT ![c].at = "looked", ![c].answer = Looked(w)]
    BY <1>2, <1>6 DEF Look
  <2>2. /\ handler'[c] = [handler[c] EXCEPT !.at = "looked", !.answer = Looked(w)]
        /\ handler' = [handler EXCEPT ![c] = handler'[c]]
    BY <1>0, <2>1
  <2>3. /\ handler'[c].at = "looked" /\ handler'[c].answer = Looked(w)
        /\ handler'[c].ns = handler[c].ns /\ handler'[c].key = handler[c].key
        /\ handler'[c].floor = handler[c].floor
    BY <1>0, <2>2 DEF Call
  <2>4. w \in Versions \cup {Absent, Blank}
    BY <1>0, <2>1
  <2>5. handler[c].floor \in Versions => handler[c].floor <= w
    BY <2>1 DEF AnswersHeld
  <2>6. handler[c].floor <= Looked(w)
    BY <1>2, <2>4, <2>5 DEF Looked
  <2>7. Looked(w) \in Versions => Looked(w) <= w
    BY <2>4 DEF Looked
  <2>8. handler[c].floor \in Versions =>
            handler[c].floor <= container'[handler[c].ns][handler[c].key]
    BY <1>1, <2>1, <2>5
  <2>9. Looked(w) \in Versions =>
            Looked(w) <= container'[handler[c].ns][handler[c].key]
    BY <1>1, <2>1, <2>7
  <2>10. UNCHANGED shown
    BY <1>6 DEF Look
  <2> HIDE DEF w
  <2> QED
    BY <1>4, <2>1, <2>2, <2>3, <2>6, <2>8, <2>9, <2>10
<1>7. ASSUME NEW c \in Callers, Reply(c)
      PROVE  AnswersHeld'
  <2>1. /\ handler[c].at = "looked" /\ handler' = [handler EXCEPT ![c] = NoCall]
        /\ shown' = [shown EXCEPT ![handler[c].ns][handler[c].key] =
                       Newest(@, handler[c].answer)]
        /\ handler[c].ns \in Ns /\ handler[c].key \in Keys
    BY <1>2, <1>7 DEF Reply
  <2>2. ASSUME NEW ns \in Ns, NEW k \in Keys, shown'[ns][k] \in Versions
        PROVE  shown'[ns][k] <= container'[ns][k]
    <3>1. CASE shown'[ns][k] = shown[ns][k]
      BY <1>1, <2>2, <3>1 DEF AnswersHeld
    <3>2. CASE shown'[ns][k] # shown[ns][k]
      <4>1. ns = handler[c].ns /\ k = handler[c].key
        BY <1>0, <2>1, <3>2
      <4>2. shown'[ns][k] = Newest(shown[ns][k], handler[c].answer)
        BY <1>0, <2>1, <4>1
      <4>3. shown'[ns][k] = handler[c].answer
        BY <3>2, <4>2 DEF Newest
      <4>4. handler[c].answer <= container[ns][k]
        BY <2>1, <2>2, <4>1, <4>3 DEF AnswersHeld
      <4> QED
        BY <1>1, <2>2, <4>3, <4>4
    <3> QED
      BY <3>1, <3>2
  <2>3. handler'[c].at = "none"
    BY <1>0, <2>1 DEF NoCall
  <2>4. ASSUME NEW d \in Callers, d # c, handler'[d].at # "none"
        PROVE  /\ handler'[d].floor \in Versions =>
                     handler'[d].floor <= container'[handler'[d].ns][handler'[d].key]
               /\ handler'[d].at = "looked" =>
                     /\ handler'[d].floor <= handler'[d].answer
                     /\ handler'[d].answer \in Versions =>
                        handler'[d].answer <= container'[handler'[d].ns][handler'[d].key]
    <3>1. handler'[d] = handler[d]
      BY <1>0, <2>1, <2>4
    <3> QED
      BY <1>1, <1>2, <2>4, <3>1 DEF AnswersHeld
  <2> QED
    BY <2>2, <2>3, <2>4 DEF AnswersHeld
<1>8. \/ UNCHANGED <<handler, shown>>
      \/ \E c \in Callers : (Enter(c) /\ ~UNCHANGED handler) \/ Look(c) \/ Reply(c)
  BY DEF PNext, pvars, BeginInit, InitClient, ClientStarts, InitImp, DeleteService,
         StopServer, DestroyClient, JoinClient, Serve, LookRace, Below, Enter
<1> QED
  BY <1>3, <1>5, <1>6, <1>7, <1>8

LEMMA CrashKeeps ==
    ASSUME Crash
    PROVE  /\ ValuesInv => ValuesInv'
           /\ Solo => Solo'
           /\ ForwardInv => ForwardInv'
           /\ UNCHANGED container
  BY DEF Crash, server, poll, flags, work, history, ValuesInv, ValuesReleased,
         FetchedReleased, Solo, ForwardInv

Once == inits <= 1 /\ Properties = {}
GoForwardInv == PInv /\ ValuesInv /\ FirstInit /\ (Once => Solo /\ ForwardInv /\ AnswersHeld)

LEMMA GoForwardInit == PInit => GoForwardInv
<1> SUFFICES ASSUME PInit PROVE GoForwardInv
  OBVIOUS
<1>1. Init
  BY DEF PInit
<1>2. Solo /\ ValuesInv /\ FirstInit
  BY <1>1 DEF Init, Solo, ValuesInv, ValuesReleased, FetchedReleased, FirstInit, Updating
<1>3. ForwardInv
  BY <1>1 DEF Init, Empty, ForwardInv
<1>4. AnswersHeld
  BY DEF PInit, AnswersHeld, NoCall
<1> QED
  BY <1>2, <1>3, <1>4, PInvInit DEF GoForwardInv

LEMMA GoForwardStep == GoForwardInv /\ [PNext]_pvars => GoForwardInv'
<1> SUFFICES ASSUME GoForwardInv, [PNext]_pvars PROVE GoForwardInv'
  OBVIOUS
<1>1. PInv /\ TypeInv /\ AskedFor /\ PInv'
  BY PInvStep DEF GoForwardInv, PInv
<1>2. [Next]_vars \/ Crash
  BY <1>1, ClientSteps
<1>3. FirstInit' /\ inits' >= inits
  BY <1>1, <1>2, FirstInitStep DEF GoForwardInv
<1>4. ValuesInv'
  BY <1>1, <1>2, ValuesStep, CrashKeeps DEF GoForwardInv
<1>5. ASSUME Once'
      PROVE  Solo' /\ ForwardInv' /\ AnswersHeld'
  <2>1. inits \in Nat /\ inits' \in Nat
    BY <1>1 DEF PInv, TypeInv, TypeOK, FlagsTypeOK
  <2>2. Once
    BY <1>3, <1>5, <2>1 DEF Once
  <2>3. Solo /\ ForwardInv /\ AnswersHeld /\ Properties = {}
    BY <2>2 DEF GoForwardInv, Once
  <2>4. CallInit => ~Joinable
    <3>1. CallInit => inits = 0
      BY <1>5, <2>1 DEF CallInit, Once
    <3> QED
      BY <3>1 DEF GoForwardInv, FirstInit, Joinable
  <2>5. Solo' /\ ForwardInv' /\ NeverBack
    <3>1. CASE [Next]_vars
      BY <1>1, <2>3, <2>4, <3>1, SoloStep, ForwardStep, NeverBackStep DEF GoForwardInv
    <3>2. CASE Crash
      <4>1. NeverBack
        <5>1. container' = container
          BY <3>2, CrashKeeps
        <5>2. container \in [Ns -> [Keys -> Versions \cup {Absent, Blank}]]
          BY <1>1 DEF TypeInv, TypeOK, StoreTypeOK
        <5> QED
          BY <5>1, <5>2 DEF NeverBack
      <4> QED
        BY <2>3, <3>2, <4>1, CrashKeeps
    <3> QED
      BY <1>2, <3>1, <3>2
  <2>6. container' \in [Ns -> [Keys -> Versions \cup {Absent, Blank}]]
    BY <1>1 DEF PInv, TypeInv, TypeOK, StoreTypeOK
  <2> QED
    BY <1>1, <2>3, <2>5, <2>6, AnswersHeldStep
<1> QED
  BY <1>1, <1>3, <1>4, <1>5 DEF GoForwardInv

\* While init has run once, whoever asks after somebody was told a value is not
\* told an older one, for any number of callers, namespaces, keys and releases
\* (Echo through getConfigByKey, beside the back thread).
THEOREM AnswersNeverGoBack == PSpec => []AnswersGoForward
<1>1. GoForwardInv => AnswersGoForward
  <2> SUFFICES ASSUME GoForwardInv, NEW c \in Callers,
                      handler[c].at = "looked", inits <= 1, Properties = {}
               PROVE  handler[c].answer >= handler[c].floor
    BY DEF AnswersGoForward
  <2>1. handler[c].floor <= handler[c].answer
    BY DEF GoForwardInv, Once, AnswersHeld
  <2> QED
    BY <2>1
<1> QED
  BY <1>1, GoForwardInit, GoForwardStep, PTL DEF PSpec


\* The crash of a call changes nothing that the feed of ConfigFeed shows.
LEMMA CrashKeepsFeed ==
    ASSUME Crash
    PROVE  UNCHANGED Feed!feedVars
  BY DEF Crash, server, history, Feed!feedVars

\* As long as init has run once at most, the server implements ConfigFeed like the
\* client it is built around: whatever its owner and any number of remote callers
\* do, a call that reaches a deleted service included, each step publishes, moves
\* one namespace forward to a published release, or changes nothing that is shown.
\* ImplementsFeed has the client stop before init instead, which Base_Server::init
\* does not.
THEOREM ServerImplementsFeed ==
    ASSUME Properties = {}
    PROVE  PSpec /\ [](inits <= 1) => FeedSpec
<1>1. PInit => Feed!Init
  BY FeedInit DEF PInit
<1>2. GoForwardInv /\ inits <= 1 /\ [PNext]_pvars => [Feed!Next]_(Feed!feedVars)
  <2> SUFFICES ASSUME GoForwardInv, inits <= 1, [PNext]_pvars
               PROVE  [Feed!Next]_(Feed!feedVars)
    OBVIOUS
  <2>1. TypeInv /\ AskedFor /\ ValuesInv /\ ForwardInv
    BY DEF GoForwardInv, PInv, Once
  <2>2. [Next]_vars \/ Crash
    BY <2>1, ClientSteps
  <2>3. CASE [Next]_vars
    BY <2>1, <2>3, FeedStep
  <2>4. CASE Crash
    BY <2>4, CrashKeepsFeed
  <2> QED
    BY <2>2, <2>3, <2>4
<1> QED
  BY <1>1, <1>2, GoForwardInit, GoForwardStep, PTL DEF PSpec, FeedSpec, Feed!Spec

-----------------------------------------------------------------------------
(* Answers are values of releases.                                         *)

\* What becomes of a call.
LEMMA CallMoves ==
    ASSUME PInv, [PNext]_pvars, NEW c \in Callers
    PROVE  \/ UNCHANGED handler[c]
           \/ listening /\ handler'[c].at = "inside"
           \/ /\ handler[c].at = "inside"
              /\ handler'[c].ns = handler[c].ns /\ handler'[c].key = handler[c].key
              /\ handler'[c].answer = Looked(container[handler[c].ns][handler[c].key])
           \/ handler'[c].at = "none"
<1>0. handler \in [Callers -> Call]
  BY DEF PInv, ServerTypeOK, CallsTypeOK, Call
<1>1. CASE UNCHANGED handler
  BY <1>1
<1>2. ASSUME NEW d \in Callers, Enter(d), ~UNCHANGED handler
      PROVE  UNCHANGED handler[c] \/ (listening /\ handler'[c].at = "inside")
  <2>1. PICK ns \in Ns, k \in Keys :
            handler' = [handler EXCEPT ![d] =
                          [at |-> "inside", ns |-> ns, key |-> k, answer |-> Blank,
                           floor |-> shown[ns][k]]]
    BY <1>2 DEF Enter
  <2>2. listening
    BY <1>2 DEF Enter
  <2>3. CASE c = d
    <3>1. handler'[c] = [at |-> "inside", ns |-> ns, key |-> k, answer |-> Blank,
                         floor |-> shown[ns][k]]
      BY <1>0, <2>1, <2>3
    <3> QED
      BY <2>2, <3>1
  <2>4. CASE c # d
    BY <1>0, <2>1, <2>4
  <2> QED
    BY <2>3, <2>4
<1>3. ASSUME NEW d \in Callers, Look(d)
      PROVE  \/ UNCHANGED handler[c]
             \/ /\ handler[c].at = "inside"
                /\ handler'[c].ns = handler[c].ns /\ handler'[c].key = handler[c].key
                /\ handler'[c].answer = Looked(container[handler[c].ns][handler[c].key])
  <2> DEFINE v == Looked(container[handler[d].ns][handler[d].key])
  <2>1. /\ handler' = [handler EXCEPT ![d].at = "looked", ![d].answer = v]
        /\ handler[d].at = "inside"
    BY <1>3 DEF Look
  <2> HIDE DEF v
  <2>2. CASE c = d
    <3>1. handler'[c] = [handler[c] EXCEPT !.at = "looked", !.answer = v]
      BY <1>0, <2>1, <2>2
    <3>2. /\ handler'[c].ns = handler[c].ns /\ handler'[c].key = handler[c].key
          /\ handler'[c].answer = v
      BY <1>0, <3>1 DEF Call
    <3> QED
      BY <2>1, <2>2, <3>2 DEF v
  <2>3. CASE c # d
    BY <1>0, <2>1, <2>3
  <2> QED
    BY <2>2, <2>3
<1>4. ASSUME NEW d \in Callers, Reply(d)
      PROVE  UNCHANGED handler[c] \/ handler'[c].at = "none"
  BY <1>0, <1>4 DEF Reply, NoCall
<1>5. \/ UNCHANGED handler
      \/ \E d \in Callers : (Enter(d) /\ ~UNCHANGED handler) \/ Look(d) \/ Reply(d)
  BY DEF PNext, pvars, BeginInit, InitClient, ClientStarts, InitImp, DeleteService,
         StopServer, DestroyClient, JoinClient, Serve, LookRace, Below, Enter
<1> QED
  BY Zenon, <1>1, <1>2, <1>3, <1>4, <1>5

\* What a remote caller is answered is the value that a published release gave
\* that very key, or the empty string.
AnswersReleased ==
    \A c \in Callers :
        LET h == handler[c] IN
        h.at = "looked" /\ h.answer \in Versions =>
            /\ h.answer <= released[h.ns]
            /\ h.key \in ReleaseKeys[h.ns][h.answer]

LEMMA ReleasedGrows ==
    ASSUME TypeInv, [Next]_vars \/ Crash
    PROVE  /\ released \in [Ns -> Versions] /\ released' \in [Ns -> Versions]
           /\ \A ns \in Ns : released[ns] <= released'[ns]
<1>1. released \in [Ns -> Versions]
  BY DEF TypeInv, TypeOK, IdsTypeOK
<1>2. released' \in [Ns -> Versions]
  <2>1. TypeInv'
    BY TypeInvStep, CrashKeepsTypes
  <2> QED
    BY <2>1 DEF TypeInv, TypeOK, IdsTypeOK
<1>3. CASE UNCHANGED released
  BY <1>1, <1>3
<1>4. CASE \E ns \in Ns : Publish(ns)
  BY <1>1, <1>4 DEF Publish
<1>5. UNCHANGED released \/ (\E ns \in Ns : Publish(ns))
  BY StepCases DEF vars, server, Crash,
        CallInit, Spawn, CallStop, CallDestroy, Join, Get, GetRace, Fetch,
        FetchNothing, LockContainer, Malformed, StoreKey, UnlockContainer,
        FetchProperties, Wipe, UpdateDone, SendPoll, LeaveLoop, ServerAnswers,
        ReadReply, UnreadableReply, NotModified, PollFails
<1> QED
  BY <1>1, <1>2, <1>3, <1>4, <1>5

ReleasedInv == PInv /\ ValuesInv /\ AnswersReleased

\* No remote caller is ever answered a value that no published release gave the
\* key it asked for, whatever init is called beside, whatever fails, and for any
\* number of callers (Echo, through getConfigByKey).
THEOREM AnswersAreReleased == PSpec => []AnswersReleased
<1>1. PInit => ReleasedInv
  <2>1. PInit => ValuesInv
    BY DEF PInit, Init, ValuesInv, ValuesReleased, FetchedReleased
  <2>2. PInit => AnswersReleased
    BY DEF PInit, NoCall, AnswersReleased
  <2> QED
    BY <2>1, <2>2, PInvInit DEF ReleasedInv
<1>2. ReleasedInv /\ [PNext]_pvars => ReleasedInv'
  <2> SUFFICES ASSUME ReleasedInv, [PNext]_pvars PROVE ReleasedInv'
    OBVIOUS
  <2>1. PInv /\ TypeInv /\ AskedFor /\ ValuesInv /\ AnswersReleased /\ PInv'
    BY PInvStep DEF ReleasedInv, PInv
  <2>2. [Next]_vars \/ Crash
    BY <2>1, ClientSteps
  <2>3. ValuesInv'
    BY <2>1, <2>2, ValuesStep, CrashKeeps
  <2>4. /\ released \in [Ns -> Versions] /\ released' \in [Ns -> Versions]
        /\ \A ns \in Ns : released[ns] <= released'[ns]
    BY <2>1, <2>2, ReleasedGrows
  <2>5. ASSUME NEW c \in Callers, handler'[c].at = "looked",
               handler'[c].answer \in Versions
        PROVE  /\ handler'[c].answer <= released'[handler'[c].ns]
               /\ handler'[c].key \in ReleaseKeys[handler'[c].ns][handler'[c].answer]
    <3>1. CASE UNCHANGED handler[c]
      <4>1. /\ handler[c].answer <= released[handler[c].ns]
            /\ handler[c].key \in ReleaseKeys[handler[c].ns][handler[c].answer]
        BY <2>1, <2>5, <3>1 DEF AnswersReleased
      <4>2. handler[c].ns \in Ns
        BY <2>1, <2>5, <3>1 DEF AskedFor
      <4> QED
        BY <2>4, <2>5, <3>1, <4>1, <4>2
    <3>2. CASE /\ handler[c].at = "inside"
               /\ handler'[c].ns = handler[c].ns /\ handler'[c].key = handler[c].key
               /\ handler'[c].answer = Looked(container[handler[c].ns][handler[c].key])
      <4>1. PICK ns \in Ns, k \in Keys : ns = handler[c].ns /\ k = handler[c].key
        BY <2>1, <3>2 DEF AskedFor
      <4>2. container[ns][k] \in Versions /\ handler'[c].answer = container[ns][k]
        BY <2>5, <3>2, <4>1 DEF Looked
      <4>3. container[ns][k] <= released[ns] /\ k \in ReleaseKeys[ns][container[ns][k]]
        BY <2>1, <4>2 DEF ValuesInv, ValuesReleased
      <4> QED
        BY <2>4, <3>2, <4>1, <4>2, <4>3
    <3> QED
      BY <2>1, <2>5, <3>1, <3>2, CallMoves
  <2>6. AnswersReleased'
    BY <2>5 DEF AnswersReleased
  <2> QED
    BY <2>1, <2>3, <2>6 DEF ReleasedInv
<1> QED
  BY <1>1, <1>2, PTL DEF PSpec, ReleasedInv

-----------------------------------------------------------------------------
(* The service is put up after the client has loaded.                      *)

\* A key of every release; a namespace all of whose lasting keys are stored.
Lasting(ns, k) == \A v \in Versions : k \in ReleaseKeys[ns][v]
Loaded(ns) == \A k \in Keys : Lasting(ns, k) => container[ns][k] \in Versions

\* No request has failed, and no namespace is one of properties.
Healthy == faults = 0 /\ Properties = {}

\* What init has stored when it has come this far.
LoadInv ==
    /\ \A t \in Threads : pc[t] # "wipe"
    /\ pc["user"] \in {"fetch", "lock", "store", "spawn"} =>
         \A ns \in Ns : ns < at["user"] => Loaded(ns)
    /\ pc["user"] = "spawn" => at["user"] > NumNs
    /\ pc["user"] = "store" =>
         \A k \in ReleaseKeys[at["user"]][got["user"]] \ left["user"] :
            container[at["user"]][k] \in Versions

\* A value that is stored may be replaced but does not go.
LEMMA StoredStays ==
    ASSUME TypeInv, Properties = {}, \A t \in Threads : pc[t] # "wipe",
           [Next]_vars \/ Crash,
           NEW ns \in Ns, NEW k \in Keys, container[ns][k] \in Versions
    PROVE  container'[ns][k] \in Versions
<1>0. /\ container \in [Ns -> [Keys -> Versions \cup {Absent, Blank}]]
      /\ got \in [Threads -> Versions]
  BY DEF TypeInv, TypeOK, StoreTypeOK
<1>1. CASE UNCHANGED container
  BY <1>1
<1>2. ASSUME NEW n \in Ns, NEW j \in Keys, Get(n, j)
      PROVE  container'[ns][k] \in Versions
  <2>1. container' = [container EXCEPT ![n][j] = Looked(@)]
    BY <1>2 DEF Get
  <2>2. CASE n = ns /\ j = k
    BY <1>0, <2>1, <2>2 DEF Looked
  <2>3. CASE ~(n = ns /\ j = k)
    BY <1>0, <2>1, <2>3
  <2> QED
    BY <2>2, <2>3
<1>3. ASSUME NEW t \in Threads, NEW j \in Keys, StoreKey(t, j)
      PROVE  container'[ns][k] \in Versions
  <2>1. /\ container' = [container EXCEPT ![at[t]][j] = got[t]]
        /\ at[t] \in Ns /\ got[t] \in Versions
    BY <1>0, <1>3 DEF StoreKey, KeyPrefix, Assigned, TypeInv, AtANamespace
  <2>2. CASE at[t] = ns /\ j = k
    BY <1>0, <2>1, <2>2
  <2>3. CASE ~(at[t] = ns /\ j = k)
    BY <1>0, <2>1, <2>3
  <2> QED
    BY <2>2, <2>3
<1>4. ASSUME Next
      PROVE  \/ UNCHANGED container
             \/ \E n \in Ns, j \in Keys : Get(n, j)
             \/ \E t \in Threads, j \in Keys : StoreKey(t, j)
  <2>1. \A t \in Threads : ~Wipe(t)
    BY DEF Wipe
  <2>2. UNCHANGED container \/ UnreadableReply \/ PollFails
        \/ (\E n \in Ns, j \in Keys : Get(n, j))
        \/ \E t \in Threads, j \in Keys : StoreKey(t, j)
    BY Zenon, <1>4, <2>1, StepCases DEF Publish, CallInit, Spawn, CallStop, CallDestroy,
       Join, GetRace, Fetch, FetchNothing, LockContainer, Malformed, UnlockContainer,
       FetchProperties, UpdateDone, SendPoll, LeaveLoop, ServerAnswers, ReadReply,
       NotModified
  <2> QED
    BY Zenon, <2>2 DEF UnreadableReply, PollFails
<1>5. CASE UNCHANGED vars \/ Crash
  BY <1>1, <1>5 DEF vars, Crash
<1> QED
  BY <1>1, <1>2, <1>3, <1>4, <1>5

\* Failures are counted.
LEMMA FaultsCounted ==
    ASSUME TypeInv, [Next]_vars \/ Crash, faults' = 0
    PROVE  /\ faults = 0
           /\ \A t \in Threads : ~FetchNothing(t) /\ ~Malformed(t)
           /\ ~UnreadableReply /\ ~PollFails
<1>0. faults \in Nat
  BY DEF TypeInv, TypeOK, FlagsTypeOK
<1>1. ~Fault
  BY <1>0 DEF Fault
<1>2. /\ \A t \in Threads : ~FetchNothing(t) /\ ~Malformed(t)
      /\ ~UnreadableReply /\ ~PollFails
  BY Zenon, <1>1 DEF FetchNothing, Malformed, UnreadableReply, PollFails
<1>3. CASE Next
  <2>1. faults' = faults
    BY Zenon, <1>1, <1>2, <1>3, StepCases DEF Publish, CallInit, Spawn, CallStop,
       CallDestroy, Join, Get, GetRace, Fetch, LockContainer, StoreKey, UnlockContainer,
       FetchProperties, Wipe, UpdateDone, SendPoll, LeaveLoop, ServerAnswers, ReadReply,
       NotModified
  <2> QED
    BY <1>2, <2>1
<1>4. CASE UNCHANGED vars \/ Crash
  BY <1>2, <1>4 DEF vars, Crash
<1> QED
  BY <1>3, <1>4

\* No step of the client or of the server takes a lasting value away.
LEMMA LoadStep ==
    ASSUME TypeInv, Properties = {}, faults' = 0, LoadInv, [Next]_vars \/ Crash
    PROVE  LoadInv' /\ \A ns \in Ns : Loaded(ns) => Loaded(ns)'
<1>0. /\ container \in [Ns -> [Keys -> Versions \cup {Absent, Blank}]]
      /\ got \in [Threads -> Versions] /\ left \in [Threads -> SUBSET Keys]
      /\ pc \in [Threads -> Points] /\ at \in [Threads -> 1..(NumNs + 1)]
  BY DEF TypeInv, TypeOK, StoreTypeOK, ThreadsTypeOK
<1>1. \A t \in Threads : pc[t] # "wipe"
  BY DEF LoadInv
<1>2. \A ns \in Ns, k \in Keys : container[ns][k] \in Versions
                                    => container'[ns][k] \in Versions
  BY <1>1, StoredStays
<1>3. \A ns \in Ns : Loaded(ns) => Loaded(ns)'
  BY <1>2 DEF Loaded, Lasting
<1> SUFFICES LoadInv'
  BY <1>3
\* Steps that leave the caller's thread where it is, ...
<1>4. ASSUME pc'["user"] = pc["user"], at'["user"] = at["user"],
             got'["user"] = got["user"], left'["user"] = left["user"],
             \A t \in Threads : pc'[t] # "wipe"
      PROVE  LoadInv'
  <2>1. pc["user"] = "store" => at["user"] \in Ns
    BY DEF TypeInv, AtANamespace
  <2>2. /\ pc'["user"] \in {"fetch", "lock", "store", "spawn"} =>
              \A ns \in Ns : ns < at'["user"] => Loaded(ns)'
        /\ pc'["user"] = "spawn" => at'["user"] > NumNs
    BY <1>3, <1>4 DEF LoadInv
  <2>3. ASSUME pc'["user"] = "store",
               NEW k \in ReleaseKeys[at'["user"]][got'["user"]] \ left'["user"]
        PROVE  container'[at'["user"]][k] \in Versions
    <3>1. /\ at["user"] \in Ns /\ container[at["user"]][k] \in Versions
          /\ got["user"] \in Versions
      BY <1>0, <1>4, <2>1, <2>3 DEF LoadInv
    <3>2. k \in Keys
      BY <1>4, <2>3, <3>1
    <3> QED
      BY <1>2, <1>4, <3>1, <3>2
  <2> QED
    BY <1>4, <2>2, <2>3 DEF LoadInv
\* ... those that take it out of an update, ...
<1>5. ASSUME pc'["user"] \notin {"fetch", "lock", "store", "spawn"},
             \A t \in Threads : pc'[t] # "wipe"
      PROVE  LoadInv'
  BY <1>5 DEF LoadInv
\* ... and those of the update.
<1>6. CASE UNCHANGED <<pc, at, got, left>>
  <2>1. pc' = pc /\ at' = at /\ got' = got /\ left' = left
    BY <1>6
  <2> QED
    BY Zenon, <1>1, <1>4, <2>1
<1>7. CASE CallInit
  <2>1. /\ at' = [at EXCEPT !["user"] = 1] /\ pc' = [pc EXCEPT !["user"] = "fetch"]
    BY <1>7 DEF CallInit, Goto
  <2>2. at'["user"] = 1 /\ pc'["user"] = "fetch" /\ \A t \in Threads : pc'[t] # "wipe"
    BY <1>0, <1>1, <2>1
  <2>3. \A ns \in Ns : ~(ns < at'["user"])
    BY <2>2
  <2> QED
    BY Zenon, <2>2, <2>3 DEF LoadInv
<1>8. CASE Spawn \/ CallStop \/ CallDestroy \/ Join
  <2>1. pc'["user"] \notin {"fetch", "lock", "store", "spawn"}
    BY <1>0, <1>8 DEF Spawn, CallStop, CallDestroy, Join, Goto
  <2>2. \A t \in Threads : pc'[t] # "wipe"
    BY <1>0, <1>1, <1>8 DEF Spawn, CallStop, CallDestroy, Join, Goto
  <2> QED
    BY Zenon, <1>5, <2>1, <2>2
<1>9. ASSUME pc' = [pc EXCEPT !["back"] = pc'["back"]], pc'["back"] # "wipe",
             at'["user"] = at["user"], got'["user"] = got["user"],
             left'["user"] = left["user"]
      PROVE  LoadInv'
  <2>1. pc'["user"] = pc["user"] /\ \A t \in Threads : pc'[t] # "wipe"
    BY <1>0, <1>1, <1>9
  <2> QED
    BY <1>4, <1>9, <2>1
<1>10. CASE SendPoll \/ LeaveLoop \/ ServerAnswers \/ ReadReply \/ NotModified
  <2>1. \E p \in Points : pc' = [pc EXCEPT !["back"] = p] /\ p # "wipe"
    BY <1>10 DEF SendPoll, LeaveLoop, ServerAnswers, ReadReply, NotModified, Goto, Points
  <2>2. pc' = [pc EXCEPT !["back"] = pc'["back"]] /\ pc'["back"] # "wipe"
    BY <1>0, <2>1
  <2>3. /\ at'["user"] = at["user"] /\ got'["user"] = got["user"]
        /\ left'["user"] = left["user"]
    BY <1>0, <1>10 DEF SendPoll, LeaveLoop, ServerAnswers, ReadReply, NotModified, work
  <2> QED
    BY Zenon, <1>9, <2>2, <2>3
<1>11. CASE \/ Fetch("back") \/ LockContainer("back") \/ UnlockContainer("back")
            \/ UpdateDone("back")
  <2>1. \E p \in Points : pc' = [pc EXCEPT !["back"] = p] /\ p # "wipe"
    BY <1>11 DEF Fetch, LockContainer, UnlockContainer, UpdateDone, NextNs, Goto, Points
  <2>2. pc' = [pc EXCEPT !["back"] = pc'["back"]] /\ pc'["back"] # "wipe"
    BY <1>0, <2>1
  <2>3. /\ at'["user"] = at["user"] /\ got'["user"] = got["user"]
        /\ left'["user"] = left["user"]
    BY <1>0, <1>11 DEF Fetch, LockContainer, UnlockContainer, UpdateDone, NextNs, work
  <2> QED
    BY Zenon, <1>9, <2>2, <2>3
<1>12. ASSUME NEW k \in Keys, StoreKey("back", k)
       PROVE  LoadInv'
  <2>1. UNCHANGED <<pc, at, got>> /\ left'["user"] = left["user"]
    BY <1>0, <1>12 DEF StoreKey
  <2> QED
    BY <1>1, <1>4, <2>1
<1>13. CASE Fetch("user")
  <2>1. /\ pc["user"] = "fetch" /\ pc'["user"] = "lock" /\ at' = at
        /\ \A t \in Threads : pc'[t] # "wipe"
    BY <1>0, <1>1, <1>13 DEF Fetch, AtNs, Goto
  <2> QED
    BY <1>3, <2>1 DEF LoadInv
<1>14. CASE LockContainer("user")
  <2>1. /\ pc["user"] = "lock" /\ pc'["user"] = "store" /\ at' = at /\ got' = got
        /\ left'["user"] = ReleaseKeys[at["user"]][got["user"]]
        /\ \A t \in Threads : pc'[t] # "wipe"
    BY <1>0, <1>1, <1>14 DEF LockContainer, Goto
  <2> QED
    BY <1>3, <2>1 DEF LoadInv
<1>15. ASSUME NEW k \in Keys, StoreKey("user", k)
       PROVE  LoadInv'
  <2>1. /\ pc["user"] = "store" /\ UNCHANGED <<pc, at, got>>
        /\ left' = [left EXCEPT !["user"] = @ \ {k}]
        /\ container' = [container EXCEPT ![at["user"]][k] = got["user"]]
    BY <1>15 DEF StoreKey, KeyPrefix, Assigned
  <2>2. at["user"] \in Ns /\ got["user"] \in Versions
    BY <1>0, <2>1 DEF TypeInv, AtANamespace
  <2>3. ASSUME NEW j \in ReleaseKeys[at["user"]][got["user"]] \ left'["user"]
        PROVE  container'[at["user"]][j] \in Versions
    <3>1. j \in Keys
      BY <2>2, <2>3
    <3>2. CASE j = k
      BY <1>0, <2>1, <2>2, <3>2
    <3>3. CASE j # k
      <4>1. j \in ReleaseKeys[at["user"]][got["user"]] \ left["user"]
        BY <1>0, <2>1, <2>3, <3>3
      <4>2. container[at["user"]][j] \in Versions
        BY <2>1, <4>1 DEF LoadInv
      <4> QED
        BY <1>2, <2>2, <3>1, <4>2
    <3> QED
      BY <3>2, <3>3
  <2> QED
    BY <1>1, <1>3, <2>1, <2>3 DEF LoadInv
<1>16. CASE UnlockContainer("user")
  <2>1. /\ pc["user"] = "store" /\ left["user"] = {} /\ at["user"] \in Ns
        /\ got["user"] \in Versions
    BY <1>0, <1>16 DEF UnlockContainer, TypeInv, AtANamespace
  <2>2. /\ pc'["user"] = "fetch" /\ at'["user"] = at["user"] + 1
        /\ \A t \in Threads : pc'[t] # "wipe"
    BY <1>0, <1>1, <1>16 DEF UnlockContainer, NextNs, Goto
  <2>3. Loaded(at["user"])
    BY <2>1 DEF LoadInv, Loaded, Lasting
  <2>4. \A ns \in Ns : ns < at'["user"] => Loaded(ns)'
    <3> SUFFICES ASSUME NEW ns \in Ns, ns < at'["user"] PROVE Loaded(ns)
      BY <1>3
    <3>1. ns < at["user"] \/ ns = at["user"]
      BY <2>1, <2>2
    <3> QED
      BY <2>1, <2>3, <3>1 DEF LoadInv
  <2> QED
    BY Zenon, <2>2, <2>4 DEF LoadInv
<1>17. CASE UpdateDone("user")
  <2>1. /\ pc["user"] = "fetch" /\ at["user"] > NumNs /\ at' = at
        /\ pc' = [pc EXCEPT !["user"] = "spawn"]
    BY <1>17 DEF UpdateDone, Goto, work
  <2>2. pc'["user"] = "spawn" /\ \A t \in Threads : pc'[t] # "wipe"
    BY <1>0, <1>1, <2>1
  <2> QED
    BY <1>3, <2>1, <2>2 DEF LoadInv
<1>18. CASE Next
  <2>1. /\ \A t \in Threads : ~FetchNothing(t) /\ ~Malformed(t)
        /\ ~UnreadableReply /\ ~PollFails
    BY FaultsCounted
  <2>2. \A t \in Threads : ~Wipe(t) /\ ~FetchProperties(t)
    BY <1>1 DEF Wipe, FetchProperties
  <2>3. \/ UNCHANGED <<pc, at, got, left>>
        \/ CallInit \/ Spawn \/ CallStop \/ CallDestroy \/ Join
        \/ SendPoll \/ LeaveLoop \/ ServerAnswers \/ ReadReply \/ NotModified
        \/ \E t \in Threads : \/ Fetch(t) \/ LockContainer(t) \/ UnlockContainer(t)
                              \/ UpdateDone(t) \/ \E k \in Keys : StoreKey(t, k)
    BY Zenon, <1>18, <2>1, <2>2, StepCases DEF Publish, Get, GetRace, work
  <2>4. ASSUME NEW t \in Threads,
               \/ Fetch(t) \/ LockContainer(t) \/ UnlockContainer(t) \/ UpdateDone(t)
               \/ \E k \in Keys : StoreKey(t, k)
        PROVE  LoadInv'
    <3>1. CASE t = "user"
      BY Zenon, <2>4, <3>1, <1>13, <1>14, <1>15, <1>16, <1>17
    <3>2. CASE t = "back"
      BY Zenon, <2>4, <3>2, <1>11, <1>12
    <3> QED
      BY <3>1, <3>2
  <2> QED
    BY Zenon, <2>3, <2>4, <1>6, <1>7, <1>8, <1>10
<1>19. CASE UNCHANGED vars \/ Crash
  BY <1>6, <1>19 DEF vars, Crash, work
<1> QED
  BY <1>18, <1>19

\* Only a service has calls.
Served == \A c \in Callers : handler[c].at # "none" => service # "none"

\* A service is put up when the client has loaded, and so a call finds its key.
ServiceLoaded ==
    /\ service # "none" \/ srv = "start" => \A ns \in Ns : Loaded(ns)
    /\ \A c \in Callers :
         handler[c].at = "looked" /\ Lasting(handler[c].ns, handler[c].key)
         => handler[c].answer \in Versions

\* Where the service comes from.
LEMMA ServiceMoves ==
    ASSUME ServerTypeOK, [PNext]_pvars
    PROVE  /\ service # "none" => service' # "none"
           /\ service' # "none" => service # "none" \/ srv = "start"
           /\ srv' = "start" => srv = "start" \/ Spawn
<1>1. CASE UNCHANGED svars
  BY <1>1 DEF svars
<1>2. CASE BeginInit \/ StopServer \/ DestroyClient
  BY <1>2 DEF BeginInit, StopServer, DestroyClient
<1>3. CASE InitClient
  BY <1>3 DEF InitClient
<1>4. CASE ClientStarts
  BY <1>4 DEF ClientStarts
<1>5. CASE InitImp \/ DeleteService
  BY <1>5 DEF InitImp, DeleteService
<1>6. BeginInit \/ DeleteService \/ InitClient \/ ClientStarts \/ InitImp
        \/ StopServer \/ DestroyClient \/ UNCHANGED svars
  BY DEF PNext, pvars, JoinClient, Serve, Enter, Look, LookRace, Reply, Below
<1> QED
  BY <1>1, <1>2, <1>3, <1>4, <1>5, <1>6

\* A call is inside only once there is a service, and there is one only once every
\* lasting key has been loaded.
LoadedFirst == PInv /\ Served /\ (Healthy => LoadInv /\ ServiceLoaded)

LEMMA LoadedFirstStep == LoadedFirst /\ [PNext]_pvars => LoadedFirst'
<1> SUFFICES ASSUME LoadedFirst, [PNext]_pvars PROVE LoadedFirst'
  OBVIOUS
<1>1. PInv /\ TypeInv /\ ServerTypeOK /\ AskedFor /\ PInv' /\ Served
  BY PInvStep DEF LoadedFirst, PInv
<1>2. [Next]_vars \/ Crash
  BY <1>1, ClientSteps
<1>3. /\ service # "none" => service' # "none"
      /\ service' # "none" => service # "none" \/ srv = "start"
      /\ srv' = "start" => srv = "start" \/ Spawn
  BY <1>1, ServiceMoves
<1>4. Served'
  <2> SUFFICES ASSUME NEW c \in Callers, handler'[c].at # "none" PROVE service' # "none"
    BY DEF Served
  <2>1. handler[c].at # "none" \/ listening
    BY <1>1, CallMoves
  <2>2. service # "none"
    BY <1>1, <2>1 DEF Served, ServerTypeOK
  <2> QED
    BY <1>3, <2>2
<1>5. ASSUME Healthy'
      PROVE  LoadInv' /\ ServiceLoaded'
  <2>1. Properties = {} /\ faults' = 0
    BY <1>5 DEF Healthy
  <2>2. LoadInv /\ ServiceLoaded
    <3>1. faults = 0
      BY <1>1, <1>2, <2>1, FaultsCounted
    <3> QED
      BY <2>1, <3>1 DEF LoadedFirst, Healthy
  <2>3. LoadInv' /\ \A ns \in Ns : Loaded(ns) => Loaded(ns)'
    BY <1>1, <1>2, <2>1, <2>2, LoadStep
  <2>4. ASSUME service' # "none" \/ srv' = "start"
        PROVE  \A ns \in Ns : Loaded(ns)'
    <3>1. CASE service # "none" \/ srv = "start"
      BY <2>2, <2>3, <3>1 DEF ServiceLoaded
    <3>2. CASE Spawn
      <4>1. pc["user"] = "spawn" /\ at["user"] > NumNs
        BY <2>2, <3>2 DEF Spawn, LoadInv
      <4>2. at["user"] \in Nat
        BY <1>1 DEF TypeInv, TypeOK, ThreadsTypeOK
      <4>3. \A ns \in Ns : ns < at["user"]
        BY <4>1, <4>2
      <4>4. \A ns \in Ns : Loaded(ns)
        BY <2>2, <4>1, <4>3 DEF LoadInv
      <4> QED
        BY <2>3, <4>4
    <3> QED
      BY <1>3, <2>4, <3>1, <3>2
  <2>5. ASSUME NEW c \in Callers, handler'[c].at = "looked",
               Lasting(handler'[c].ns, handler'[c].key)
        PROVE  handler'[c].answer \in Versions
    <3>1. CASE UNCHANGED handler[c]
      BY <2>2, <2>5, <3>1 DEF ServiceLoaded, Lasting
    <3>2. CASE /\ handler[c].at = "inside"
               /\ handler'[c].ns = handler[c].ns /\ handler'[c].key = handler[c].key
               /\ handler'[c].answer = Looked(container[handler[c].ns][handler[c].key])
      <4>1. PICK ns \in Ns, k \in Keys : ns = handler[c].ns /\ k = handler[c].key
        BY <1>1, <3>2 DEF AskedFor
      <4>2. Loaded(ns)
        BY <1>1, <2>2, <3>2 DEF Served, ServiceLoaded
      <4>3. Lasting(ns, k)
        BY <2>5, <3>2, <4>1 DEF Lasting
      <4>4. container[ns][k] \in Versions
        BY <4>2, <4>3 DEF Loaded
      <4> QED
        BY <3>2, <4>1, <4>4 DEF Looked
    <3> QED
      BY <1>1, <2>5, <3>1, <3>2, CallMoves
  <2> QED
    BY <2>3, <2>4, <2>5 DEF ServiceLoaded, Lasting
<1> QED
  BY <1>1, <1>4, <1>5 DEF LoadedFirst

\* As long as no request has failed, and without namespaces of properties, no
\* remote caller is answered the empty string for a key of every release: initImp
\* comes after client_var_.init, whatever the number of callers, namespaces,
\* releases and calls of init.
THEOREM AnswersAlwaysLoaded == PSpec => []AnswersAreLoaded
<1>1. PInit => LoadedFirst
  <2> SUFFICES ASSUME PInit PROVE LoadedFirst
    OBVIOUS
  <2>1. pc["user"] = "idle" /\ pc["back"] = "none" /\ service = "none" /\ srv = "new"
    BY DEF PInit, Init
  <2>2. \A c \in Callers : handler[c].at = "none"
    BY DEF PInit, NoCall
  <2>3. LoadInv
    BY <2>1 DEF LoadInv
  <2>4. Served /\ ServiceLoaded
    BY <2>1, <2>2 DEF Served, ServiceLoaded
  <2> QED
    BY <2>3, <2>4, PInvInit DEF LoadedFirst
<1>2. LoadedFirst => AnswersAreLoaded
  <2> SUFFICES ASSUME LoadedFirst, NEW c \in Callers,
                      handler[c].at = "looked", faults = 0, Properties = {},
                      \A v \in Versions : handler[c].key \in ReleaseKeys[handler[c].ns][v]
               PROVE  handler[c].answer \in Versions
    BY DEF AnswersAreLoaded
  <2> QED
    BY DEF LoadedFirst, Healthy, ServiceLoaded, Lasting
<1> QED
  BY <1>1, <1>2, LoadedFirstStep, PTL DEF PSpec

=============================================================================

------------------------------ MODULE ParamServer ------------------------------
(***************************************************************************)
(* The parameter server srpcServer_ of apollo_param: an RPC server around  *)
(* the configuration client of ConfigClient.  Its owner calls init and the *)
(* destructor; remote callers reach Echo, which reads the client, on the   *)
(* threads of the RPC server.  The RPC server is external: it runs         *)
(* handlers while it listens, and its stop() waits for those that run.     *)
(***************************************************************************)
EXTENDS ConfigClient

CONSTANT Callers    \* remote callers, one call at a time each

VARIABLES
    srv,         \* where the owner is
    service,     \* the service the RPC server has: imp_
    listening,   \* the RPC server has started and was not stopped
    handler,     \* per caller: its call of Echo
    shown        \* history: the newest answer a caller has had for a key

svars == <<srv, service, listening>>
pvars == <<vars, svars, handler, shown>>

NoCall == [at |-> "none", ns |-> 1, key |-> Absent, answer |-> Blank, floor |-> Blank]

PInit ==
    /\ Init
    /\ srv = "new"
    /\ service = "none"
    /\ listening = FALSE
    /\ handler = [c \in Callers |-> NoCall]
    /\ shown = [ns \in Ns |-> [k \in Keys |-> Blank]]

-----------------------------------------------------------------------------
(* The owner.                                                              *)

BeginInit_StartsFirst ==
    /\ srv \in {"new", "up"}
    /\ CallInit
    /\ srv' = "client"
    /\ listening' = TRUE
    /\ UNCHANGED <<service, handler, shown>>

\* Base_Server::init, up to client_var_.init.  Nothing stops it from being called
\* again.
BeginInit ==
    /\ srv \in {"new", "up"}
    /\ CallInit
    /\ srv' = "client"
    /\ UNCHANGED <<service, listening, handler, shown>>

\* client_var_.init.  An exception of its update reaches the owner.
InitClient ==
    /\ srv = "client"
    /\ Update("user")
    /\ srv' = IF pc'["user"] # "idle" THEN srv
              ELSE IF service = "none" THEN "new" ELSE "up"
    /\ UNCHANGED <<service, listening, handler, shown>>

ClientStarts ==
    /\ srv = "client"
    /\ Spawn
    /\ srv' = "start"
    /\ UNCHANGED <<service, listening, handler, shown>>

\* initImp.  start may fail, and init then returns true: start returns 0 for
\* success.
InitImp ==
    /\ Up
    /\ srv = "start"
    /\ srv' = "up"
    /\ service' = "live"
    /\ listening' \in BOOLEAN
    /\ UNCHANGED <<vars, handler, shown>>

\* ~srpcServer_ deletes the service ...
DeleteService ==
    /\ Up
    /\ srv \in {"new", "up"}
    /\ srv' = "deleted"
    /\ service' = IF service = "live" THEN "deleted" ELSE service
    /\ UNCHANGED <<vars, listening, handler, shown>>

StopServer_Listens ==
    /\ Up
    /\ srv = "deleted"
    /\ srv' = "stopping"
    /\ UNCHANGED <<vars, service, listening, handler, shown>>

\* ... stops the RPC server ...
StopServer ==
    /\ Up
    /\ srv = "deleted"
    /\ srv' = "stopping"
    /\ listening' = FALSE
    /\ UNCHANGED <<vars, service, handler, shown>>

DestroyClient_AtOnce ==
    /\ srv = "stopping"
    /\ CallDestroy
    /\ srv' = "gone"
    /\ UNCHANGED <<service, listening, handler, shown>>

\* ... which waits for the handlers, and ~Base_Server destroys the client.
DestroyClient ==
    /\ srv = "stopping"
    /\ \A c \in Callers : handler[c].at = "none"
    /\ CallDestroy
    /\ srv' = "gone"
    /\ UNCHANGED <<service, listening, handler, shown>>

JoinClient == Join /\ UNCHANGED <<svars, handler, shown>>

-----------------------------------------------------------------------------
(* Remote calls.                                                           *)

\* The RPC server calls Echo, which reads the pointer to the client out of the
\* service: undefined if that has been deleted.
Enter(c) ==
    /\ Up
    /\ listening
    /\ handler[c].at = "none"
    /\ \/ \E ns \in Ns, k \in Keys :
             handler' = [handler EXCEPT ![c] =
                           [at |-> "inside", ns |-> ns, key |-> k, answer |-> Blank,
                            floor |-> shown[ns][k]]]
          /\ UNCHANGED vars
       \/ /\ service = "deleted"
          /\ proc' = "terminated"
          /\ UNCHANGED <<server, poll, notifyId, container, flags, reconnect, mutex,
                         pc, work, faults, inits, history, handler>>
    /\ UNCHANGED <<svars, shown>>

Look(c) ==
    /\ handler[c].at = "inside"
    /\ Get(handler[c].ns, handler[c].key)
    /\ handler' = [handler EXCEPT
                     ![c].at = "looked",
                     ![c].answer = Looked(container[handler[c].ns][handler[c].key])]
    /\ UNCHANGED <<svars, shown>>

LookRace(c) ==
    /\ handler[c].at = "inside"
    /\ GetRace
    /\ UNCHANGED <<svars, handler, shown>>

Newest(old, new) == IF old < new THEN new ELSE old

\* response->set_value, and the answer goes out.
Reply(c) ==
    /\ Up
    /\ handler[c].at = "looked"
    /\ handler' = [handler EXCEPT ![c] = NoCall]
    /\ shown' = [shown EXCEPT ![handler[c].ns][handler[c].key] =
                   Newest(@, handler[c].answer)]
    /\ UNCHANGED <<vars, svars>>

-----------------------------------------------------------------------------
Serve(c) == Look(c) \/ LookRace(c) \/ Reply(c)

\* What goes on below the owner: the client's thread, and the service.
Below ==
    /\ BackThread \/ \E ns \in Ns : Publish(ns)
    /\ UNCHANGED <<svars, handler, shown>>

PNext ==
    \/ BeginInit \/ InitClient \/ ClientStarts \/ InitImp
    \/ DeleteService \/ StopServer \/ DestroyClient \/ JoinClient
    \/ \E c \in Callers : Enter(c) \/ Serve(c)
    \/ Below

PSpec == PInit /\ [][PNext]_pvars

\* Threads that can run do run: the owner's inside a call, the back thread, and
\* the handlers of the RPC server.
PFairness ==
    /\ WF_pvars(InitClient \/ ClientStarts \/ InitImp)
    /\ WF_pvars(StopServer \/ DestroyClient \/ JoinClient)
    /\ WF_pvars(BackThread /\ UNCHANGED <<svars, handler, shown>>)
    /\ \A c \in Callers : WF_pvars(Serve(c))

PFairSpec == PSpec /\ PFairness

-----------------------------------------------------------------------------
(* Properties.                                                             *)

CallsTypeOK ==
    handler \in [Callers -> [at : {"none", "inside", "looked"}, ns : Ns,
                             key : Keys \cup {Absent},
                             answer : Versions \cup {Blank},
                             floor : Versions \cup {Blank}]]

\* Every variable of the server has its type; once the service is gone for good
\* nobody listens, and there is one before anybody does.
ServerTypeOK ==
    /\ srv \in {"new", "client", "start", "up", "deleted", "stopping", "gone"}
    /\ service \in {"none", "live", "deleted"}
    /\ listening \in BOOLEAN
    /\ CallsTypeOK
    /\ shown \in [Ns -> [Keys -> Versions \cup {Blank}]]
    /\ listening => service # "none" /\ srv \notin {"stopping", "gone"}

\* No remote call is inside the client when its destructor begins or after: the
\* RPC server is stopped, and has waited, before ~Base_Server runs.
ClientOutlivesCalls ==
    \A c \in Callers :
        handler[c].at = "inside" => pc["user"] \notin {"destroy", "gone"}

\* The server answers remote calls only after the client has loaded: without a
\* failed request nobody gets the empty string for a key of every release.
AnswersAreLoaded ==
    \A c \in Callers :
        LET h == handler[c] IN
        /\ h.at = "looked" /\ faults = 0 /\ Properties = {}
        /\ \A v \in Versions : h.key \in ReleaseKeys[h.ns][v]
        => h.answer \in Versions

\* Over all remote callers, answers move only forward: who asks after somebody
\* was told a value is not told an older one, unless init ran twice.
AnswersGoForward ==
    \A c \in Callers :
        handler[c].at = "looked" /\ inits <= 1 /\ Properties = {} =>
            handler[c].answer >= handler[c].floor

\* The destructor of a server that remote callers keep asking comes to its end,
\* unless the process dies.
DestroyReturns == srv = "deleted" ~> pc["user"] = "gone" \/ ~Up

=============================================================================

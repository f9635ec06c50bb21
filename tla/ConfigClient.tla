----------------------------- MODULE ConfigClient -----------------------------
(***************************************************************************)
(* The configuration client apollo_client_base<T1, STRING_MAP> of          *)
(* include/apollo_base_client.h: a caller's thread that runs init, stop    *)
(* and the destructor, the long-polling thread backThread, any number of   *)
(* readers in getConfigByKey, and the Apollo config service as the client  *)
(* sees it (external: a release counter per namespace).                    *)
(*                                                                         *)
(* A value of a key is the number of the release it was read from.  What a *)
(* release holds is given by the constant ReleaseKeys, so a release may    *)
(* drop a key of the one before.  A namespace is the position of its name  *)
(* in the vector config_.namespace_; T1 = SINGLE_NAMESPACE is NumNs = 1.   *)
(***************************************************************************)
EXTENDS Integers, FiniteSets

CONSTANTS
    NumNs,            \* length of config_.namespace_
    Properties,       \* positions whose name ends neither in .yaml nor in .xml
    Keys,             \* the keys a namespace may hold
    ReleaseKeys,      \* ReleaseKeys[ns][v]: the keys release v of ns holds
    InitialBudget,    \* reconnect_times_{8}
    ResetBudget,      \* reconnect_times_ = 5
    StopBeforeInit,   \* callers stop() a client before they init() it again
    MaxRelease,       \* bound: releases of a namespace after the first
    MaxFaults,        \* bound: failing requests and unreadable bodies
    MaxInits          \* bound: calls of init

Ns == 1..NumNs
Versions == 0..MaxRelease

ASSUME NumNsAssumption == NumNs \in Nat \ {0}
ASSUME PropertiesAssumption == Properties \subseteq Ns
ASSUME ReleaseKeysAssumption == ReleaseKeys \in [Ns -> [Versions -> SUBSET Keys]]
ASSUME BudgetAssumption ==
    InitialBudget \in Nat /\ ResetBudget \in Nat /\ ResetBudget <= InitialBudget
ASSUME StopBeforeInitAssumption == StopBeforeInit \in BOOLEAN
ASSUME BoundAssumption == MaxRelease \in Nat /\ MaxFaults \in Nat /\ MaxInits \in Nat

VARIABLES
    released,     \* external: the newest release (and notification id) per namespace
    sent,         \* the ids the long poll under way carries
    reply,        \* the ids its 200 answer lists
    notifyId,     \* notify_container_
    container,    \* container_
    status,       \* status_
    threadStart,  \* thread_start_
    reconnect,    \* reconnect_times_
    mutex,        \* holder of container_mutex_, or "free"
    pc,           \* where the caller's thread and the back thread are
    at,           \* per thread: the position updateAllConfig has reached
    got,          \* per thread: the release the fetch returned
    left,         \* per thread: the keys parseYamlNode has still to store
    proc,         \* "terminated" after std::terminate or undefined behaviour
    faults, inits,  \* counters for the bounds
    applied,      \* history: the release of ns that was last stored whole
    missed,       \* history: namespaces whose newest fetch failed, or whose id was
                  \* taken over without a fetch
    fails         \* history: failed polls since the last successful one

server  == <<released>>
poll    == <<sent, reply>>
flags   == <<status, threadStart>>
work    == <<at, got, left>>
history == <<applied, missed, fails>>
vars == <<released, sent, reply, notifyId, container, status, threadStart,
          reconnect, mutex, pc, at, got, left, proc, faults, inits,
          applied, missed, fails>>

Threads  == {"user", "back"}
Unlisted == -1    \* the notification id of init, and "not in the answer"
Absent   == -2    \* no such key in container_
Blank    == -1    \* the empty string operator[] inserts

Empty == [ns \in Ns |-> Unlisted]   \* no ids at all

Points == {"none", "idle", "top", "poll", "reply", "fetch", "lock", "store",
           "wipe", "spawn", "join", "destroy", "exited", "gone"}

Up == proc = "up"

\* thread_.joinable(): a thread was started and not joined, ended or not.
Joinable == pc["back"] # "none"

\* Some thread is changing container_: a reader that comes now races with it.
Writing == \E t \in Threads : pc[t] \in {"store", "wipe"}

Init ==
    /\ released = [ns \in Ns |-> 0]
    /\ sent = Empty
    /\ reply = Empty
    /\ notifyId = Empty
    /\ container = [ns \in Ns |-> [k \in Keys |-> Absent]]
    /\ status = "STOPPED"
    /\ threadStart = FALSE
    /\ reconnect = InitialBudget
    /\ mutex = "free"
    /\ pc = [t \in Threads |-> IF t = "user" THEN "idle" ELSE "none"]
    /\ at = [t \in Threads |-> 1]
    /\ got = [t \in Threads |-> 0]
    /\ left = [t \in Threads |-> {}]
    /\ proc = "up"
    /\ faults = 0
    /\ inits = 0
    /\ applied = Empty
    /\ missed = {}
    /\ fails = 0

-----------------------------------------------------------------------------
(* The config service (external).                                          *)

\* Somebody publishes a release of ns in the portal.
Publish(ns) ==
    /\ released[ns] < MaxRelease
    /\ released' = [released EXCEPT ![ns] = @ + 1]
    /\ UNCHANGED <<poll, notifyId, container, flags, reconnect, mutex, pc, work,
                   proc, faults, inits, history>>

\* A request fails, or is answered by something the client cannot use.
Fault == faults < MaxFaults /\ faults' = faults + 1

Goto(t, point) == pc' = [pc EXCEPT ![t] = point]

-----------------------------------------------------------------------------
(* The caller's thread.                                                    *)

\* init(config), up to updateAllConfig.  Nothing in the code asks that the
\* previous thread was joined.
CallInit ==
    /\ Up
    /\ pc["user"] = "idle"
    /\ inits < MaxInits
    /\ StopBeforeInit => ~Joinable
    /\ inits' = inits + 1
    /\ notifyId' = Empty
    /\ status' = "STARTING"
    /\ Goto("user", "fetch")
    /\ at' = [at EXCEPT !["user"] = 1]
    /\ UNCHANGED <<server, poll, container, threadStart, reconnect, mutex, got,
                   left, proc, faults, history>>

\* The rest of init with startBackThread.  Assigning to a joinable std::thread
\* calls std::terminate.
Spawn ==
    /\ Up
    /\ pc["user"] = "spawn"
    /\ status' = "STARTED"
    /\ threadStart' = TRUE
    /\ IF Joinable
         THEN proc' = "terminated" /\ Goto("user", "idle")
         ELSE pc' = [pc EXCEPT !["user"] = "idle", !["back"] = "top"]
              /\ UNCHANGED proc
    /\ UNCHANGED <<server, poll, notifyId, container, reconnect, mutex, work,
                   faults, inits, history>>

CallStop_LeavesFlag ==
    /\ Up
    /\ pc["user"] = "idle"
    /\ Goto("user", IF Joinable THEN "join" ELSE "idle")
    /\ UNCHANGED <<server, poll, notifyId, container, flags, reconnect, mutex,
                   work, proc, faults, inits, history>>

\* stop(): status_ keeps its value.
CallStop ==
    /\ Up
    /\ pc["user"] = "idle"
    /\ threadStart' = FALSE
    /\ Goto("user", IF Joinable THEN "join" ELSE "idle")
    /\ UNCHANGED <<server, poll, notifyId, container, status, reconnect, mutex,
                   work, proc, faults, inits, history>>

\* ~apollo_client_base().
CallDestroy ==
    /\ Up
    /\ pc["user"] = "idle"
    /\ threadStart' = FALSE
    /\ status' = "STOPPED"
    /\ Goto("user", IF Joinable THEN "destroy" ELSE "gone")
    /\ UNCHANGED <<server, poll, notifyId, container, reconnect, mutex, work,
                   proc, faults, inits, history>>

\* thread_.join() returns, in stop or in the destructor.
Join ==
    /\ Up
    /\ pc["user"] \in {"join", "destroy"}
    /\ pc["back"] = "exited"
    /\ pc' = [pc EXCEPT !["back"] = "none",
                        !["user"] = IF @ = "join" THEN "idle" ELSE "gone"]
    /\ UNCHANGED <<server, poll, notifyId, container, flags, reconnect, mutex,
                   work, proc, faults, inits, history>>

-----------------------------------------------------------------------------
(* Readers.  container_[key] inserts an absent key, and takes no lock.     *)

Looked(c) == IF c = Absent THEN Blank ELSE c

Get(ns, k) ==
    /\ Up
    /\ pc["user"] # "gone"
    /\ container' = [container EXCEPT ![ns][k] = Looked(@)]
    /\ UNCHANGED <<server, poll, notifyId, flags, reconnect, mutex, pc, work,
                   proc, faults, inits, history>>

\* The same call while another thread changes the map: a data race, of which
\* the process may die.  getConfigKeys races the same way.
GetRace ==
    /\ Up
    /\ pc["user"] # "gone"
    /\ Writing
    /\ proc' = "terminated"
    /\ UNCHANGED <<server, poll, notifyId, container, flags, reconnect, mutex,
                   pc, work, faults, inits, history>>

-----------------------------------------------------------------------------
(* updateAllConfig and updateOneNs, on the thread t that runs them.        *)

AtNs(t) == pc[t] = "fetch" /\ at[t] <= NumNs

NextNs_SkipsOne(t) ==
    /\ at' = [at EXCEPT ![t] = IF @ < NumNs THEN @ + 2 ELSE @ + 1]
    /\ Goto(t, "fetch")

NextNs(t) ==
    /\ at' = [at EXCEPT ![t] = @ + 1]
    /\ Goto(t, "fetch")

\* What /configs/... answers: it reads the database, not the service's cache.
FetchAnswers_Cached(ns) == 0..released[ns]
FetchAnswers(ns) == {released[ns]}

\* getConfig<YamlPolicy> (or XmlPolicy) answers with the release there is now.
Fetch(t) ==
    /\ Up
    /\ AtNs(t)
    /\ at[t] \notin Properties
    /\ \E v \in FetchAnswers(at[t]) : got' = [got EXCEPT ![t] = v]
    /\ Goto(t, "lock")
    /\ UNCHANGED <<server, poll, notifyId, container, flags, reconnect, mutex,
                   at, left, proc, faults, inits, history>>

\* It answers with nothing: the error is logged and the namespace passed over.
FetchNothing(t) ==
    /\ Up
    /\ AtNs(t)
    /\ at[t] \notin Properties
    /\ Fault
    /\ NextNs(t)
    /\ missed' = missed \cup {at[t]}
    /\ UNCHANGED <<server, poll, notifyId, container, flags, reconnect, mutex,
                   got, left, proc, inits, applied, fails>>

LockContainer_NoWait(t) ==
    /\ Up
    /\ pc[t] = "lock"
    /\ mutex' = t
    /\ left' = [left EXCEPT ![t] = ReleaseKeys[at[t]][got[t]]]
    /\ Goto(t, "store")
    /\ UNCHANGED <<server, poll, notifyId, container, flags, reconnect, at, got,
                   proc, faults, inits, history>>

\* container_mutex_ is taken, and the document parsed.
LockContainer(t) ==
    /\ Up
    /\ pc[t] = "lock"
    /\ mutex = "free"
    /\ mutex' = t
    /\ left' = [left EXCEPT ![t] = ReleaseKeys[at[t]][got[t]]]
    /\ Goto(t, "store")
    /\ UNCHANGED <<server, poll, notifyId, container, flags, reconnect, at, got,
                   proc, faults, inits, history>>

\* YAML::Load throws and the guard gives the mutex back.  From init the
\* exception reaches the caller; nothing catches it in the back thread.
Malformed(t) ==
    /\ Up
    /\ pc[t] = "lock"
    /\ mutex = "free"
    /\ Fault
    /\ IF t = "user"
         THEN Goto("user", "idle") /\ UNCHANGED proc
         ELSE proc' = "terminated" /\ UNCHANGED pc
    /\ UNCHANGED <<server, poll, notifyId, container, flags, reconnect, mutex,
                   work, inits, history>>

\* The keys of a namespace carry its name in front, and an assignment replaces
\* the value that was there.
KeyPrefix_None(ns) == 1
KeyPrefix(ns) == ns
Assigned_InsertsOnly(old, new) == IF old = Absent THEN new ELSE old
Assigned(old, new) == new

\* parseYamlNode stores one leaf of the document.
StoreKey(t, k) ==
    /\ Up
    /\ pc[t] = "store"
    /\ k \in left[t]
    /\ container' = [container EXCEPT ![KeyPrefix(at[t])][k] = Assigned(@, got[t])]
    /\ left' = [left EXCEPT ![t] = @ \ {k}]
    /\ UNCHANGED <<server, poll, notifyId, flags, reconnect, mutex, pc, at, got,
                   proc, faults, inits, history>>

\* It has stored them all: end of the critical section.
UnlockContainer(t) ==
    /\ Up
    /\ pc[t] = "store"
    /\ left[t] = {}
    /\ mutex' = "free"
    /\ NextNs(t)
    /\ applied' = [applied EXCEPT ![at[t]] = got[t]]
    /\ missed' = missed \ {at[t]}
    /\ UNCHANGED <<server, poll, notifyId, container, flags, reconnect, got,
                   left, proc, faults, inits, fails>>

\* A properties namespace: getConfigNoBufferInner(config_.appid_, ...) takes
\* the application id for the server's address, finds no host in it and
\* returns an empty map ...  Names are taken to be at least as long as the
\* suffix ".yaml": ends_with (apollo_base.h:30-40) lets compare throw
\* out_of_range for a shorter one, which ends init by that exception before
\* there is a back thread.
FetchProperties(t) ==
    /\ Up
    /\ AtNs(t)
    /\ at[t] \in Properties
    /\ Goto(t, "wipe")
    /\ UNCHANGED <<server, poll, notifyId, container, flags, reconnect, mutex,
                   work, proc, faults, inits, history>>

\* ... which is assigned to the whole of container_, without the mutex.
Wipe(t) ==
    /\ Up
    /\ pc[t] = "wipe"
    /\ container' = [ns \in Ns |-> [k \in Keys |-> Absent]]
    /\ applied' = Empty
    /\ NextNs(t)
    /\ UNCHANGED <<server, poll, notifyId, flags, reconnect, mutex, got, left,
                   proc, faults, inits, missed, fails>>

\* After the last namespace.
UpdateDone(t) ==
    /\ Up
    /\ pc[t] = "fetch"
    /\ at[t] > NumNs
    /\ Goto(t, IF t = "user" THEN "spawn" ELSE "top")
    /\ UNCHANGED <<server, poll, notifyId, container, flags, reconnect, mutex,
                   work, proc, faults, inits, history>>

Update(t) ==
    \/ Fetch(t) \/ FetchNothing(t) \/ LockContainer(t) \/ Malformed(t)
    \/ (\E k \in Keys : StoreKey(t, k))
    \/ UnlockContainer(t) \/ FetchProperties(t) \/ Wipe(t) \/ UpdateDone(t)

-----------------------------------------------------------------------------
(* backThread and checkNotify.                                             *)

\* while (thread_start_): the long poll leaves with the ids the client holds.
SendPoll ==
    /\ Up
    /\ pc["back"] = "top"
    /\ threadStart
    /\ sent' = notifyId
    /\ Goto("back", "poll")
    /\ UNCHANGED <<server, reply, notifyId, container, flags, reconnect, mutex,
                   work, proc, faults, inits, history>>

LeaveLoop ==
    /\ Up
    /\ pc["back"] = "top"
    /\ ~threadStart
    /\ Goto("back", "exited")
    /\ UNCHANGED <<server, poll, notifyId, container, flags, reconnect, mutex,
                   work, proc, faults, inits, history>>

Refilled_Spends(budget) == ResetBudget - 1

\* A poll that did not fail refills the budget of reconnections.
Refilled(budget) == ResetBudget

\* External: the service answers 200 with the namespaces whose id differs.
ServerAnswers ==
    /\ Up
    /\ pc["back"] = "poll"
    /\ sent # released
    /\ reply' = [ns \in Ns |-> IF released[ns] # sent[ns] THEN released[ns]
                                                         ELSE Unlisted]
    /\ Goto("back", "reply")
    /\ UNCHANGED <<server, sent, notifyId, container, flags, reconnect, mutex,
                   work, proc, faults, inits, history>>

Listed == {ns \in Ns : reply[ns] # Unlisted}

\* notify_container_ after the elements of the answer for read were taken in.
Announced(read) ==
    [ns \in Ns |-> IF ns \in read THEN reply[ns] ELSE notifyId[ns]]

ReadReply_NoUpdate ==
    /\ Up
    /\ pc["back"] = "reply"
    /\ notifyId' = Announced(Listed)
    /\ reconnect' = Refilled(reconnect)
    /\ fails' = 0
    /\ Goto("back", "top")
    /\ reply' = Empty
    /\ UNCHANGED <<server, sent, container, flags, mutex, work, proc, faults,
                   inits, applied, missed>>

\* 200: every id of the answer is taken over, then every namespace is fetched.
ReadReply ==
    /\ Up
    /\ pc["back"] = "reply"
    /\ notifyId' = Announced(Listed)
    /\ reconnect' = Refilled(reconnect)
    /\ fails' = 0
    /\ Goto("back", "fetch")
    /\ at' = [at EXCEPT !["back"] = 1]
    /\ reply' = Empty
    /\ UNCHANGED <<server, sent, container, flags, mutex, got, left, proc,
                   faults, inits, applied, missed>>

Reconnect_NoLimit ==
    /\ fails' = fails + 1
    /\ Goto("back", "top")
    /\ reconnect' = reconnect - 1

\* What backThread does when checkNotify reports an error.
Reconnect ==
    /\ fails' = fails + 1
    /\ IF reconnect <= 0
         THEN Goto("back", "exited") /\ UNCHANGED reconnect
         ELSE Goto("back", "top") /\ reconnect' = reconnect - 1

\* 200 with a body that cannot be read to its end: the ids before the unreadable
\* element are kept, and the exception becomes BadGateway.
UnreadableReply ==
    /\ Up
    /\ pc["back"] = "reply"
    /\ Fault
    /\ \E read \in SUBSET Listed :
          /\ read # Listed
          /\ notifyId' = Announced(read)
          /\ missed' = missed \cup read
    /\ Reconnect
    /\ reply' = Empty
    /\ UNCHANGED <<server, sent, container, flags, mutex, work, proc, inits,
                   applied>>

\* 304: nothing changed while the service held the request, or the connection
\* was cut before the status line, which checkNotify reports as NotModified.
NotModified ==
    /\ Up
    /\ pc["back"] = "poll"
    /\ \/ sent = released /\ UNCHANGED faults
       \/ Fault
    /\ reconnect' = Refilled(reconnect)
    /\ fails' = 0
    /\ Goto("back", "top")
    /\ UNCHANGED <<server, poll, notifyId, container, flags, mutex, work, proc,
                   inits, applied, missed>>

\* Any other status, an exception, or the timeout of 62 seconds.
PollFails ==
    /\ Up
    /\ pc["back"] = "poll"
    /\ Fault
    /\ Reconnect
    /\ UNCHANGED <<server, poll, notifyId, container, flags, mutex, work, proc,
                   inits, applied, missed>>

-----------------------------------------------------------------------------
UserThread == CallInit \/ Spawn \/ CallStop \/ CallDestroy \/ Join \/ Update("user")

\* The steps of a call under way, which the scheduler owes the caller.
UserCall == Spawn \/ Join \/ Update("user")

BackThread ==
    \/ SendPoll \/ LeaveLoop \/ ServerAnswers \/ ReadReply \/ UnreadableReply
    \/ NotModified \/ PollFails \/ Update("back")

Readers == GetRace \/ \E ns \in Ns, k \in Keys : Get(ns, k)

Next == UserThread \/ BackThread \/ Readers \/ \E ns \in Ns : Publish(ns)

Spec == Init /\ [][Next]_vars

\* Threads that can run do run.  A poll always ends, by an answer or by its
\* timeout; nothing is assumed of callers, readers or publishers.
Fairness == WF_vars(BackThread) /\ WF_vars(UserCall)

FairSpec == Spec /\ Fairness

-----------------------------------------------------------------------------
(* Properties.                                                             *)

\* The ids the service and the client exchange.
IdsTypeOK ==
    /\ released \in [Ns -> Versions]
    /\ sent \in [Ns -> Versions \cup {Unlisted}]
    /\ reply \in [Ns -> Versions \cup {Unlisted}]
    /\ notifyId \in [Ns -> Versions \cup {Unlisted}]

\* What is stored, and what a fetch has brought.
StoreTypeOK ==
    /\ container \in [Ns -> [Keys -> Versions \cup {Absent, Blank}]]
    /\ got \in [Threads -> Versions]
    /\ left \in [Threads -> SUBSET Keys]
    /\ applied \in [Ns -> Versions \cup {Unlisted}]
    /\ missed \subseteq Ns

\* Where the threads are.
ThreadsTypeOK ==
    /\ pc \in [Threads -> Points]
    /\ at \in [Threads -> 1..(NumNs + 1)]
    /\ mutex \in Threads \cup {"free"}

\* The flags and counters.
FlagsTypeOK ==
    /\ status \in {"STOPPED", "STARTING", "STARTED"}
    /\ threadStart \in BOOLEAN
    /\ reconnect \in 0..InitialBudget
    /\ proc \in {"up", "terminated"}
    /\ faults \in 0..MaxFaults
    /\ inits \in 0..MaxInits
    /\ fails \in Nat

\* Every variable has its type.
TypeOK == IdsTypeOK /\ StoreTypeOK /\ ThreadsTypeOK /\ FlagsTypeOK

\* A value a reader can get is one that some release of its namespace gave that
\* key, and no release the service has not published (parseYamlNode stores what
\* getConfig returned, operator[] adds only empty strings).
ValuesReleased ==
    \A ns \in Ns, k \in Keys :
        container[ns][k] \in Versions =>
            /\ container[ns][k] <= released[ns]
            /\ k \in ReleaseKeys[ns][container[ns][k]]

\* container_mutex_ is held exactly by the thread that is merging a document,
\* even when init overlaps the back thread.
StoresExclude == \A t \in Threads : pc[t] = "store" <=> mutex = t

BeingStored(ns) == \E t \in Threads : pc[t] = "store" /\ at[t] = ns

\* Outside the merge of ns, the container holds one whole release of ns: every
\* key of the release stored last has the value of that release, none an older
\* or a newer one (keys of earlier releases may remain beside them).
WholeReleases ==
    \A ns \in Ns : \A k \in Keys :
        /\ ~BeingStored(ns)
        /\ applied[ns] \in Versions
        /\ k \in ReleaseKeys[ns][applied[ns]]
        => container[ns][k] = applied[ns]

StoredWhole == StopBeforeInit => WholeReleases

\* Between two updates, what the client has announced to hold (the id it sends
\* with the next poll) it does hold, but for the namespaces whose fetch failed:
\* checkNotify moves the ids before updateAllConfig fetches.
FreshBut(ignored) ==
    pc["back"] \in {"top", "poll", "reply", "exited"} =>
        \A ns \in Ns \ ignored : notifyId[ns] <= applied[ns]

PollFresh == StopBeforeInit /\ Properties = {} => FreshBut(missed)

\* A value a reader has seen is never replaced by an older one, and its key
\* never disappears, not even when init runs again (without properties
\* namespaces, and when callers stop the client first).
NeverBack ==
    \A ns \in Ns, k \in Keys :
        container[ns][k] \in Versions => container[ns][k] <= container'[ns][k]

ValuesNeverGoBack == [][StopBeforeInit /\ Properties = {} => NeverBack]_vars

\* The back thread gives up only after more than ResetBudget polls failed in a
\* row, counted over the restarts of the thread: init does not refill
\* reconnect_times_.
GivesUpLate ==
    [][pc["back"] \in {"poll", "reply"} /\ pc'["back"] = "exited"
          => fails' > ResetBudget]_vars

\* stop() and the destructor come back from join, unless the process dies: the
\* poll under way ends at its timeout at the latest, and the back thread then
\* sees thread_start_.
StopReturns == pc["user"] \in {"join", "destroy"} ~> pc["user"] \in {"idle", "gone"} \/ ~Up

\* The client has been told to stop, has given up, or is dead.
Ended == ~Up \/ ~threadStart \/ pc["back"] \in {"none", "exited"}

\* While the back thread runs, a published release is applied in the end, or
\* its fetch failed.
AppliedOrMissed ==
    \A ns \in Ns : \A v \in Versions :
        released[ns] = v ~> applied[ns] >= v \/ ns \in missed \/ Ended

\* README.md.old:100, "200: pull the fresh data, update notifications": a
\* published change reaches the client.  The code moves the ids first, so a
\* change whose fetch fails once is never asked for again.
ChangesArrive ==
    \A ns \in Ns : \A v \in Versions :
        released[ns] = v ~> applied[ns] >= v \/ Ended

-----------------------------------------------------------------------------
(* What the client promises its readers (module ConfigFeed).               *)

Feed == INSTANCE ConfigFeed WITH published <- released, view <- applied

FeedSpec == Feed!Spec

=============================================================================

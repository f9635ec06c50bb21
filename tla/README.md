# Verification of apollo_cpp

TLA+ models of a C++ client library for the Apollo configuration service: what
TLC checks of them on small instances, and what TLAPS proves of them for every
value of the constants. Paths are relative to the repository, `src/` being its
root in the references of `PROJECT.json`.

## 1. The system

The Apollo service has two sides. Its *config service* hands out released
configurations and tells long-polling clients that something was released; its
*portal* (the open platform) lets authorised programs edit the drafts and
publish them. The library has a client for each side, a server that shares them
over RPC, and a TCP proxy. Both services are external to the repository.

| component | state | operations | talks to |
|---|---|---|---|
| **Configuration client** `apollo_client_base` (`include/apollo_base_client.h`) | `container_` (key → value), `notify_container_` (namespace → notification id), `container_mutex_`, `thread_start_`, `status_`, `reconnect_times_`, `thread_` | `init`, `stop`, destructor, `getConfigByKey`, `getConfigKeys`, `backThread` (poll, fetch, merge) | config service over HTTP; readers on any thread |
| **Open-platform client** `apollo_ctrl_base` (`include/apollo_openapi_base.h`, `src/apollo_openapi_base.cpp`) | `g_map` (entries, which may alias the tree), `g_node_map` (one YAML tree per namespace) | `init`, `getConfig`, `setConfig`, `addNewConfig`, `deleteConfig`, `keyExist`, `publishNamespace` | portal over HTTP, where other people edit too |
| **Stateless open-platform calls** `apollo_openapi_client_single`, `apollo_openapi_base` (`src/apollo_openapi_client.cpp`, `src/apollo_base.cpp`) | address, appid, token | create (two requests), modify, delete, publish, get | portal over HTTP |
| **HTTP helpers and parsers** `apollo_base` | none | `getConfig<POLICY>`, `parseYamlNode`, `modifyGiveNameYamlNode`, `deleteGiveNameYamlNode`, `parseXmlNode`; `getYamlConfig` and the `getConfigNoBuffer…` readers | used by the two clients; config service over HTTP |
| **Parameter server** `apollo_param` | a client (`client_var_`), the RPC server, the service `imp_` | `init`, destructor, the remote call `Echo` | the configuration client or the open-platform client; remote callers on the threads of the RPC server |
| **Proxy TCP client** `CTcpClient` (`apollo_client_proxy/src/easy_tcpclient.cpp`) | the socket, `m_socket_write_mutex`, `m_async_request_in_progress`, `m_created`, an io thread | `Create`, `Destroy`, `ExecuteRequest`, `ExecuteRequestAsync` | proxy server over one TCP connection |
| **Proxy TCP server** `CTcpServer`, `CAsioServer`, `CAsioSession`, `apollo_proxy_server` | `m_started`, `m_server`, `m_server_thread`, `data_map_`, `monitor_server_`; one session per connection with `request_` and `response_`; `connect_cnt_` | `Init`, `Start`, `Stop`, `StartMonitorService`, destructors, the server thread, accept, read and write handlers, the request callback | proxy clients over TCP |
| **Generic values** `XmlRpcValue`, `RosStoreContainer` (`include/param.h`) | a tagged union with its own memory; a map from keys to such values | assignment, comparison, conversion, indexing; `set` and `get` with static types | their caller |

Hard behaviours, by component, and what makes each correct:

- *Configuration client*: readers do not take the mutex that the merging thread
  takes; ids are taken over before documents are fetched; `init` may overlap the
  back thread; failures spend a budget after which the thread ends for good;
  `stop` joins a thread that may sit in a poll. Correct: readers see only
  released values and whole releases, never go back, the announced ids are held,
  `stop` returns.
- *Open-platform client*: local tree and portal drift apart when requests fail,
  are lost or are overtaken; entries alias tree leaves across copies, deletions
  and reloads; each write sends a whole document. Correct: writes repair earlier
  failures, aliases stay sound, one write changes one key, what is deleted is not
  brought back.
- *Stateless calls*: a creation is two requests with other operators in between;
  a request that failed for its caller may still be taken; arguments that are too
  long are refused before anything is sent, but not by a creation. Correct: what
  `true` and `false` allow a caller to conclude.
- *TCP client*: synchronous, timed and asynchronous readers share one byte
  stream; a timeout races the late answer; handlers outlive the frames they
  write to. Correct: answers belong to their requests, callbacks run, calls
  return, the busy flag tells the truth.
- *Readers* (`apollo_base`): every failure is an empty result or map, a name that
  is too short throws instead, a map passed again is emptied before
  the request is sent. Correct: a read gives what was released during it, or nothing.
- *TCP server*: no request framing, a connection count that only some errors
  count down, stop before the server thread has created the server, a base class
  that stops the handlers after the derived members are gone. Correct: no live
  connection is denied, the thread is joined once, answers keep their order.
- *Parameter server*: teardown order, ignored results of `init`, remote reads
  beside the back thread. Correct: nobody is inside a client that is destroyed,
  nobody is answered before it has loaded, answers do not go back.
- *Generic values*: an access may change the type of a value, a throw may leave it
  half changed, comparison walks two structs in step. Correct: comparison is an
  equivalence, an access only adds, what is set is what is got.

## 2. Modules

| module | models |
|---|---|
| `ConfigClient` | the configuration client |
| `ConfigFeed` | what the configuration client promises its readers: a view that moves forward through released versions; abstract, `ConfigClient` implements it |
| `ParamServer` | the parameter server; extends `ConfigClient` |
| `CtrlStore` | the open-platform client and one YAML and one properties namespace |
| `OpenApiClient` | the stateless calls, by several operators |
| `ConfigReader` | the readers of `apollo_base` beside those calls; extends `OpenApiClient` |
| `TcpClient` | the proxy's TCP client |
| `TcpServer` | the proxy's TCP server and `apollo_proxy_server` |
| `TcpDialogue` | what the server promises the clients of its connections: answers in the order of the requests, each at most once; abstract, `TcpServer` implements it |
| `ParamStore` | `XmlRpcValue` and `RosStoreContainer` |
| `ParamCompare` | what walks a whole value of `ParamStore`: `operator==` and the type invariant, both by recursive functions |
| `MCConfigClient`, `MCParamServer`, `MCCtrlStore`, `MCConfigReader`, `MCTcpClient`, `MCTcpServer`, `MCParamStore` | instances for TLC: definitions for the constants |
| `ConfigClient_proofs`, `ParamServer_proofs`, `CtrlStore_proofs`, `OpenApiClient_proofs`, `ConfigReader_proofs`, `TcpClient_proofs`, `TcpServer_proofs`, `ParamStore_proofs` | theorems and proofs |

Two modules are compositions. In `ParamServer` the owner of the server and its
remote callers take the steps of the client's caller and readers; in
`ConfigReader` operators write through the portal and read back what was
published. `TcpServer` and `TcpClient` are the two ends of one connection and
are checked apart: each has the other end as its environment, and `TcpDialogue`
lies between them. `TcpServer` is shown to implement it, and it is what `TcpClient`
assumes of its server: an answer comes in the turn of its request, or never.

**ConfigClient.** Values are release numbers; `ReleaseKeys[ns][v]` says which
keys release `v` has. Two threads run the update loop, `"user"` (in `init`) and
`"back"`; each has a program counter `pc`, a position `at` among the namespaces
and the fetched release `got`. `container`, `notifyId`, `mutex`, `reconnect`,
`threadStart` and `status` are the members of those names. A fetch
(`Fetch`), the taking of the mutex (`LockContainer`), every stored key
(`StoreKey`) and its release (`UnlockContainer`) are separate steps, so readers
(`Get`) and the other thread come in between. `getConfigByKey` is modelled with
the insertion `container_[key]` makes; its race with a merge is
undefined behaviour, of which the model has two outcomes, none and the end of
the process (`GetRace`). `CallInit`, `Spawn`, `CallStop`,
`CallDestroy` and `Join` are the caller's; starting a second thread over a
joinable one terminates the process, as does a malformed document in the back
thread. `ServerAnswers`, `ReadReply`, `UnreadableReply`, `NotModified`,
`PollFails` are the outcomes of a long poll. The history variables `applied`
(release stored last), `missed` (namespaces whose fetch failed) and `fails`
serve the properties. `StopBeforeInit` states whether callers stop a
client before they start it again.

**ParamServer.** `srv` is where the owner is: `BeginInit`, `InitClient`,
`ClientStarts` and `InitImp` are `Base_Server::init`, one for each thing that can
interleave with a remote call; `DeleteService`, `StopServer`, `DestroyClient` and
`JoinClient` are `~srpcServer_` and what `~Base_Server` does to the client.
`service` is the object the RPC server holds, `listening` whether the RPC server
runs handlers. A remote call is `Enter`, `Look` (`getConfigByKey`) and `Reply`;
one that enters while the service is deleted and the server not yet stopped may
end the process. `shown` is the newest answer any caller has had for a key, and a
call records it on entry as its `floor`.

**CtrlStore.** `content` and `items` are the portal, `tree` is `g_node_map`,
`entry` and `prop` are the two maps of `g_map`. An entry is `Linked` when it is a
reference to the leaf of the tree; the code's `auto store_map = ...` copies
entries but shares the nodes, so an entry that is added or erased in the copy is
not seen by the next call. Each call is one action that includes its request;
the request succeeds, fails, or is taken with its answer lost. `DeleteLast` is
the removal of the last leaf of a map inside the loop over that map, which the
code may not survive in a defined way. `DeleteConfig` of a null leaf removes
nothing and sends the document as it was, and its key still counts as deleted when
the call returns true. `LoadFails` is an `init` that ends by an exception, of the
request or of a document that does not parse: each namespace is loaded or not.

**OpenApiClient.** A call is a request in flight (`sent`), its `answered` state
and its return; `NamespaceDone` sends the second request of a private creation.
`GiveUp` is an exception: the request may never have arrived, may have been
taken, or stays in `late` and is taken at any later time. `known` records what
an operator may conclude from its own calls: it is set when a call returns true
that nobody met, and forgotten when anybody else touches the configuration. `before`
is what the portal had of the configuration when a call began. `LongNames` are names
that make the arguments longer than 256 together: `Refused` says which calls look at
that before they send, and such a call has its answer, false, at once. Such a name can
be created as a public namespace, whose URL does not have it.

**ConfigReader.** A read is `BeginRead` (the checks of length and name, and the
request), `ServiceAnswers` and `ReadReturns`; `ResultOf` says what each of the
functions makes of an answer: `getConfig` with its three policies,
`getYamlConfig`, and the four `getConfigNoBuffer…` functions. `out` is the map a
caller passes to the one with an output, `Before` what it holds at first. The loop that
copies the items into a map may meet one that is no string and throw: `Part[v]` is what
has been copied of `v` by then, and `Answerable` says where it may be all there is. `Write` is
any step of `OpenApiClient`, with the history `told`: what the caller of a publish
that returned true knows to be released.

**TcpClient.** The byte stream is a sequence of pieces, headers and bodies,
tagged with the request they answer; the tag is invisible to the program, a
reader takes whatever comes next and makes `Garbage` of a piece it did not
expect. Caller threads hold the mutex from `Lock` to `Return`; `Drain` and
`Write` are `SendRequest`, `GiveUp`, `HeaderDone`, `ReadHeader`, `ReadBody` and
`ReadThrows` are `ReceiveResponse`. The io thread runs one handler at a time
(`IoHeader`, `IoError`, `IoAborted`, `IoAgain`, `IoBody`, `IoBodyFails`,
`Timer`, `Dangling`) and blocks while it reads the body of an asynchronous answer.
`dangling` counts handlers that capture a frame that has been left by
reference: such a handler changes nothing or sets a flag of the thread's next
call. The server answers requests in order, or not at all:
`Write` chooses, since the server takes requests that come close together for one.

**TcpServer.** Two threads: the owner (`InitServer`, `StartMonitorService`,
`CallStop`, `Join`, `DestroyProxy`, `DestroyServer`) and the server thread
(`CreateServer`, `Run`, `RunReturns` and every handler). `started`, `server`,
`thread` are `m_started`, `m_server` and whether `m_server_thread` is joinable;
`died` says why the process ended, an assignment to or destruction of a joinable
thread among the reasons, and so is a document of the proxied client that is no
scalar: its conversion throws out of the handler. The destructor is two steps, the
derived class and then the base, so handlers run in between. A session is reading, writing, deleted, or
abandoned by a stop; a request is two pieces of the stream, `HandleRead` takes any
number of those that have arrived and hands them over when the socket looks
empty. `Understood` says what the message parser makes of pieces of several
requests: the last one, when they are whole. `split` and `crowded` record which
connections had a request handed over in parts, or sent one before an answer.

**ParamStore.** A value is its type, the content of a scalar and its elements.
Every accessor and conversion of `XmlRpcValue` is an operator that yields the
value afterwards and whether it threw (`AsScalar`, `AsArray`,
`AsStruct`, …); the actions apply them to the caller's values `val` and to the
container `params`. `SetScalar`, `SetVec`, `SetMap`, `GetScalar`, `GetVec`,
`GetMap` are the templates of `param.h` for the static types bool, int, double
and string; `last` remembers what was set and `op` what the last call gave.
In `ParamCompare`, `Roots` are the values of the caller and of the container,
`Inside(Roots)[d]` what lies `d` levels inside them, and `Held` all of it.
`Equality` is `operator==` on such a set, a recursive function; `SameContent` is one
level of it, in which the members of two structs are compared by their `Place` in the
order of the names, since the code moves two iterators in step. `WellFormed` is the
type of one level of a value.

## 3. Runs

| run | expected | question and result |
|---|---|---|
| `client_safety` | pass | `TypeOK`, `ValuesReleased`, `StoredWhole`, `PollFresh`, `ValuesNeverGoBack`, `GivesUpLate`, the refinement `FeedSpec`, and under fairness `StopReturns` and `AppliedOrMissed`, for a caller that stops before it starts again |
| `client_reentrant` | pass | `init` overlaps the back thread and one namespace is a properties file: `StoresExclude` still holds |
| `client_lost_update` | violation | `ChangesArrive`: the id is taken over before the fetch, so a change whose fetch fails once is never asked for again (`README.md.old:100` describes the opposite order) |
| `parameter_server` | pass | `ClientOutlivesCalls`, `AnswersAreLoaded`, `AnswersGoForward`, and under fairness `DestroyReturns`: two remote callers read while the server is initialised, updated and destroyed |
| `ctrl_safety` | pass | `Synced`, `LinksAreSound`, `DeletedStaysAway`, `WritesChangeOneKey` with failed and lost requests, foreign edits, reloads and partial loads |
| `ctrl_writes` | violation | `WritesReachPortal`: `setConfig` on a properties namespace returns true and sends nothing (`README.md:92`) |
| `openapi_safety` | pass | `KnownIsHeld`, `CreatedOnce`, `RefusedChangesNothing`, `PublishesWhatWasWritten` of the calls, `PublishedIsRead` and `HoldsThisRead` of the readers beside them |
| `tcp_safety` | pass | `TypeOK`, `CleanAnswersMatch`, `BusyIsBusy`, `NoCallAfterResponse` |
| `tcp_live` | pass | `CleanCallsReturn` |
| `tcp_in_flight` | violation | `OneAsyncAtATime`: rejecting a second asynchronous request clears the flag of the first (`easy_tcpclient.cpp:127`) |
| `tcp_server` | pass | `ThreadOwned`, `StoppedIsSafe`, `ConnectionsCounted`, `AnswersInOrder`, the refinement `DialogueSpec`, and under fairness `LastRequestAnswered` and `StopReturns` |
| `param_store` | pass | `TypeOK`, `EqIsEquivalence`, `AccessOnlyAdds`, `RoundTrip` |

What the passing properties say in words stands above each of them in its
module, together with the condition it needs. The conditions are the results:
`StoredWhole` and `ValuesNeverGoBack` need callers that stop the client before
they start it again, `Synced` a last write that succeeded,
`DeletedStaysAway` a leaf that was not null, `KnownIsHeld` and
`RefusedChangesNothing` an undisturbed call, `CleanAnswersMatch` a request sent
while nothing else is under way, `StoppedIsSafe` an owner whose `Stop` found the server
created, `AnswersInOrder` a connection no request of which was handed over in
parts, `AnswersGoForward` one call of `init`. `ConnectionsCounted` is one side only:
the count may be too high. Without these conditions the code does not keep the
promise: for example a synchronous request after a timeout takes the late
answer for its own when that answer arrives after the socket has been read empty,
and a server destroyed before its thread has created the acceptor ends the
process.

For every property of a passing run, `PROJECT.json` names a mutant, a definition
of a plausible bug in the mapped code, under which TLC finds it violated.

### Bounds

- `ConfigClient`: two namespaces and two keys are enough for two threads to be
  at different namespaces and for a release to add a key to one namespace and to
  drop one from the other. One further release and two failures let a release fall
  between any two steps. Two calls of `init` give every overlap of a restart.
  Budgets 2 and 1 keep the order of the code's 8 and 5, so that both are used up
  within two failures.
- `ParamServer`: one namespace, one key that every release has, one further
  release, two remote callers, one failure, two calls of `init`: one caller is
  told the new value while the other still holds the old one, and either may be
  inside when the destructor begins.
- `CtrlStore`: two keys (the last leaf and one of two), two values, two
  failures, one foreign edit: a failed write, its repair and an edit
  between them.
- `OpenApiClient` and `ConfigReader`: two operators, a name with and one without the
  suffix and one that is too long, three calls, one request given up, one read:
  creation, deletion and recreation with a late request and a competitor, or a write,
  its publication and another's between it and the read. One read is enough since a
  read reads nothing an earlier read has written but the map `out`, and `Before`
  lets that map hold something at first.
- `TcpClient`: two threads, three requests (two in `tcp_live`), one broken
  connection. Three is the least number for a third request
  to meet what a timeout or a rejection of the second did to the first.
- `TcpServer`: two connections, one of which sends two requests while the other
  only comes and goes, two starts, one failure: two requests merged, split, or
  one late; a stop in any state and a restart.
- `ParamStore`: two values, one key, two member names, three calls that change a
  value; gets are unbounded. Arrays and structs of arrays and structs, and
  indices -1 to 1, occur within three calls.

Deadlock checking is off where the client or the server may be destroyed, the
process may end, or calls are bounded; `CtrlStore` checks it.

### Fairness

- `ConfigClient`: weak fairness of the back thread and of a caller inside a
  call. Both are operating-system threads; the poll they wait for has
  a timeout (62 s in the code), so a step is always possible in the end. There is none
  for calls that were not made or for releases.
- `ParamServer`: the same of the owner inside `init` and the destructor, of the
  back thread, and of handlers that have been entered, which run on threads of the
  RPC server. New remote calls may never stop coming and are not fair.
- `TcpClient`: weak fairness of every caller inside a call, of the timers and of
  the io thread, which are threads or timers of asio; and that an answer whose
  header has arrived arrives to its end or the connection breaks. It is not
  assumed that the server answers.
- `TcpServer`: weak fairness of the server thread, of each session's handlers (the
  io_service runs what is ready) and of an owner inside `Stop` or the destructor.
  Clients are not fair.

## 4. Proofs

Everything in the eight proof modules is checked by tlapm, about 13600 obligations,
from the named assumptions on the constants alone: bounds are naturals,
`ResetBudget <= InitialBudget`, clients of the proxy and names of members are
finitely many, sentinels differ from values and from each other, what is stored as a
bool is 0 or 1. Every safety property of a passing run is the statement of a theorem.
The types of `CtrlStore`, `OpenApiClient`, `ParamServer` and `TcpServer` are proved
and no run repeats them.

**ConfigClient_proofs.** `TypeCorrect` proves `TypeOK` from `TypeInv`, which adds
that a thread inside an update is at a namespace that exists. `MergesExclude`
is inductive with it. `GivesUpOnlyLate` needs `BudgetInv`: the budget and the
failures in a row add up to what the thread started or was refilled with, across
restarts. `OnlyReleasedValues` needs that what a thread has fetched was released
(`FetchedReleased`). `NamespacesStayWhole`, `PollsAreFresh` and
`ReadersNeverGoBack` hold for callers that stop first; their common ground is
`Solo`, that the caller's thread and the back thread are not both at work.
`NamespacesStayWhole` adds `StoredSoFar`, what a merge has stored up to now;
`ReadersNeverGoBack` adds `ForwardInv`, that a fetched release is not
older than the applied one; `PollsAreFresh` adds `FreshInv`, which follows the
notification id from the answer through fetch and merge. `ImplementsFeed` is the
refinement of `ConfigFeed` under `published <- released, view <- applied`: every
step is a publication, a refresh or a stutter.

**ParamServer_proofs.** A step of the server is a step of the client, a step that
leaves the client alone, or the crash of a call that found the service deleted
(`ClientSteps`); so the step lemmas of `ConfigClient_proofs` are reused, not its
theorems. `PInv` adds to types where the owner is when the client is in an update
or destroyed; `ParamServerTypeCorrect` and `CallsEndFirst` follow.
`AnswersNeverGoBack` needs that the first call of `init` finds no thread
(`FirstInit`), hence `Solo` and `ForwardInv` while `init` has run once, and
`AnswersHeld`: what was shown, and what a call has seen or was promised, is in the
container still, or something newer. `AnswersAlwaysLoaded` needs `LoadedFirst`: while
no request has failed (`Healthy`), what the update loop has passed is loaded
(`LoadInv`), the service exists only once all of it is (`ServiceLoaded`), and a call
is inside only while or after there was a service (`Served`). `AnswersAreReleased`
needs neither condition: what a call was answered a published release gave its key.
`ServerImplementsFeed` carries the refinement of `ConfigFeed` over to the server,
which does not stop the client before `init`: while `init` has run once, the invariant
of `AnswersNeverGoBack` does for the client what `Solo` does in `ImplementsFeed`, and
a call that crashes changes nothing the feed shows.

**CtrlStore_proofs.** `Sound` joins types and the soundness of aliases and is
inductive over all calls, outcomes and reloads; `CtrlTypeCorrect` and
`AliasesSound` follow. `WriteEffect` says what one write does to tree and portal
in each of its outcomes; from it and `Sound`, `IInv` is inductive and gives
`WritesRepair`, `DeletionsLast` and `OneKeyPerWrite`. For `DeletionsLast` it is enough
that a deleted key keeps an entry with a value of its own and that the tree has no
value under it: `HasLeaf` is then false, and no `setConfig` reaches the tree.

**OpenApiClient_proofs.** `IInv` joins the types with `AloneIsAlone` (a call that
nobody met has its configuration to itself, among calls and late requests),
`KnownIsSafe` and `AnsweredHolds` (while an operator knows something, only what
cannot change it is under way, and an answered call has left what it was given),
`OneHolder` (at most one operator is between an accepted creation and the return
of its call, and none once a creation has returned true), `Unspoiled` and
`PublishedKnown`. `Unspoiled` is about a call that nobody disturbed: until its first
request is accepted the portal has what it had when the call began (`Pristine`), a
private creation between its two requests has a namespace without an item
(`HalfMade`), and so its item is not refused. It gives `CallsTypeCorrect`,
`KnownStaysHeld`, `PrivateCreatedOnce`, `RefusalsChangeNothing` and
`PublishesTheWritten`.

**ConfigReader_proofs.** `ReadersLeaveCallsAlone`: a behaviour with readers is one
of `OpenApiClient`, whose theorems carry over. `RInv` adds that what a caller of
publish knows is released as long as no publication is under way
(`ToldIsReleased`), and that a read has seen every release since it began
(`ReadSince`, `ReadTold`), an answer cut short by an exception being a part of one of
them; it gives `PublishedReachesReaders` and `ReadsAreFresh`.

**TcpClient_proofs.** The invariant has a part for each thing a reader of the code
would have to know. `MutexHeld`: the mutex is held by the thread that is past its
lock, and by nobody else; `Numbered`, `Staged` and `Queued` say which requests the
threads, the socket and the io thread can be working on; `FewDangling` bounds the
handlers that point into frames that were left, two for each call. With the types
these give `ClientTypeCorrect`. An asynchronous request has one handler at most,
on the socket, among the cancelled reads or in the io thread (`OneHandler`), none
before it is admitted (`NoneBefore`) and none after its response (`NoneAfter`); from
these follow `Busy`, hence `NeverBusyForNothing`, and `NoCallbackAfterResponse`. A
clean request is alone (`CleanIsAlone`): while it is under way no read but its own is
posted or cancelled, the io thread has no answer to read, no handler of an earlier
call is left that could write into its frame before it has the header, and the bytes
on the wire are a part of its own answer, of which `BeforeHeader` and `AfterHeader`
list all that can be; `CleanRequestsGetTheirOwn` follows.

**TcpServer_proofs.** `Lifecycle` says which phases of the server thread go with
`m_started`, `m_server` and the owner; with it `ThreadsAreOwned` and
`DestroyedSafely`. `Counting` gives `ConnectionsAreCounted`: an accepted connection
adds one to the count and one live session, a session that ends takes one from the
live and at most one from the count; that there is none without a server
(`NoOrphans`) carries it over stops and restarts. With the types of sessions and
replies it gives `ServerTypeCorrect`. `AnswersComeInOrder` follows the bytes of one connection.
What the session has read and what is on the wire are, in this order, the pieces
of the requests after the last one handed over (`Follows`, `Stream`), a reply is to
a request after the last answered (`Ordered`), a client that waits for each answer has
at most one unanswered request (`Waiting`), and a read cuts the stream at some
place that leaves these true (`Cut`); where the cut goes through a request the
connection is in `split` and promises nothing. That every answer is what the
server's data gives needs `DataInv`: until the second start, the data changes only
while nothing has been served (`Idle`), or in the destructor. `ImplementsDialogue`
is the refinement of `TcpDialogue` from the same invariant, under `answered <- ` the
numbers of the answers written and `framed <- ` the connections not in `split`: a
send asks, a write answers, a read that splits a request gives the connection up.

**ParamStore_proofs.** Values nest. For what a call does to a value nothing need be
said of the inside of its elements: `Shaped` looks at a value one level deep, which is
as deep as an access goes. For each accessor a lemma says what it yields (`AsScalarKeeps`, `AsArrayKeeps`,
`AsStructKeeps`, `ElementSet`, `MemberSet`), for sizes and indices of any sign; they
give `AccessesOnlyAdd`. `WhatIsSetIsGot` needs `StoredInv`, that what the container
holds under a key is what the key was last set to, and `CastingAll`, that `xml_cast`
to the same or a wider static type gives the same number.

`CompareTypeCorrect` and `EqualityIsEquivalence` follow values down to their last
level. Their invariant, `CompareInv`, says with `Deep` that at every level values are
in order (`Whole`), that no array without memory lies inside another value or in the
container, and that there is nothing further down than there were calls. A call adds
one value (`Made`), put together from what there is, from elements of it and from
what has no elements, and so at most one level deeper (`InsideGrows`, `DeepStep`);
that every accessor and every `set` makes such a value is a lemma each.
That values end is what makes `operator==` terminate: `EqualityDef` shows that its
recursion defines something on a set of values that ranks them (`Ranked`), and
`EqualityOfDeep` that depth is such a rank. Reflexivity, symmetry and transitivity go
from one rank to the next (`SameContentReflexive`, `SameContentSymmetric`,
`SameContentTransitive`). For structs this needs that the places of the members of
one are exactly those of another of the same size (`PlacesTaken`), the fact that two
iterators moved in step come to the end together. The library's theorems on
induction and on recursive functions take an operator as a parameter, which the
installed provers cannot instantiate; `NatInSet` states induction for a set of
numbers instead, and `InsideDef` and `EqualityDef` prove the two recursions from it.

Only model-checked: the liveness properties (`StopReturns` of both modules,
`AppliedOrMissed`, `CleanCallsReturn`, `LastRequestAnswered`, `DestroyReturns`),
since the provers do not treat fairness and ENABLED.

## 5. External parts

The config service, the portal, the network, the RPC server and the peers of the
proxy are not in the repository, or are beyond it. They are modelled from what the
code sends and how it reads the answers: the service answers a poll with the
namespaces whose id differs, the portal refuses to create what exists and to
change what does not, a request may be lost before or after it was taken; the RPC
server runs handlers while it listens and its `stop()` waits for those that run.
These definitions are marked external in `PROJECT.json`.

## 6. Abstractions

Keys, values and documents are members of small sets; wording, logging, URLs and
headers are left out. A YAML document is a map from flat keys to leaves. In
`CtrlStore` a namespace is independent of all others, so one of each format is
enough. In `TcpClient` a header or body is one piece; what a reader makes of
fewer or other bytes than it expected is `Garbage`, or an error where the code
reports one. `Create` and `Destroy` are not called during a request, and
asynchronous requests are made on a created object only; the code checks
neither. In `ConfigClient` names of namespaces are at least as long as the suffix
`.yaml`: for a shorter one `ends_with` (`apollo_base.h:30-40`) throws, which ends
`init` by that exception before there is a back thread; `ConfigReader`, where the
same function is called, has `ShortNames`. In `ConfigReader` a whole document stands
for what each form extracts of it. In `OpenApiClient` every URL that is built fits its buffer
of 256: the limits the code checks leave out the fixed parts of the URL, and a creation
checks none, so a longer one is undefined behaviour. That is why a private creation is
not made with a name of `LongNames`. In `TcpServer` owners call `Init` on a server that is not started: the code
fills `data_map_` without a lock. In `ParamStore` the numbers are small, doubles
are halves, and no double is a NaN or beyond an int.

## 7. Not modelled

- `SsrpcServer_`, which wraps `apollo_ctrl_base` as `srpcServer_` wraps the
  configuration client, and the filling of a server's configuration.
- The XML parser and the branch that merges XML; `publishNamespace`;
  namespaces `.json` and `.xml` of the open-platform client.
- `getYamlConfig` of the open platform, which changes no state.
- Callbacks of the TCP client that call it again, and its event callback.
- The page of the proxy's monitor, and the clients in `data_map_`: the header that
  declares them is not in the repository. What they hand out may be any document.
- A `RosStoreContainer` shared by threads: `param.h` declares a mutex and never
  locks it, so callers have to.
- The JSON templates and URL constants: data without behaviour.
- Examples, command-line samples, the docker environment.

Observations made while modelling that no run states: the fetch of a properties
namespace goes to the appid in place of the address, so its result is empty and
replaces the whole container; `createNewPublicYamlConfig` does not use its
content; two structs that differ in the names of their members only are equal;
`get` of a vector or map that fails in the middle leaves the caller's variable
partly overwritten, and so does a read of the configuration into a map;
a session of the proxy server that ends by an error other than eof and
connection_reset stays in `connect_cnt_`, and `is_connected` says yes from then on; a
public creation takes a name of any length, which a modification, deletion or publication
may then refuse as too long; `deleteConfig` of a key whose leaf is null removes nothing,
PUTs the document as it was and returns true, though the key is still in the portal
(`README.md:102` presents the call as "delete one configuration"); `init` of the parameter server returns true when the RPC
server failed to start.

## 8. Plan

Done: the configuration client, its abstract specification and the parameter
server around it; the open-platform client; the stateless calls and the readers
beside them; both ends of the proxy's connection; generic values; the theorems
about each of them.

Next, in this order:

1. `OpenApiClient`'s publications seen by `ConfigClient` through `ConfigFeed`.
2. The XML branch of the configuration client, callbacks that call the TCP client
   again, `publishNamespace`.

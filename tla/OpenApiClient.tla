----------------------------- MODULE OpenApiClient -----------------------------
(***************************************************************************)
(* apollo_openapi_client_single and the requests of apollo_openapi_base it *)
(* is made of: several operators, each with an object of its own, create,  *)
(* modify, delete and publish YAML configurations of one appid.  A call is *)
(* one request or, for a private configuration, two; in between the others *)
(* work on the same configuration.  The portal is external.                *)
(*                                                                         *)
(* A request without a usable answer is a failure to the caller.  It may   *)
(* have been lost, may have been taken, or may be taken later.  Every URL  *)
(* is written into a buffer of 256; but for those of LongNames it fits.    *)
(***************************************************************************)
EXTENDS Integers

CONSTANTS
    Operators,
    Configs,       \* names passed as configname ...
    YamlNames,     \* ... and those of them that end with ".yaml"
    LongNames,     \* ... and those too long, with address, env and cluster: over 256
    Contents,
    NoItem,        \* no item "content" in the namespace; nothing released
    Unknown,       \* an operator cannot tell what the namespace holds
    Unnamed,       \* the empty name
    MaxCalls,      \* bound: calls
    MaxFaults      \* bound: requests without a usable answer

ASSUME NamesAssumption ==
    YamlNames \subseteq Configs /\ LongNames \subseteq Configs /\ Unnamed \notin Configs
ASSUME ContentsAssumption ==
    NoItem \notin Contents /\ Unknown \notin Contents \cup {NoItem}
ASSUME BoundsAssumption == MaxCalls \in Nat /\ MaxFaults \in Nat

VARIABLES
    ns,         \* portal: "none", "private" or "public"
    item,       \* portal: the item of the namespace
    released,   \* portal: what was released last
    late,       \* requests given up that have not been taken
    call,       \* per operator: the call it is in
    known,      \* history: what an operator may conclude a namespace holds
    made,       \* history: creations of a private configuration that returned true
    calls, faults

portal == <<ns, item, released>>
vars == <<portal, late, call, known, made, calls, faults>>

Kinds == {"private", "public", "item", "upsert", "update", "delete", "publish"}

Request(kind, c, v) == [kind |-> kind, config |-> c, content |-> v]

Idle == [at |-> "idle", op |-> "none", config |-> Unnamed, content |-> NoItem,
         req |-> Request("item", Unnamed, NoItem), ok |-> FALSE,
         alone |-> FALSE, before |-> <<"none", NoItem, NoItem>>]

Init ==
    /\ ns = [c \in Configs |-> "none"]
    /\ item = [c \in Configs |-> NoItem]
    /\ released = [c \in Configs |-> NoItem]
    /\ late = {}
    /\ call = [o \in Operators |-> Idle]
    /\ known = [o \in Operators |-> [c \in Configs |-> Unknown]]
    /\ made = [c \in Configs |-> 0]
    /\ calls = 0
    /\ faults = 0

-----------------------------------------------------------------------------
(* The requests.                                                           *)

\* The suffix is cut off and the portal puts it back; a name without it is sent
\* as the empty string.
CreateNewNamespace(c, isPublic) ==
    Request(IF isPublic THEN "public" ELSE "private",
            IF c \in YamlNames THEN c ELSE Unnamed, NoItem)

CreateNewConfig_Updates(c, v) == Request("update", c, v)

CreateNewConfig(c, v) == Request("item", c, v)

ModifyConfigNoProperties(c, v, createIfnotExists) ==
    Request(IF createIfnotExists THEN "upsert" ELSE "update", c, v)

DeleteConfig(c) == Request("delete", c, NoItem)

PublishConfig(c) == Request("publish", c, NoItem)

\* modifyConfigNoProperties, deleteConfig and publishConfig look at the lengths
\* before they send; a namespace is created whatever they are.
Refused(r) ==
    r.config \in LongNames /\ r.kind \in {"upsert", "update", "delete", "publish"}

-----------------------------------------------------------------------------
(* The portal (external).                                                  *)

Accepted(r) ==
    \/ r.kind \in {"private", "public"} /\ r.config # Unnamed /\ ns[r.config] = "none"
    \/ r.kind = "item" /\ ns[r.config] # "none" /\ item[r.config] = NoItem
    \/ r.kind = "upsert" /\ ns[r.config] # "none"
    \/ r.kind = "update" /\ ns[r.config] # "none" /\ item[r.config] # NoItem
    \/ r.kind = "delete" /\ ns[r.config] # "none" /\ item[r.config] # NoItem
    \/ r.kind = "publish" /\ ns[r.config] # "none"

Take(r) ==
    /\ ns' = IF r.kind \in {"private", "public"}
               THEN [ns EXCEPT ![r.config] = r.kind] ELSE ns
    /\ item' = IF r.kind \in {"item", "upsert", "update", "delete"}
                 THEN [item EXCEPT ![r.config] = r.content] ELSE item
    /\ released' = IF r.kind = "publish"
                     THEN [released EXCEPT ![r.config] = item[r.config]] ELSE released

Answer(o) ==
    /\ call[o].at = "sent"
    /\ call' = [call EXCEPT ![o].at = "answered", ![o].ok = Accepted(call[o].req)]
    /\ IF Accepted(call[o].req) THEN Take(call[o].req) ELSE UNCHANGED portal
    /\ UNCHANGED <<late, known, made, calls, faults>>

Forget(c) == known' = [o \in Operators |-> [known[o] EXCEPT ![c] = Unknown]]

Disturbed(c, calling) ==
    [o \in Operators |-> [calling[o] EXCEPT !.alone = @ /\ calling[o].config # c]]

\* A request that was given up arrives after all.
TakeLate ==
    \E r \in late :
        /\ Accepted(r)
        /\ Take(r)
        /\ late' = late \ {r}
        /\ Forget(r.config)
        /\ call' = Disturbed(r.config, call)
        /\ UNCHANGED <<made, calls, faults>>

-----------------------------------------------------------------------------
(* The calls.                                                              *)

Untouched(o, c) ==
    /\ \A p \in Operators \ {o} : call[p].config # c
    /\ \A r \in late : r.config # c

\* What the portal has of a configuration.
Held(c) == <<ns[c], item[c], released[c]>>

\* The first request of a call is sent, or the call has its answer at once.
Begin(o, op, c, v, request) ==
    /\ call[o].at = "idle"
    /\ calls < MaxCalls
    /\ calls' = calls + 1
    /\ call' = [Disturbed(c, call) EXCEPT ![o] =
                  [at |-> IF Refused(request) THEN "answered" ELSE "sent",
                   op |-> op, config |-> c, content |-> v, req |-> request,
                   ok |-> FALSE, alone |-> Untouched(o, c), before |-> Held(c)]]
    /\ IF op = "publish" THEN UNCHANGED known ELSE Forget(c)
    /\ UNCHANGED <<portal, late, made, faults>>

\* The URL of the second request has the name in it, and that of a long name
\* overflows its buffer: what a program does that makes such a call is undefined.
CreateNewPrivateYamlConfig(o, c, v) ==
    /\ c \notin LongNames
    /\ Begin(o, "private", c, v, CreateNewNamespace(c, FALSE))

\* The content it is given is not used.
CreateNewPublicYamlConfig(o, c) ==
    Begin(o, "public", c, NoItem, CreateNewNamespace(c, TRUE))

ModifyYamlConfig(o, c, v) ==
    Begin(o, "modify", c, v, ModifyConfigNoProperties(c, v, TRUE))

DeleteYamlConfig(o, c) == Begin(o, "delete", c, NoItem, DeleteConfig(c))

PublishYamlConfig(o, c) == Begin(o, "publish", c, NoItem, PublishConfig(c))

\* An exception, of the request or of the reading of its answer.
GiveUp(o) ==
    /\ call[o].at # "idle"
    /\ faults < MaxFaults
    /\ faults' = faults + 1
    /\ late' = IF call[o].at = "sent" THEN late \cup {call[o].req} ELSE late
    /\ call' = [call EXCEPT ![o] = Idle]
    /\ UNCHANGED <<portal, known, made, calls>>

NamespaceDone_IsAll(o) ==
    /\ call[o].at = "answered"
    /\ call[o].req.kind = "private"
    /\ call[o].ok
    /\ known' = IF call[o].alone
                  THEN [known EXCEPT ![o][call[o].config] = call[o].content] ELSE known
    /\ made' = [made EXCEPT ![call[o].config] = @ + 1]
    /\ call' = [call EXCEPT ![o] = Idle]
    /\ UNCHANGED <<portal, late, calls, faults>>

\* The private creation goes on to its item if the namespace was created.
NamespaceDone(o) ==
    /\ call[o].at = "answered"
    /\ call[o].req.kind = "private"
    /\ call[o].ok
    /\ call' = [call EXCEPT ![o].at = "sent",
                            ![o].req = CreateNewConfig(call[o].config, call[o].content)]
    /\ UNCHANGED <<portal, late, known, made, calls, faults>>

Result_Any(o) == TRUE

\* The status decides between true and false.
Result(o) == call[o].ok

Return(o) ==
    /\ call[o].at = "answered"
    /\ call[o].req.kind = "private" => ~call[o].ok
    /\ call' = [call EXCEPT ![o] = Idle]
    /\ LET c == call[o].config
       IN /\ known' = IF Result(o) /\ call[o].alone /\ call[o].op \in {"private", "modify", "delete"}
                        THEN [known EXCEPT ![o][c] = call[o].content] ELSE known
          /\ made' = IF Result(o) /\ call[o].op = "private"
                       THEN [made EXCEPT ![c] = @ + 1] ELSE made
    /\ UNCHANGED <<portal, late, calls, faults>>

-----------------------------------------------------------------------------
Next ==
    \/ TakeLate
    \/ \E o \in Operators :
          \/ Answer(o) \/ GiveUp(o) \/ NamespaceDone(o) \/ Return(o)
          \/ \E c \in Configs :
                \/ DeleteYamlConfig(o, c) \/ PublishYamlConfig(o, c)
                \/ CreateNewPublicYamlConfig(o, c)
                \/ \E v \in Contents :
                      \/ CreateNewPrivateYamlConfig(o, c, v)
                      \/ ModifyYamlConfig(o, c, v)

Spec == Init /\ [][Next]_vars

-----------------------------------------------------------------------------
(* Properties.                                                             *)

States == {"none", "private", "public"} \X (Contents \cup {NoItem})
                                        \X (Contents \cup {NoItem})

Requests ==
    [kind : Kinds, config : Configs \cup {Unnamed}, content : Contents \cup {NoItem}]

\* Every variable has its type.  Only requests for a namespace have no name, and
\* no item lies outside a namespace.
TypeOK ==
    /\ ns \in [Configs -> {"none", "private", "public"}]
    /\ item \in [Configs -> Contents \cup {NoItem}]
    /\ released \in [Configs -> Contents \cup {NoItem}]
    /\ \A c \in Configs : ns[c] = "none" => item[c] = NoItem /\ released[c] = NoItem
    /\ late \subseteq Requests
    /\ \A r \in late \cup {call[o].req : o \in {p \in Operators : call[p].at # "idle"}} :
          r.config = Unnamed => r.kind \in {"private", "public"}
    /\ call \in [Operators -> [at : {"idle", "sent", "answered"},
                               op : {"none", "private", "public", "modify", "delete", "publish"},
                               config : Configs \cup {Unnamed},
                               content : Contents \cup {NoItem}, req : Requests,
                               ok : BOOLEAN, alone : BOOLEAN, before : States]]
    /\ known \in [Operators -> [Configs -> Contents \cup {NoItem, Unknown}]]
    /\ made \in [Configs -> Nat]
    /\ calls \in 0..MaxCalls /\ faults \in 0..MaxFaults

\* A change that was reported as made is there: when a call of an operator has
\* returned true, and neither another's call nor a request given up earlier met
\* it or came after it, the namespace holds what the call was given.
KnownIsHeld ==
    \A o \in Operators, c \in Configs :
        known[o][c] # Unknown => item[c] = known[o][c]

\* Of all attempts to create a private configuration, by all operators and with
\* retries after lost answers and deletions, at most one is told it succeeded.
CreatedOnce == \A c \in Configs : made[c] <= 1

\* A call that the portal or the length check refuses has done nothing: unless
\* others disturb it, its configuration is what it was when the call began.  So a
\* private creation, of two requests, is left half-made by an exception or by the
\* others, and never by a refusal of its item.
RefusedChangesNothing ==
    \A o \in Operators :
        call[o].at = "answered" /\ ~call[o].ok /\ call[o].alone
        => Held(call[o].config) = call[o].before

\* What an operator publishes undisturbed is what it was told is there.
PublishesWhatWasWritten ==
    [][\A o \in Operators, c \in Configs :
          (/\ call[o].op = "publish" /\ call[o].config = c
           /\ call[o].at = "answered" /\ call[o].ok /\ call[o].alone
           /\ call'[o].at = "idle" /\ known[o][c] # Unknown)
          => released[c] = known[o][c]]_vars

=============================================================================

-------------------------- MODULE OpenApiClient_proofs --------------------------
(***************************************************************************)
(* Proofs about the open-platform calls, for all sets of operators, names  *)
(* and contents.  The inductive invariant says how a request fits its call *)
(* (FitsCall), that a call which thinks itself alone is (AloneIsAlone),    *)
(* that what an operator knows can be undone by nobody who is under way    *)
(* (KnownIsSafe), that an accepted write is there (AnsweredHolds), that of *)
(* all who create a configuration one at most has got past the namespace   *)
(* (OneHolder), and how far a call that nobody disturbs has changed its    *)
(* configuration (Unspoiled).                                              *)
(***************************************************************************)
EXTENDS OpenApiClient, TLAPS

Active(o) == call[o].at # "idle"

Operations == {"private", "public", "modify", "delete", "publish"}

Stored == Contents \cup {NoItem}

\* The request a call sends, in its first or second step.
Fits(op, c, v, r) ==
    \/ op = "private" /\ r.kind = "private" /\ r.config \in {c, Unnamed}
    \/ op = "private" /\ r = Request("item", c, v)
    \/ op = "public"  /\ r.kind = "public" /\ r.config \in {c, Unnamed}
    \/ op = "modify"  /\ r = Request("upsert", c, v)
    \/ op = "delete"  /\ r = Request("delete", c, v) /\ v = NoItem
    \/ op = "publish" /\ r.kind = "publish" /\ r.config = c

CallType == [at : {"idle", "sent", "answered"}, op : {"none"} \cup Operations,
             config : Configs \cup {Unnamed}, content : Stored, req : Requests,
             ok : BOOLEAN, alone : BOOLEAN, before : States]

PortalTypeOK ==
    /\ ns \in [Configs -> {"none", "private", "public"}]
    /\ item \in [Configs -> Stored]
    /\ released \in [Configs -> Stored]
    /\ \A c \in Configs : ns[c] = "none" => item[c] = NoItem /\ released[c] = NoItem

LateTypeOK ==
    /\ late \subseteq Requests
    /\ \A r \in late : r.config = Unnamed => r.kind \in {"private", "public"}

CallTypeOK == call \in [Operators -> CallType]

KnownTypeOK == known \in [Operators -> [Configs -> Stored \cup {Unknown}]]

MadeTypeOK == made \in [Configs -> Nat]

BoundTypeOK == calls \in 0..MaxCalls /\ faults \in 0..MaxFaults

FitsCall ==
    \A o \in Operators :
        IF Active(o)
          THEN /\ call[o].config \in Configs
               /\ Fits(call[o].op, call[o].config, call[o].content, call[o].req)
          ELSE call[o].config = Unnamed

Typed == PortalTypeOK /\ LateTypeOK /\ CallTypeOK /\ KnownTypeOK /\ FitsCall

LEMMA TypeParts == Typed /\ MadeTypeOK /\ BoundTypeOK => TypeOK
<1> SUFFICES ASSUME Typed, MadeTypeOK, BoundTypeOK PROVE TypeOK
  OBVIOUS
<1>1. ASSUME NEW o \in Operators, Active(o), call[o].req.config = Unnamed
      PROVE  call[o].req.kind \in {"private", "public"}
  <2>1. /\ call[o].config # Unnamed
        /\ Fits(call[o].op, call[o].config, call[o].content, call[o].req)
    BY <1>1, NamesAssumption DEF Typed, FitsCall
  <2> QED BY <1>1, <2>1 DEF Fits, Request
<1>2. \A r \in late \cup {call[o].req : o \in {p \in Operators : call[p].at # "idle"}} :
          r.config = Unnamed => r.kind \in {"private", "public"}
  BY <1>1 DEF Typed, LateTypeOK, Active
<1>3. PortalTypeOK /\ late \subseteq Requests /\ CallTypeOK /\ KnownTypeOK
  BY DEF Typed, LateTypeOK
<1> QED BY <1>2, <1>3, Zenon DEF TypeOK, PortalTypeOK, CallTypeOK, CallType, Operations,
     KnownTypeOK, MadeTypeOK, BoundTypeOK, Stored

-----------------------------------------------------------------------------
(* Steps.                                                                  *)

Begins(o) ==
    \E op \in Operations, c \in Configs, v \in Stored, r \in Requests :
        Begin(o, op, c, v, r) /\ Fits(op, c, v, r) /\ r.kind # "item"

LEMMA NextCases ==
    ASSUME Next
    PROVE  TakeLate \/ \E o \in Operators :
                          Answer(o) \/ GiveUp(o) \/ NamespaceDone(o) \/ Return(o) \/ Begins(o)
<1> USE DEF Operations, Stored, Requests, Kinds, Request
<1>1. ASSUME NEW c \in Configs, NEW isPublic \in BOOLEAN
      PROVE  /\ CreateNewNamespace(c, isPublic) \in Requests
             /\ CreateNewNamespace(c, isPublic).kind
                   = IF isPublic THEN "public" ELSE "private"
             /\ CreateNewNamespace(c, isPublic).config \in {c, Unnamed}
  BY DEF CreateNewNamespace
<1>2. ASSUME NEW o \in Operators, NEW c \in Configs, NEW v \in Contents,
             CreateNewPrivateYamlConfig(o, c, v)
      PROVE  Begins(o)
  <2>1. /\ Fits("private", c, v, CreateNewNamespace(c, FALSE))
        /\ CreateNewNamespace(c, FALSE).kind # "item"
    BY <1>1 DEF Fits
  <2> QED BY <1>1, <1>2, <2>1, Zenon DEF CreateNewPrivateYamlConfig, Begins
<1>3. ASSUME NEW o \in Operators, NEW c \in Configs, CreateNewPublicYamlConfig(o, c)
      PROVE  Begins(o)
  <2>1. /\ Fits("public", c, NoItem, CreateNewNamespace(c, TRUE))
        /\ CreateNewNamespace(c, TRUE).kind # "item"
    BY <1>1 DEF Fits
  <2> QED BY <1>1, <1>3, <2>1, Zenon DEF CreateNewPublicYamlConfig, Begins
<1>4. ASSUME NEW o \in Operators, NEW c \in Configs, NEW v \in Contents,
             ModifyYamlConfig(o, c, v)
      PROVE  Begins(o)
  <2>1. /\ Request("upsert", c, v) \in Requests
        /\ Fits("modify", c, v, Request("upsert", c, v))
        /\ Request("upsert", c, v).kind # "item"
        /\ Begin(o, "modify", c, v, Request("upsert", c, v))
    BY <1>4 DEF ModifyYamlConfig, ModifyConfigNoProperties, Fits
  <2> QED BY <2>1, Zenon DEF Begins
<1>5. ASSUME NEW o \in Operators, NEW c \in Configs, DeleteYamlConfig(o, c)
      PROVE  Begins(o)
  <2>1. /\ Request("delete", c, NoItem) \in Requests
        /\ Fits("delete", c, NoItem, Request("delete", c, NoItem))
        /\ Request("delete", c, NoItem).kind # "item"
        /\ Begin(o, "delete", c, NoItem, Request("delete", c, NoItem))
    BY <1>5 DEF DeleteYamlConfig, DeleteConfig, Fits
  <2> QED BY <2>1, Zenon DEF Begins
<1>6. ASSUME NEW o \in Operators, NEW c \in Configs, PublishYamlConfig(o, c)
      PROVE  Begins(o)
  <2>1. /\ Request("publish", c, NoItem) \in Requests
        /\ Fits("publish", c, NoItem, Request("publish", c, NoItem))
        /\ Request("publish", c, NoItem).kind # "item"
        /\ Begin(o, "publish", c, NoItem, Request("publish", c, NoItem))
    BY <1>6 DEF PublishYamlConfig, PublishConfig, Fits
  <2> QED BY <2>1, Zenon DEF Begins
<1> QED BY <1>2, <1>3, <1>4, <1>5, <1>6, Zenon DEF Next

\* What the portal makes of a request it accepts.
LEMMA TakeStep ==
    ASSUME PortalTypeOK, NEW r \in Requests, Accepted(r), Take(r),
           r.config = Unnamed => r.kind \in {"private", "public"}
    PROVE  /\ r.config \in Configs
           /\ PortalTypeOK'
           /\ \A c \in Configs \ {r.config} :
                 ns'[c] = ns[c] /\ item'[c] = item[c] /\ released'[c] = released[c]
           /\ \A c \in Configs : ns[c] # "none" => ns'[c] = ns[c]
           /\ r.kind \in {"private", "public"} =>
                 ns[r.config] = "none" /\ item' = item /\ released' = released
           /\ r.kind \in {"item", "upsert", "delete"} =>
                 item'[r.config] = r.content /\ released' = released
           /\ r.kind = "publish" =>
                 item' = item /\ released'[r.config] = item[r.config]
           /\ r.kind = "item" => ns[r.config] # "none"
<1>1. r.config \in Configs
  <2>1. r.kind \in {"private", "public"} => r.config # Unnamed
    BY DEF Accepted
  <2> QED BY <2>1 DEF Requests
<1>2. r.content \in Stored /\ r.kind \in Kinds
  BY DEF Requests, Stored
<1>3. PortalTypeOK'
  <2>1. ns' \in [Configs -> {"none", "private", "public"}]
    BY <1>1, <1>2 DEF Take, PortalTypeOK
  <2>2. item' \in [Configs -> Stored] /\ released' \in [Configs -> Stored]
    BY <1>1, <1>2 DEF Take, PortalTypeOK
  <2>3. ASSUME NEW c \in Configs, ns'[c] = "none" PROVE item'[c] = NoItem /\ released'[c] = NoItem
    <3>1. ns[c] = "none"
      BY <1>1, <2>3 DEF Take, PortalTypeOK
    <3>2. c # r.config
      BY <1>1, <1>2, <2>3, <3>1 DEF Take, PortalTypeOK, Accepted, Kinds
    <3> QED BY <1>1, <3>1, <3>2 DEF Take, PortalTypeOK
  <2> QED BY <2>1, <2>2, <2>3 DEF PortalTypeOK
<1>4. \A c \in Configs \ {r.config} :
          ns'[c] = ns[c] /\ item'[c] = item[c] /\ released'[c] = released[c]
  BY <1>1 DEF Take, PortalTypeOK
<1>5. \A c \in Configs : ns[c] # "none" => ns'[c] = ns[c]
  BY <1>1 DEF Take, PortalTypeOK, Accepted
<1>6. r.kind \in {"private", "public"} =>
          ns[r.config] = "none" /\ item' = item /\ released' = released
  BY DEF Take, Accepted
<1>7. /\ r.kind \in {"item", "upsert", "delete"} =>
            item'[r.config] = r.content /\ released' = released
      /\ r.kind = "publish" =>
            item' = item /\ released'[r.config] = item[r.config]
      /\ r.kind = "item" => ns[r.config] # "none"
  BY <1>1 DEF Take, Accepted, PortalTypeOK
<1> QED BY <1>1, <1>3, <1>4, <1>5, <1>6, <1>7

\* What a request of a call that fits it can be.
LEMMA RequestOfCall ==
    ASSUME Typed, NEW o \in Operators, Active(o)
    PROVE  /\ call[o].req \in Requests
           /\ call[o].config \in Configs
           /\ call[o].config # Unnamed
           /\ call[o].req.config \in {call[o].config, Unnamed}
           /\ call[o].req.config = Unnamed => call[o].req.kind \in {"private", "public"}
           /\ Fits(call[o].op, call[o].config, call[o].content, call[o].req)
           /\ call[o].op \in Operations
<1>1. /\ call[o].config \in Configs
      /\ Fits(call[o].op, call[o].config, call[o].content, call[o].req)
  BY DEF Typed, FitsCall
<1>2. call[o].req \in Requests
  BY DEF Typed, CallTypeOK, CallType
<1>3. call[o].config # Unnamed
  BY <1>1, NamesAssumption
<1>4. /\ call[o].req.config \in {call[o].config, Unnamed}
      /\ call[o].req.config = Unnamed => call[o].req.kind \in {"private", "public"}
  BY <1>1, <1>3 DEF Fits, Request
<1>5. call[o].op \in Operations
  BY <1>1 DEF Fits, Operations
<1> QED BY <1>1, <1>2, <1>3, <1>4, <1>5

\* The calls of the others, when somebody begins one or a late request is taken.
LEMMA DisturbedType ==
    ASSUME CallTypeOK, NEW c
    PROVE  /\ Disturbed(c, call) \in [Operators -> CallType]
           /\ \A o \in Operators :
                 /\ Disturbed(c, call)[o] = [call[o] EXCEPT !.alone = Disturbed(c, call)[o].alone]
                 /\ Disturbed(c, call)[o].alone <=> call[o].alone /\ call[o].config # c
BY DEF CallTypeOK, CallType, Disturbed

LEMMA TypedInit == Init => Typed
<1> SUFFICES ASSUME Init PROVE Typed
  OBVIOUS
<1>1. PortalTypeOK
  BY DEF Init, PortalTypeOK, Stored
<1>2. LateTypeOK /\ KnownTypeOK
  BY DEF Init, LateTypeOK, KnownTypeOK
<1>3. Idle \in CallType
  BY DEF Idle, CallType, Operations, Stored, Requests, Kinds, Request, States
<1>4. CallTypeOK /\ FitsCall
  BY <1>3 DEF Init, CallTypeOK, FitsCall, Active, Idle
<1> QED BY <1>1, <1>2, <1>4 DEF Typed

\* The cases of a step, with what each does to the calls.
LEMMA BeginStep ==
    ASSUME Typed, NEW o \in Operators, NEW op \in Operations, NEW c \in Configs,
           NEW v \in Stored, NEW r \in Requests, Begin(o, op, c, v, r), Fits(op, c, v, r)
    PROVE  /\ ~Active(o) /\ Active(o)'
           /\ call' \in [Operators -> CallType]
           /\ call'[o].config = c /\ call'[o].op = op /\ call'[o].content = v
           /\ call'[o].req = r /\ call'[o].at \in {"sent", "answered"} /\ ~call'[o].ok
           /\ call'[o].alone <=> Untouched(o, c)
           /\ call'[o].before = Held(c)
           /\ \A p \in Operators \ {o} :
                 /\ call'[p] = [call[p] EXCEPT !.alone = call'[p].alone]
                 /\ call'[p].alone <=> call[p].alone /\ call[p].config # c
           /\ UNCHANGED <<portal, late, made, faults>>
<1> DEFINE first == IF Refused(r) THEN "answered" ELSE "sent"
           new == [at |-> first, op |-> op, config |-> c, content |-> v,
                   req |-> r, ok |-> FALSE, alone |-> Untouched(o, c), before |-> Held(c)]
<1>0. first \in {"sent", "answered"} /\ Held(c) \in States
  BY DEF Held, States, Typed, PortalTypeOK, Stored
<1>1. call' = [Disturbed(c, call) EXCEPT ![o] = new]
  BY DEF Begin
<1> HIDE DEF first
<1>2. new \in CallType
  BY <1>0 DEF CallType, Untouched
<1>3. CallTypeOK
  BY DEF Typed
<1>4. call' \in [Operators -> CallType] /\ call'[o] = new
  BY <1>1, <1>2, <1>3, DisturbedType
<1>5. \A p \in Operators \ {o} : call'[p] = Disturbed(c, call)[p]
  BY <1>1, <1>3, DisturbedType
<1>6. ~Active(o) /\ Active(o)'
  BY <1>0, <1>4 DEF Begin, Active
<1>7. UNCHANGED <<portal, late, made, faults>>
  BY Zenon DEF Begin
<1> HIDE DEF new
<1>8. \A p \in Operators \ {o} :
         /\ call'[p] = [call[p] EXCEPT !.alone = call'[p].alone]
         /\ call'[p].alone <=> call[p].alone /\ call[p].config # c
  BY <1>3, <1>5, DisturbedType
<1>9. /\ call'[o].config = c /\ call'[o].op = op /\ call'[o].content = v
      /\ call'[o].req = r /\ call'[o].at \in {"sent", "answered"} /\ ~call'[o].ok
      /\ call'[o].alone <=> Untouched(o, c)
      /\ call'[o].before = Held(c)
  <2>1. /\ new.config = c /\ new.op = op /\ new.content = v
        /\ new.req = r /\ new.at \in {"sent", "answered"} /\ ~new.ok
    BY <1>0 DEF new
  <2>2. new.alone = Untouched(o, c)
    BY Zenon DEF new
  <2>3. new.before = Held(c)
    BY Zenon DEF new
  <2> QED BY <1>4, <2>1, <2>2, <2>3, Zenon
<1> QED BY <1>4, <1>6, <1>7, <1>8, <1>9

LEMMA BeginDisturbs ==
    ASSUME Typed, NEW o \in Operators, NEW op \in Operations, NEW c \in Configs,
           NEW v \in Stored, NEW r \in Requests, Begin(o, op, c, v, r), Fits(op, c, v, r),
           NEW p \in Operators, p # o, call'[p].alone
    PROVE  call[p].config # c
<1> DEFINE calm == Disturbed(c, call)
<1>1. calm[p].alone => call[p].config # c
  BY DisturbedType, Zenon DEF Typed
<1>2. calm \in [Operators -> CallType]
  BY DisturbedType, Zenon DEF Typed
<1>3. \E new : call' = [calm EXCEPT ![o] = new]
  BY Zenon DEF Begin
<1> HIDE DEF calm
<1>4. call'[p] = calm[p]
  BY <1>2, <1>3
<1> QED BY <1>1, <1>4, Zenon

LEMMA AnswerStep ==
    ASSUME Typed, NEW o \in Operators, Answer(o)
    PROVE  /\ Active(o) /\ call[o].at = "sent"
           /\ call' \in [Operators -> CallType]
           /\ call'[o] = [call[o] EXCEPT !.at = "answered", !.ok = call'[o].ok]
           /\ call'[o].ok <=> Accepted(call[o].req)
           /\ \A p \in Operators \ {o} : call'[p] = call[p]
           /\ IF Accepted(call[o].req) THEN Take(call[o].req) ELSE UNCHANGED portal
           /\ UNCHANGED <<late, known, made, calls, faults>>
<1> DEFINE taken == Accepted(call[o].req)
<1>1. taken \in BOOLEAN
  BY DEF Accepted
<1>2. /\ call[o].at = "sent"
      /\ call' = [call EXCEPT ![o].at = "answered", ![o].ok = taken]
      /\ IF taken THEN Take(call[o].req) ELSE UNCHANGED portal
      /\ UNCHANGED <<late, known, made, calls, faults>>
  BY Zenon DEF Answer
<1>3. call \in [Operators -> CallType] /\ call[o] \in CallType
  BY DEF Typed, CallTypeOK
<1> HIDE DEF taken
<1>4. /\ call' \in [Operators -> CallType]
      /\ call'[o] = [call[o] EXCEPT !.at = "answered", !.ok = taken]
      /\ \A p \in Operators \ {o} : call'[p] = call[p]
  BY <1>1, <1>2, <1>3 DEF CallType
<1>5. call'[o].ok = taken
  BY <1>3, <1>4 DEF CallType
<1>6. Active(o)
  BY <1>2 DEF Active
<1> QED BY <1>1, <1>2, <1>4, <1>5, <1>6, Zenon DEF taken

LEMMA NamespaceDoneStep ==
    ASSUME Typed, NEW o \in Operators, NamespaceDone(o)
    PROVE  /\ Active(o) /\ call[o].at = "answered"
           /\ call[o].req.kind = "private" /\ call[o].op = "private" /\ call[o].ok
           /\ call' \in [Operators -> CallType]
           /\ call'[o] = [call[o] EXCEPT !.at = "sent",
                            !.req = Request("item", call[o].config, call[o].content)]
           /\ \A p \in Operators \ {o} : call'[p] = call[p]
           /\ UNCHANGED <<portal, late, known, made, calls, faults>>
<1>1. Active(o) /\ call[o].at = "answered" /\ call[o].req.kind = "private" /\ call[o].ok
  BY DEF NamespaceDone, Active
<1>2. call[o].op = "private"
  <2>1. Fits(call[o].op, call[o].config, call[o].content, call[o].req)
    BY <1>1, RequestOfCall, Zenon
  <2>2. call[o].req.kind = "private"
    BY <1>1, Zenon
  <2> QED BY <2>1, <2>2 DEF Fits, Request
<1>3. call[o] \in CallType /\ call[o].config \in Configs
  BY <1>1, RequestOfCall DEF Typed, CallTypeOK
<1>4. Request("item", call[o].config, call[o].content) \in Requests
  BY <1>3 DEF Request, Requests, Kinds, CallType, Stored
<1> QED BY <1>1, <1>2, <1>3, <1>4
        DEF NamespaceDone, CreateNewConfig, Typed, CallTypeOK, CallType

LEMMA EndStep ==
    ASSUME Typed, NEW o \in Operators, GiveUp(o) \/ Return(o)
    PROVE  /\ Active(o) /\ ~Active(o)'
           /\ call' = [call EXCEPT ![o] = Idle]
           /\ call' \in [Operators -> CallType]
           /\ call'[o] = Idle
           /\ UNCHANGED <<portal, calls>>
<1>1. Idle \in CallType
  BY DEF Idle, CallType, Operations, Stored, Requests, Kinds, Request, States
<1>2. Active(o) /\ call' = [call EXCEPT ![o] = Idle] /\ UNCHANGED <<portal, calls>>
  BY DEF GiveUp, Return, Active
<1>3. call' \in [Operators -> CallType] /\ call'[o] = Idle
  BY <1>1, <1>2 DEF Typed, CallTypeOK
<1> QED BY <1>2, <1>3 DEF Active, Idle

LEMMA TypedStep == Typed /\ [Next]_vars => Typed'
<1> SUFFICES ASSUME Typed, [Next]_vars PROVE Typed'
  OBVIOUS
<1>0. PortalTypeOK /\ LateTypeOK /\ CallTypeOK /\ KnownTypeOK /\ FitsCall
  BY DEF Typed
<1>1. CASE UNCHANGED vars
  BY <1>0, <1>1 DEF vars, portal, Typed, PortalTypeOK, LateTypeOK, CallTypeOK, KnownTypeOK,
     FitsCall, Active
<1>2. ASSUME UNCHANGED portal PROVE PortalTypeOK'
  BY <1>0, <1>2, Zenon DEF portal, PortalTypeOK
<1>3. ASSUME NEW c \in Configs, Forget(c) PROVE KnownTypeOK'
  BY <1>0, <1>3 DEF Forget, KnownTypeOK
<1>4. ASSUME NEW o \in Operators, Begins(o) PROVE Typed'
  <2>1. PICK op \in Operations, c \in Configs, v \in Stored, r \in Requests :
           Begin(o, op, c, v, r) /\ Fits(op, c, v, r)
    BY <1>4 DEF Begins
  <2>2. PortalTypeOK' /\ LateTypeOK'
    BY <2>1, <1>0, <1>2, BeginStep DEF LateTypeOK
  <2>3. CallTypeOK'
    BY <2>1, BeginStep DEF CallTypeOK
  <2>4. KnownTypeOK'
    <3>1. known' = known \/ Forget(c)
      BY <2>1, Zenon DEF Begin
    <3> QED BY <3>1, <1>0, <1>3 DEF KnownTypeOK
  <2>5. FitsCall'
    <3>1. Active(o)' /\ call'[o].config \in Configs
          /\ Fits(call'[o].op, call'[o].config, call'[o].content, call'[o].req)
      BY <2>1, BeginStep
    <3>2. ASSUME NEW p \in Operators \ {o}
          PROVE  /\ call'[p].at = call[p].at /\ call'[p].config = call[p].config
                 /\ call'[p].op = call[p].op /\ call'[p].content = call[p].content
                 /\ call'[p].req = call[p].req
      <4>1. call'[p] = [call[p] EXCEPT !.alone = call'[p].alone]
        BY <2>1, BeginStep
      <4> QED BY <4>1, <1>0 DEF CallTypeOK, CallType
    <3> QED BY <3>1, <3>2, <1>0 DEF FitsCall, Active
  <2> QED BY <2>2, <2>3, <2>4, <2>5 DEF Typed
<1>5. CASE TakeLate
  <2>1. PICK r \in late : /\ Accepted(r) /\ Take(r) /\ late' = late \ {r}
                          /\ Forget(r.config) /\ call' = Disturbed(r.config, call)
    BY <1>5, Zenon DEF TakeLate
  <2>2. PortalTypeOK' /\ r.config \in Configs
    BY <2>1, <1>0, TakeStep DEF LateTypeOK
  <2>3. LateTypeOK' /\ KnownTypeOK'
    BY <2>1, <2>2, <1>0, <1>3 DEF LateTypeOK
  <2>4. CallTypeOK'
    BY <2>1, <1>0, DisturbedType DEF CallTypeOK
  <2>5. ASSUME NEW p \in Operators
        PROVE  /\ call'[p].at = call[p].at /\ call'[p].config = call[p].config
               /\ call'[p].op = call[p].op /\ call'[p].content = call[p].content
               /\ call'[p].req = call[p].req
    <3>1. call'[p] = [call[p] EXCEPT !.alone = call'[p].alone]
      BY <2>1, <1>0, DisturbedType
    <3> QED BY <3>1, <1>0 DEF CallTypeOK, CallType
  <2>6. FitsCall'
    BY <2>5, <1>0 DEF FitsCall, Active
  <2> QED BY <2>2, <2>3, <2>4, <2>6 DEF Typed
<1>6. ASSUME NEW o \in Operators, Answer(o) PROVE Typed'
  <2>1. PortalTypeOK'
    BY <1>6, <1>0, <1>2, AnswerStep, RequestOfCall, TakeStep
  <2>2. LateTypeOK' /\ KnownTypeOK'
    BY <1>6, <1>0, AnswerStep DEF LateTypeOK, KnownTypeOK
  <2>3. CallTypeOK'
    BY <1>6, AnswerStep DEF CallTypeOK
  <2>4. FitsCall'
    <3>1. /\ Active(o) /\ Active(o)' /\ call'[o].config = call[o].config
          /\ call'[o].op = call[o].op /\ call'[o].content = call[o].content
          /\ call'[o].req = call[o].req
      <4>1. Active(o) /\ call'[o] = [call[o] EXCEPT !.at = "answered", !.ok = call'[o].ok]
        BY <1>6, AnswerStep
      <4> QED BY <4>1, <1>0 DEF Active, CallTypeOK, CallType
    <3>2. \A p \in Operators \ {o} : call'[p] = call[p]
      BY <1>6, AnswerStep
    <3> QED BY <3>1, <3>2, <1>0 DEF FitsCall, Active
  <2> QED BY <2>1, <2>2, <2>3, <2>4 DEF Typed
<1>7. ASSUME NEW o \in Operators, NamespaceDone(o) PROVE Typed'
  <2>1. PortalTypeOK' /\ LateTypeOK' /\ KnownTypeOK'
    BY <1>7, <1>0, <1>2, NamespaceDoneStep DEF LateTypeOK, KnownTypeOK
  <2>2. CallTypeOK'
    BY <1>7, NamespaceDoneStep DEF CallTypeOK
  <2>3. FitsCall'
    <3>1. /\ Active(o)' /\ call'[o].config = call[o].config /\ call'[o].op = "private"
          /\ call'[o].req = Request("item", call'[o].config, call'[o].content)
      <4>1. /\ call[o].op = "private"
            /\ call'[o] = [call[o] EXCEPT !.at = "sent",
                             !.req = Request("item", call[o].config, call[o].content)]
        BY <1>7, NamespaceDoneStep
      <4> QED BY <4>1, <1>0 DEF Active, CallTypeOK, CallType
    <3>2. call[o].config \in Configs
      BY <1>7, NamespaceDoneStep, RequestOfCall
    <3>3. \A p \in Operators \ {o} : call'[p] = call[p]
      BY <1>7, NamespaceDoneStep
    <3>4. Fits(call'[o].op, call'[o].config, call'[o].content, call'[o].req)
      BY <3>1 DEF Fits
    <3> QED BY <3>1, <3>2, <3>3, <3>4, <1>0 DEF FitsCall, Active
  <2> QED BY <2>1, <2>2, <2>3 DEF Typed
<1>8. ASSUME NEW o \in Operators, GiveUp(o) \/ Return(o) PROVE Typed'
  <2>1. PortalTypeOK' /\ CallTypeOK'
    BY <1>8, <1>0, <1>2, EndStep DEF CallTypeOK
  <2>2. FitsCall'
    <3>1. call' = [call EXCEPT ![o] = Idle] /\ call'[o] = Idle
      BY <1>8, EndStep
    <3>2. \A p \in Operators \ {o} : call'[p] = call[p]
      BY <3>1, <1>0 DEF CallTypeOK
    <3> QED BY <3>1, <3>2, <1>0 DEF FitsCall, Active, Idle
  <2>3. LateTypeOK'
    <3>1. late' = late \/ late' = late \cup {call[o].req}
      BY <1>8, Zenon DEF GiveUp, Return
    <3>2. /\ call[o].req \in Requests
          /\ call[o].req.config = Unnamed => call[o].req.kind \in {"private", "public"}
      BY <1>8, EndStep, RequestOfCall
    <3> QED BY <3>1, <3>2, <1>0 DEF LateTypeOK
  <2>4. KnownTypeOK'
    <3>1. \/ known' = known
          \/ known' = [known EXCEPT ![o][call[o].config] = call[o].content]
      BY <1>8, Zenon DEF GiveUp, Return
    <3>2. call[o].content \in Stored
      BY <1>0 DEF CallTypeOK, CallType
    <3> QED BY <3>1, <3>2, <1>0 DEF KnownTypeOK
  <2> QED BY <2>1, <2>2, <2>3, <2>4 DEF Typed
<1> QED BY <1>1, <1>4, <1>5, <1>6, <1>7, <1>8, NextCases, Zenon

-----------------------------------------------------------------------------
(* What a step does to the calls it is not about, and to the portal.       *)

Same(o) ==
    /\ call'[o].at = call[o].at /\ call'[o].op = call[o].op
    /\ call'[o].config = call[o].config /\ call'[o].content = call[o].content
    /\ call'[o].req = call[o].req /\ call'[o].ok = call[o].ok
    /\ call'[o].before = call[o].before
    /\ call'[o].alone => call[o].alone

LEMMA SameButAlone ==
    ASSUME CallTypeOK, NEW o \in Operators,
           call'[o] = [call[o] EXCEPT !.alone = call'[o].alone],
           call'[o].alone => call[o].alone
    PROVE  Same(o)
<1>1. call[o] \in CallType
  BY DEF CallTypeOK
<1>2. /\ call'[o].at = call[o].at /\ call'[o].op = call[o].op
      /\ call'[o].config = call[o].config /\ call'[o].content = call[o].content
      /\ call'[o].req = call[o].req
  BY <1>1 DEF CallType
<1>3. call'[o].ok = call[o].ok /\ call'[o].before = call[o].before
  BY <1>1 DEF CallType
<1> QED BY <1>2, <1>3, Zenon DEF Same

LEMMA TakeLateStep ==
    ASSUME Typed, TakeLate
    PROVE  \E r \in late :
              /\ Accepted(r) /\ Take(r) /\ r \in Requests /\ r.config \in Configs
              /\ r.config = Unnamed => r.kind \in {"private", "public"}
              /\ late' = late \ {r} /\ Forget(r.config) /\ UNCHANGED <<made, calls, faults>>
              /\ \A p \in Operators :
                    Same(p) /\ (call'[p].alone => call[p].config # r.config)
<1>1. PICK r \in late : /\ Accepted(r) /\ Take(r) /\ late' = late \ {r}
                        /\ Forget(r.config) /\ call' = Disturbed(r.config, call)
                        /\ UNCHANGED <<made, calls, faults>>
  BY Zenon DEF TakeLate
<1>2. r \in Requests /\ (r.config = Unnamed => r.kind \in {"private", "public"})
  BY DEF Typed, LateTypeOK
<1>3. r.config \in Configs
  BY <1>1, <1>2, TakeStep DEF Typed
<1>4. CallTypeOK
  BY DEF Typed
<1>5. ASSUME NEW p \in Operators
      PROVE  Same(p) /\ (call'[p].alone => call[p].config # r.config)
  <2>1. /\ call'[p] = [call[p] EXCEPT !.alone = call'[p].alone]
        /\ call'[p].alone <=> call[p].alone /\ call[p].config # r.config
    BY <1>1, <1>4, DisturbedType, Zenon
  <2> QED BY <2>1, <1>4, SameButAlone
<1> QED BY <1>1, <1>2, <1>3, <1>5, Zenon

LEMMA OthersSame ==
    ASSUME Typed, NEW o \in Operators,
           Answer(o) \/ GiveUp(o) \/ NamespaceDone(o) \/ Return(o) \/ Begins(o)
    PROVE  \A p \in Operators \ {o} : Same(p)
<1>1. CallTypeOK
  BY DEF Typed
<1>2. ASSUME NEW p \in Operators \ {o}, call'[p] = call[p] PROVE Same(p)
  BY <1>2, Zenon DEF Same
<1>3. CASE Answer(o) \/ NamespaceDone(o)
  <2>1. \A p \in Operators \ {o} : call'[p] = call[p]
    BY <1>3, AnswerStep, NamespaceDoneStep
  <2> QED BY <2>1, <1>2, Zenon
<1>4. CASE GiveUp(o) \/ Return(o)
  <2>1. call' = [call EXCEPT ![o] = Idle]
    BY <1>4, EndStep, Zenon
  <2>2. \A p \in Operators \ {o} : call'[p] = call[p]
    BY <2>1, <1>1 DEF CallTypeOK
  <2> QED BY <2>2, <1>2
<1>5. CASE Begins(o)
  <2>1. PICK op \in Operations, c \in Configs, v \in Stored, r \in Requests :
           Begin(o, op, c, v, r) /\ Fits(op, c, v, r)
    BY <1>5, Zenon DEF Begins
  <2>2. ASSUME NEW p \in Operators \ {o}
        PROVE  /\ call'[p] = [call[p] EXCEPT !.alone = call'[p].alone]
               /\ call'[p].alone => call[p].alone
    BY <2>1, BeginStep, Zenon
  <2> QED BY <2>2, <1>1, SameButAlone
<1> QED BY <1>3, <1>4, <1>5

LEMMA CallGoesOn ==
    ASSUME Typed, NEW o \in Operators, Answer(o) \/ NamespaceDone(o)
    PROVE  /\ call'[o].op = call[o].op /\ call'[o].config = call[o].config
           /\ call'[o].content = call[o].content
           /\ call'[o].alone = call[o].alone /\ call'[o].before = call[o].before
<1>1. call[o] \in CallType
  BY DEF Typed, CallTypeOK
<1>2. CASE Answer(o)
  <2>1. call'[o] = [call[o] EXCEPT !.at = "answered", !.ok = call'[o].ok]
    BY <1>2, AnswerStep, Zenon
  <2>2. /\ call'[o].op = call[o].op /\ call'[o].config = call[o].config
        /\ call'[o].content = call[o].content
    BY <1>1, <2>1 DEF CallType
  <2>3. call'[o].alone = call[o].alone /\ call'[o].before = call[o].before
    BY <1>1, <2>1 DEF CallType
  <2> QED BY <2>2, <2>3, Zenon
<1>3. CASE NamespaceDone(o)
  <2>1. call'[o] = [call[o] EXCEPT !.at = "sent",
                      !.req = Request("item", call[o].config, call[o].content)]
    BY <1>3, NamespaceDoneStep, Zenon
  <2>2. /\ call'[o].op = call[o].op /\ call'[o].config = call[o].config
        /\ call'[o].content = call[o].content
    BY <1>1, <2>1 DEF CallType
  <2>3. call'[o].alone = call[o].alone /\ call'[o].before = call[o].before
    BY <1>1, <2>1 DEF CallType
  <2> QED BY <2>2, <2>3, Zenon
<1> QED BY <1>2, <1>3, Zenon

LEMMA NamespacesStay ==
    ASSUME Typed, Next
    PROVE  \A c \in Configs : ns[c] # "none" => ns'[c] = ns[c]
<1>1. CASE TakeLate
  <2>1. PICK r \in late :
           /\ Accepted(r) /\ Take(r) /\ r \in Requests
           /\ r.config = Unnamed => r.kind \in {"private", "public"}
    BY <1>1, TakeLateStep, Zenon
  <2> QED BY <2>1, TakeStep DEF Typed
<1>2. ASSUME NEW o \in Operators, Answer(o)
      PROVE  \A c \in Configs : ns[c] # "none" => ns'[c] = ns[c]
  <2>1. CASE Accepted(call[o].req)
    <3>1. Take(call[o].req) /\ Active(o)
      BY <1>2, <2>1, AnswerStep
    <3> QED BY <2>1, <3>1, RequestOfCall, TakeStep DEF Typed
  <2>2. CASE ~Accepted(call[o].req)
    BY <1>2, <2>2, AnswerStep DEF portal
  <2> QED BY <2>1, <2>2
<1>3. ASSUME NEW o \in Operators, GiveUp(o) \/ NamespaceDone(o) \/ Return(o)
      PROVE  ns' = ns
  BY <1>3, NamespaceDoneStep, EndStep DEF portal
<1>4. ASSUME NEW o \in Operators, Begins(o) PROVE ns' = ns
  BY <1>4, BeginStep DEF Begins, portal
<1> QED BY <1>1, <1>2, <1>3, <1>4, NextCases

-----------------------------------------------------------------------------
(* A call that thinks itself alone is.                                     *)

AloneIsAlone ==
    \A o \in Operators : Active(o) /\ call[o].alone => Untouched(o, call[o].config)

LEMMA AloneInit == Init => AloneIsAlone
BY DEF Init, AloneIsAlone, Active, Idle

LEMMA AloneStep == Typed /\ AloneIsAlone /\ Next => AloneIsAlone'
<1> SUFFICES ASSUME Typed, AloneIsAlone, Next,
                    NEW o \in Operators, Active(o)', call'[o].alone
             PROVE  Untouched(o, call[o].config)'
  BY Zenon DEF AloneIsAlone
<1>1. CASE TakeLate
  <2>1. PICK r \in late :
           /\ late' = late \ {r}
           /\ \A p \in Operators : Same(p)
    BY <1>1, TakeLateStep, Zenon
  <2>2. Active(o) /\ call[o].alone /\ call'[o].config = call[o].config
    BY <2>1 DEF Same, Active
  <2>3. Untouched(o, call[o].config)
    BY <2>2 DEF AloneIsAlone
  <2> QED BY <2>1, <2>2, <2>3 DEF Untouched, Same
<1>2. ASSUME NEW p \in Operators,
             Answer(p) \/ GiveUp(p) \/ NamespaceDone(p) \/ Return(p) \/ Begins(p),
             p # o
      PROVE  Untouched(o, call[o].config)'
  <2>1. \A q \in Operators \ {p} : Same(q)
    BY <1>2, OthersSame, Zenon
  <2>2. Active(o) /\ call[o].alone /\ call'[o].config = call[o].config
    BY <2>1, <1>2 DEF Same, Active
  <2>3. Untouched(o, call[o].config)
    BY <2>2 DEF AloneIsAlone
  <2>4. /\ call[o].config \in Configs /\ call[o].config # Unnamed
    BY <2>2, RequestOfCall
  <2>5. \A q \in Operators \ {o, p} : call'[q].config # call[o].config
    BY <2>1, <2>3 DEF Untouched, Same
  <2>6. call'[p].config # call[o].config
    <3>1. CASE Answer(p) \/ NamespaceDone(p)
      <4>1. call'[p].config = call[p].config
        BY <3>1, CallGoesOn, Zenon
      <4> QED BY <4>1, <2>3, <1>2 DEF Untouched
    <3>2. CASE GiveUp(p) \/ Return(p)
      BY <3>2, <2>4, EndStep DEF Idle
    <3>3. CASE Begins(p)
      <4>1. PICK op \in Operations, c \in Configs, v \in Stored, r \in Requests :
               Begin(p, op, c, v, r) /\ Fits(op, c, v, r)
        BY <3>3, Zenon DEF Begins
      <4>2. call'[p].config = c
        BY <4>1, BeginStep
      <4>3. call[o].config # c
        BY <4>1, <1>2, BeginDisturbs, Zenon
      <4> QED BY <4>2, <4>3
    <3> QED BY <1>2, <3>1, <3>2, <3>3
  <2>7. \A r \in late' : r.config # call[o].config
    <3>1. CASE GiveUp(p)
      <4>1. late' = late \/ late' = late \cup {call[p].req}
        BY <3>1, Zenon DEF GiveUp
      <4>2. call[p].req.config \in {call[p].config, Unnamed}
        BY <3>1, EndStep, RequestOfCall
      <4> QED BY <4>1, <4>2, <2>3, <2>4, <1>2 DEF Untouched
    <3>2. CASE Answer(p) \/ NamespaceDone(p) \/ Return(p)
      BY <3>2, <2>3, Zenon DEF Answer, NamespaceDone, Return, Untouched
    <3>3. CASE Begins(p)
      BY <3>3, <2>3, Zenon DEF Begins, Begin, Untouched
    <3> QED BY <1>2, <3>1, <3>2, <3>3
  <2> QED BY <2>2, <2>5, <2>6, <2>7 DEF Untouched
<1>3. CASE Answer(o) \/ NamespaceDone(o)
  <2>1. /\ Active(o) /\ call[o].alone /\ call'[o].config = call[o].config /\ late' = late
    <3>1. Active(o)
      BY <1>3, AnswerStep, NamespaceDoneStep
    <3>2. late' = late
      BY <1>3, Zenon DEF Answer, NamespaceDone
    <3> QED BY <1>3, <3>1, <3>2, CallGoesOn, Zenon
  <2>2. \A q \in Operators \ {o} : Same(q)
    BY <1>3, OthersSame, Zenon
  <2>3. Untouched(o, call[o].config)
    BY <2>1 DEF AloneIsAlone
  <2> QED BY <2>1, <2>2, <2>3 DEF Untouched, Same
<1>4. CASE GiveUp(o) \/ Return(o)
  BY <1>4, EndStep
<1>5. CASE Begins(o)
  <2>1. PICK op \in Operations, c \in Configs, v \in Stored, r \in Requests :
           Begin(o, op, c, v, r) /\ Fits(op, c, v, r)
    BY <1>5, Zenon DEF Begins
  <2>2. call'[o].config = c /\ Untouched(o, c) /\ late' = late
    BY <2>1, BeginStep
  <2>3. \A q \in Operators \ {o} : Same(q)
    BY <1>5, OthersSame, Zenon
  <2> QED BY <2>2, <2>3 DEF Untouched, Same
<1> QED BY <1>1, <1>2, <1>3, <1>4, <1>5, NextCases

\* While a call is alone, only its own request changes its configuration.
LEMMA PortalFrame ==
    ASSUME Typed, AloneIsAlone, Next, NEW o \in Operators, Active(o), ~Answer(o),
           Same(o), call'[o].alone
    PROVE  /\ ns'[call[o].config] = ns[call[o].config]
           /\ item'[call[o].config] = item[call[o].config]
           /\ released'[call[o].config] = released[call[o].config]
<1>1. call[o].config \in Configs /\ Untouched(o, call[o].config)
  BY RequestOfCall DEF AloneIsAlone, Same
<1>2. CASE TakeLate
  <2>1. PICK r \in late :
           /\ Accepted(r) /\ Take(r) /\ r \in Requests
           /\ r.config = Unnamed => r.kind \in {"private", "public"}
           /\ call[o].config # r.config
    BY <1>2, TakeLateStep, Zenon
  <2> QED BY <2>1, <1>1, TakeStep DEF Typed
<1>3. ASSUME NEW p \in Operators, Answer(p)
      PROVE  /\ ns'[call[o].config] = ns[call[o].config]
             /\ item'[call[o].config] = item[call[o].config]
             /\ released'[call[o].config] = released[call[o].config]
  <2>1. CASE Accepted(call[p].req)
    <3>1. Take(call[p].req) /\ Active(p) /\ p # o
      BY <1>3, <2>1, AnswerStep
    <3>2. call[p].req.config \in Configs /\ call[p].req.config = call[p].config
      BY <2>1, <3>1, RequestOfCall, TakeStep, NamesAssumption DEF Typed
    <3>3. call[p].config # call[o].config
      BY <1>1, <3>1 DEF Untouched
    <3> QED BY <2>1, <1>1, <3>1, <3>2, <3>3, RequestOfCall, TakeStep DEF Typed
  <2>2. CASE ~Accepted(call[p].req)
    BY <1>3, <2>2, AnswerStep DEF portal
  <2> QED BY <2>1, <2>2
<1>4. ASSUME NEW p \in Operators, GiveUp(p) \/ NamespaceDone(p) \/ Return(p)
      PROVE  UNCHANGED portal
  BY <1>4, NamespaceDoneStep, EndStep
<1>5. ASSUME NEW p \in Operators, Begins(p) PROVE UNCHANGED portal
  BY <1>5, BeginStep DEF Begins
<1> QED BY <1>2, <1>3, <1>4, <1>5, NextCases DEF portal

-----------------------------------------------------------------------------
(* What an operator knows is there.                                        *)

KnownIsSafe ==
    \A o \in Operators, c \in Configs : known[o][c] # Unknown =>
        \A p \in Operators : Active(p) /\ call[p].config = c => call[p].op = "publish"

Writes == {"item", "upsert", "delete"}

AnsweredHolds ==
    \A o \in Operators :
        /\ Active(o) /\ call[o].at = "answered" /\ call[o].ok /\ call[o].alone
        /\ call[o].req.kind \in Writes
        => item[call[o].config] = call[o].content

\* How an operator comes to know something.
Learns(o, c) ==
    /\ Return(o) /\ Active(o) /\ call[o].config = c
    /\ call[o].at = "answered" /\ call[o].ok /\ call[o].alone
    /\ call[o].req.kind \in Writes
    /\ known'[o][c] = call[o].content

LEMMA KnownChange ==
    ASSUME Typed, Next, NEW o \in Operators, NEW c \in Configs,
           known'[o][c] # Unknown, known'[o][c] # known[o][c]
    PROVE  Learns(o, c)
<1>1. known \in [Operators -> [Configs -> Stored \cup {Unknown}]]
  BY DEF Typed, KnownTypeOK
<1>2. ASSUME NEW d \in Configs, Forget(d) PROVE FALSE
  BY <1>1, <1>2 DEF Forget
<1>3. ~TakeLate
  BY <1>2, TakeLateStep, Zenon
<1>4. ASSUME NEW p \in Operators, Answer(p) \/ GiveUp(p) \/ NamespaceDone(p) PROVE FALSE
  <2>1. known' = known
    BY <1>4, Zenon DEF Answer, GiveUp, NamespaceDone
  <2> QED BY <2>1
<1>5. ASSUME NEW p \in Operators, Begins(p) PROVE FALSE
  <2>1. known' = known \/ \E d \in Configs : Forget(d)
    BY <1>5, Zenon DEF Begins, Begin
  <2> QED BY <2>1, <1>2
<1>6. PICK p \in Operators : Return(p)
  BY <1>3, <1>4, <1>5, NextCases
<1>7. Active(p) /\ call[p].at = "answered"
  BY <1>6, Zenon DEF Return, EndStep, Active
<1> DEFINE learns == /\ call[p].ok /\ call[p].alone
                     /\ call[p].op \in {"private", "modify", "delete"}
<1>8. known' = IF learns THEN [known EXCEPT ![p][call[p].config] = call[p].content] ELSE known
  BY <1>6, Zenon DEF Return, Result
<1>9. learns
  BY <1>8
<1>10. known' = [known EXCEPT ![p][call[p].config] = call[p].content]
  BY <1>8, <1>9
<1>11. p = o /\ call[p].config = c
  BY <1>1, <1>10
<1>12. known'[o][c] = call[o].content
  BY <1>1, <1>10, <1>11
<1>13. call[p].req.kind \in Writes
  <2>1. Fits(call[p].op, call[p].config, call[p].content, call[p].req)
    BY <1>7, RequestOfCall, Zenon
  <2>2. call[p].req.kind # "private"
    BY <1>6, <1>9, Zenon DEF Return
  <2>3. call[p].op \in {"private", "modify", "delete"}
    BY <1>9
  <2> QED BY <2>1, <2>2, <2>3 DEF Fits, Request, Writes
<1> QED BY <1>6, <1>7, <1>9, <1>11, <1>12, <1>13, Zenon DEF Learns

LEMMA Forgotten ==
    ASSUME Typed, NEW o \in Operators, NEW c \in Configs, Forget(c)
    PROVE  known'[o][c] = Unknown
BY DEF Typed, KnownTypeOK, Forget

LEMMA KnownIsSafeStep ==
    ASSUME Typed, AloneIsAlone, KnownIsSafe, Next
    PROVE  KnownIsSafe'
<1> SUFFICES ASSUME NEW o \in Operators, NEW c \in Configs, known'[o][c] # Unknown,
                    NEW p \in Operators, Active(p)', call'[p].config = c
             PROVE  call'[p].op = "publish"
  BY Zenon DEF KnownIsSafe
<1>1. CASE Learns(o, c)
  <2>1. Return(o) /\ Untouched(o, c)
    BY <1>1 DEF Learns, AloneIsAlone
  <2>2. p # o
    BY <2>1, EndStep
  <2>3. Same(p)
    BY <2>1, <2>2, OthersSame
  <2> QED BY <2>1, <2>2, <2>3 DEF Untouched, Same
<1>2. CASE known[o][c] # Unknown
  <2>1. CASE Active(p) /\ call'[p].config = call[p].config /\ call'[p].op = call[p].op
    BY <1>2, <2>1 DEF KnownIsSafe
  <2>2. CASE Begins(p)
    <3>1. PICK op \in Operations, d \in Configs, v \in Stored, r \in Requests :
             Begin(p, op, d, v, r) /\ Fits(op, d, v, r)
      BY <2>2, Zenon DEF Begins
    <3>2. call'[p].config = d /\ call'[p].op = op
      BY <3>1, BeginStep
    <3>3. op # "publish" => Forget(d)
      BY <3>1, Zenon DEF Begin
    <3>4. ~Forget(c)
      BY Forgotten
    <3> QED BY <3>2, <3>3, <3>4
  <2>3. CASE Same(p)
    BY <2>1, <2>3 DEF Same, Active
  <2>4. CASE Answer(p) \/ NamespaceDone(p)
    <3>1. Active(p)
      BY <2>4, AnswerStep, NamespaceDoneStep
    <3> QED BY <2>1, <2>4, <3>1, CallGoesOn, Zenon
  <2>5. CASE GiveUp(p) \/ Return(p)
    BY <2>5, EndStep
  <2>6. CASE TakeLate
    BY <2>6, <2>3, TakeLateStep, Zenon
  <2>7. ASSUME NEW q \in Operators, q # p,
               Answer(q) \/ GiveUp(q) \/ NamespaceDone(q) \/ Return(q) \/ Begins(q)
        PROVE  Same(p)
    BY <2>7, OthersSame
  <2> QED BY <2>2, <2>3, <2>4, <2>5, <2>6, <2>7, NextCases
<1> QED BY <1>1, <1>2, KnownChange

LEMMA AnsweredHoldsStep ==
    ASSUME Typed, AloneIsAlone, AnsweredHolds, Next
    PROVE  AnsweredHolds'
<1> SUFFICES ASSUME NEW o \in Operators, Active(o)', call'[o].at = "answered",
                    call'[o].ok, call'[o].alone, call'[o].req.kind \in Writes
             PROVE  item'[call'[o].config] = call'[o].content
  BY Zenon DEF AnsweredHolds
<1>1. CASE Same(o) /\ ~Answer(o)
  <2>1. /\ Active(o) /\ call[o].at = "answered" /\ call[o].ok /\ call[o].alone
        /\ call[o].req.kind \in Writes
        /\ call'[o].config = call[o].config /\ call'[o].content = call[o].content
    BY <1>1 DEF Same, Active
  <2>2. item'[call[o].config] = item[call[o].config]
    BY <1>1, <2>1, PortalFrame
  <2> QED BY <2>1, <2>2 DEF AnsweredHolds
<1>2. CASE Answer(o)
  <2>1. Active(o) /\ call'[o] = [call[o] EXCEPT !.at = "answered", !.ok = call'[o].ok]
    BY <1>2, AnswerStep, Zenon
  <2>2. call'[o].req = call[o].req
    <3>1. call[o] \in CallType
      BY DEF Typed, CallTypeOK
    <3> QED BY <2>1, <3>1 DEF CallType
  <2>3. Accepted(call[o].req) /\ Take(call[o].req)
    BY <1>2, AnswerStep
  <2>4. /\ call[o].req = Request(call[o].req.kind, call[o].config, call[o].content)
        /\ call[o].req \in Requests /\ call[o].config # Unnamed
    <3>1. Fits(call[o].op, call[o].config, call[o].content, call[o].req)
      BY <2>1, RequestOfCall, Zenon
    <3> QED BY <2>1, <2>2, <3>1, RequestOfCall DEF Fits, Request, Writes
  <2>5. item'[call[o].req.config] = call[o].req.content
    BY <2>2, <2>3, <2>4, TakeStep DEF Request, Writes, Typed
  <2>6. call'[o].config = call[o].config /\ call'[o].content = call[o].content
    BY <1>2, CallGoesOn, Zenon
  <2> QED BY <2>4, <2>5, <2>6 DEF Request
<1>3. CASE NamespaceDone(o)
  <2>1. call'[o] = [call[o] EXCEPT !.at = "sent",
                      !.req = Request("item", call[o].config, call[o].content)]
    BY <1>3, NamespaceDoneStep, Zenon
  <2>2. call[o] \in CallType
    BY DEF Typed, CallTypeOK
  <2>3. call'[o].at = "sent"
    BY <2>1, <2>2 DEF CallType
  <2> QED BY <2>3
<1>4. CASE GiveUp(o) \/ Return(o)
  BY <1>4, EndStep
<1>5. CASE Begins(o)
  <2>1. ~call'[o].ok
    BY <1>5, BeginStep DEF Begins
  <2> QED BY <2>1
<1>6. CASE TakeLate
  <2>1. Same(o)
    BY <1>6, TakeLateStep, Zenon
  <2> QED BY <1>1, <1>2, <2>1
<1>7. ASSUME NEW p \in Operators, p # o,
             Answer(p) \/ GiveUp(p) \/ NamespaceDone(p) \/ Return(p) \/ Begins(p)
      PROVE  Same(o)
  BY <1>7, OthersSame
<1> QED BY <1>1, <1>2, <1>3, <1>4, <1>5, <1>6, <1>7, NextCases

LEMMA KnownIsHeldStep ==
    ASSUME Typed, KnownIsSafe, AnsweredHolds, KnownIsHeld, Next
    PROVE  KnownIsHeld'
<1> SUFFICES ASSUME NEW o \in Operators, NEW c \in Configs, known'[o][c] # Unknown
             PROVE  item'[c] = known'[o][c]
  BY Zenon DEF KnownIsHeld
<1>1. CASE Learns(o, c)
  <2>1. item[c] = known'[o][c]
    BY <1>1 DEF Learns, AnsweredHolds
  <2>2. item' = item
    BY <1>1, EndStep DEF Learns, portal
  <2> QED BY <2>1, <2>2
<1>2. CASE known'[o][c] = known[o][c]
  <2>1. known[o][c] # Unknown /\ item[c] = known[o][c]
    BY <1>2 DEF KnownIsHeld
  <2>2. item'[c] = item[c]
    <3>1. CASE TakeLate
      <4>1. PICK r \in late :
               /\ Accepted(r) /\ Take(r) /\ r \in Requests /\ Forget(r.config)
               /\ r.config = Unnamed => r.kind \in {"private", "public"}
        BY <3>1, TakeLateStep, Zenon
      <4>2. r.config # c
        BY <4>1, Forgotten
      <4> QED BY <4>1, <4>2, TakeStep DEF Typed
    <3>2. ASSUME NEW p \in Operators, Answer(p) PROVE item'[c] = item[c]
      <4>1. CASE Accepted(call[p].req)
        <5>1. Take(call[p].req) /\ Active(p)
          BY <3>2, <4>1, AnswerStep
        <5>2. /\ call[p].req.config = call[p].config /\ call[p].req \in Requests
              /\ call[p].config # Unnamed
          BY <4>1, <5>1, RequestOfCall, TakeStep, NamesAssumption DEF Typed
        <5>3. CASE call[p].config # c
          BY <4>1, <5>1, <5>2, <5>3, TakeStep DEF Typed
        <5>4. CASE call[p].config = c
          <6>1. call[p].op = "publish"
            BY <2>1, <5>1, <5>4 DEF KnownIsSafe
          <6>2. call[p].req.kind = "publish"
            BY <5>1, <6>1, RequestOfCall DEF Fits
          <6> QED BY <4>1, <5>1, <5>2, <6>2, TakeStep DEF Typed
        <5> QED BY <5>3, <5>4
      <4>2. CASE ~Accepted(call[p].req)
        BY <3>2, <4>2, AnswerStep DEF portal
      <4> QED BY <4>1, <4>2
    <3>3. ASSUME NEW p \in Operators, GiveUp(p) \/ NamespaceDone(p) \/ Return(p)
          PROVE  item' = item
      BY <3>3, NamespaceDoneStep, EndStep DEF portal
    <3>4. ASSUME NEW p \in Operators, Begins(p) PROVE item' = item
      BY <3>4, BeginStep DEF Begins, portal
    <3> QED BY <3>1, <3>2, <3>3, <3>4, NextCases
  <2> QED BY <1>2, <2>1, <2>2
<1> QED BY <1>1, <1>2, KnownChange

-----------------------------------------------------------------------------
(* Who has created a namespace for a private configuration.                *)

Holder(o, c) ==
    /\ Active(o) /\ call[o].op = "private" /\ call[o].config = c
    /\ \/ call[o].req.kind = "item"
       \/ call[o].req.kind = "private" /\ call[o].at = "answered" /\ call[o].ok

OneHolder ==
    \A c \in Configs :
        /\ \A o \in Operators : Holder(o, c) => made[c] = 0 /\ ns[c] # "none"
        /\ \A o, p \in Operators : Holder(o, c) /\ Holder(p, c) => o = p
        /\ made[c] \in {0, 1}
        /\ made[c] = 1 => ns[c] # "none"

Creates(o, c) ==
    /\ Answer(o) /\ Active(o) /\ call[o].req.kind = "private" /\ call[o].req.config = c
    /\ Accepted(call[o].req) /\ Take(call[o].req)

LEMMA HolderChange ==
    ASSUME Typed, Next, NEW o \in Operators, NEW c \in Configs, Holder(o, c)'
    PROVE  Holder(o, c) \/ Creates(o, c)
<1>1. CASE Same(o)
  BY <1>1 DEF Same, Holder, Active
<1>2. CASE Answer(o)
  <2>1. Active(o) /\ call'[o] = [call[o] EXCEPT !.at = "answered", !.ok = call'[o].ok]
    BY <1>2, AnswerStep, Zenon
  <2>2. call'[o].req = call[o].req
    <3>1. call[o] \in CallType
      BY DEF Typed, CallTypeOK
    <3> QED BY <2>1, <3>1 DEF CallType
  <2>3. call[o].op = "private" /\ call[o].config = c
    BY <1>2, CallGoesOn DEF Holder
  <2>4. CASE call[o].req.kind = "item"
    BY <2>1, <2>3, <2>4, Zenon DEF Holder
  <2>5. CASE call'[o].req.kind = "private" /\ call'[o].ok
    <3>1. call[o].req.kind = "private"
      BY <2>2, <2>5
    <3>2. Accepted(call[o].req) /\ Take(call[o].req)
      BY <1>2, <2>5, AnswerStep
    <3>3. call[o].req.config = c
      BY <2>1, <2>3, <3>2, RequestOfCall, TakeStep, NamesAssumption DEF Typed
    <3> QED BY <1>2, <2>1, <3>1, <3>2, <3>3, Zenon DEF Creates
  <2> QED BY <2>2, <2>4, <2>5 DEF Holder
<1>3. CASE NamespaceDone(o)
  <2>1. /\ Active(o) /\ call[o].at = "answered"
        /\ call[o].req.kind = "private" /\ call[o].op = "private"
    BY <1>3, NamespaceDoneStep, Zenon
  <2>2. call[o].ok
    BY <1>3, NamespaceDoneStep
  <2>3. call[o].config = c
    BY <1>3, CallGoesOn DEF Holder
  <2> QED BY <2>1, <2>2, <2>3, Zenon DEF Holder
<1>4. CASE GiveUp(o) \/ Return(o)
  BY <1>4, EndStep DEF Holder
<1>5. CASE Begins(o)
  <2>1. PICK op \in Operations, d \in Configs, v \in Stored, r \in Requests :
           Begin(o, op, d, v, r) /\ Fits(op, d, v, r) /\ r.kind # "item"
    BY <1>5, Zenon DEF Begins
  <2>2. ~call'[o].ok /\ call'[o].req = r
    BY <2>1, BeginStep
  <2> QED BY <2>1, <2>2 DEF Holder
<1>6. CASE TakeLate
  BY <1>1, <1>6, TakeLateStep, Zenon
<1>7. ASSUME NEW p \in Operators, p # o,
             Answer(p) \/ GiveUp(p) \/ NamespaceDone(p) \/ Return(p) \/ Begins(p)
      PROVE  Same(o)
  BY <1>7, OthersSame
<1> QED BY <1>1, <1>2, <1>3, <1>4, <1>5, <1>6, <1>7, NextCases

LEMMA MadeChange ==
    ASSUME Typed, MadeTypeOK, Next, NEW c \in Configs, made'[c] # made[c]
    PROVE  \E o \in Operators : Return(o) /\ Holder(o, c) /\ made'[c] = made[c] + 1
<1>1. PICK o \in Operators : Return(o)
  <2>1. ~TakeLate
    BY TakeLateStep, Zenon
  <2>2. ASSUME NEW o \in Operators, Answer(o) \/ GiveUp(o) \/ NamespaceDone(o) \/ Begins(o)
        PROVE  FALSE
    BY <2>2, Zenon DEF Answer, GiveUp, NamespaceDone, Begins, Begin
  <2> QED BY <2>1, <2>2, NextCases
<1>2. Active(o) /\ call[o].at = "answered"
  BY <1>1 DEF Return, Active
<1> DEFINE creates == call[o].ok /\ call[o].op = "private"
<1>3. made' = IF creates THEN [made EXCEPT ![call[o].config] = @ + 1] ELSE made
  BY <1>1, Zenon DEF Return, Result
<1>4. creates
  BY <1>3
<1>5. made' = [made EXCEPT ![call[o].config] = made[call[o].config] + 1]
  BY <1>3, <1>4
<1>6. call[o].config = c /\ made'[c] = made[c] + 1
  BY <1>5 DEF MadeTypeOK
<1>7. call[o].req.kind = "item"
  <2>1. Fits(call[o].op, call[o].config, call[o].content, call[o].req)
    BY <1>2, RequestOfCall, Zenon
  <2>2. call[o].req.kind # "private"
    BY <1>1, <1>4, Zenon DEF Return
  <2>3. call[o].op = "private"
    BY <1>4
  <2> QED BY <2>1, <2>2, <2>3 DEF Fits, Request
<1>8. Holder(o, c)
  BY <1>2, <1>4, <1>6, <1>7, Zenon DEF Holder
<1> QED BY <1>1, <1>6, <1>8

LEMMA OneHolderStep ==
    ASSUME Typed, MadeTypeOK, OneHolder, Next
    PROVE  OneHolder'
<1> SUFFICES ASSUME NEW c \in Configs
             PROVE  /\ \A o \in Operators : Holder(o, c)' => made'[c] = 0 /\ ns'[c] # "none"
                    /\ \A o, p \in Operators : Holder(o, c)' /\ Holder(p, c)' => o = p
                    /\ made'[c] \in {0, 1}
                    /\ made'[c] = 1 => ns'[c] # "none"
  BY Zenon DEF OneHolder
<1>1. /\ \A o \in Operators : Holder(o, c) => made[c] = 0 /\ ns[c] # "none"
      /\ \A o, p \in Operators : Holder(o, c) /\ Holder(p, c) => o = p
      /\ made[c] \in {0, 1}
      /\ made[c] = 1 => ns[c] # "none"
  BY DEF OneHolder
<1>2. ns[c] # "none" => ns'[c] # "none"
  BY NamespacesStay
<1>3. ASSUME NEW o \in Operators, Creates(o, c)
      PROVE  ns[c] = "none" /\ ns'[c] # "none" /\ made' = made
  <2>1. call[o].req.config = c /\ call[o].req.kind = "private" /\ made' = made
    BY <1>3, AnswerStep DEF Creates
  <2>2. ns[c] = "none"
    BY <1>3, <2>1 DEF Creates, Accepted
  <2>3. ns' = [ns EXCEPT ![c] = "private"]
    BY <1>3, <2>1 DEF Creates, Take
  <2> QED BY <2>1, <2>2, <2>3 DEF Typed, PortalTypeOK
<1>4. ASSUME NEW o \in Operators, Holder(o, c)' PROVE made'[c] = 0 /\ ns'[c] # "none"
  <2>1. CASE Creates(o, c)
    BY <1>1, <1>3, <2>1
  <2>2. CASE Holder(o, c)
    <3>1. made'[c] = made[c]
      <4> SUFFICES ASSUME made'[c] # made[c] PROVE FALSE
        OBVIOUS
      <4>1. PICK p \in Operators : Return(p) /\ Holder(p, c)
        BY MadeChange
      <4>2. p = o
        BY <1>1, <2>2, <4>1
      <4> QED BY <1>4, <4>1, <4>2, EndStep DEF Holder
    <3> QED BY <1>1, <1>2, <2>2, <3>1
  <2> QED BY <1>4, <2>1, <2>2, HolderChange
<1>5. ASSUME NEW o \in Operators, NEW p \in Operators, Holder(o, c)', Holder(p, c)', o # p
      PROVE  FALSE
  <2>1. ASSUME NEW q \in Operators, NEW s \in Operators, q # s, Creates(q, c), Holder(s, c)'
        PROVE  FALSE
    <3>1. Same(s)
      BY <2>1, OthersSame DEF Creates
    <3>2. Holder(s, c)
      BY <2>1, <3>1 DEF Same, Holder, Active
    <3> QED BY <1>1, <1>3, <2>1, <3>2
  <2>2. Holder(o, c) /\ Holder(p, c)
    BY <1>5, <2>1, HolderChange
  <2> QED BY <1>1, <1>5, <2>2
<1>6. made'[c] \in {0, 1} /\ (made'[c] = 1 => ns'[c] # "none")
  <2>1. CASE made'[c] = made[c]
    BY <1>1, <1>2, <2>1
  <2>2. CASE made'[c] # made[c]
    <3>1. PICK o \in Operators : Holder(o, c) /\ made'[c] = made[c] + 1
      BY <2>2, MadeChange
    <3> QED BY <1>1, <1>2, <3>1
  <2> QED BY <2>1, <2>2
<1> QED BY <1>4, <1>5, <1>6

-----------------------------------------------------------------------------
(* How far an undisturbed call has got, and what is published was known.   *)

\* The namespace of a private creation is there and its item is not yet.
HalfMade(o) ==
    \/ call[o].req.kind = "private" /\ call[o].at = "answered" /\ call[o].ok
    \/ call[o].req.kind = "item" /\ call[o].at = "sent"

\* The call has got nothing from the portal yet.
Pristine(o) == call[o].req.kind # "item" /\ (call[o].at = "sent" \/ ~call[o].ok)

\* An undisturbed call either has changed nothing, or has a namespace without an
\* item; and its item is not refused.
Unspoiled ==
    \A o \in Operators : Active(o) /\ call[o].alone =>
        LET c == call[o].config
        IN /\ Pristine(o) => Held(c) = call[o].before
           /\ HalfMade(o) => ns[c] # "none" /\ item[c] = NoItem
           /\ call[o].req.kind = "item" /\ call[o].at = "answered" => call[o].ok

\* An answer takes the call from one of these conditions to another.
LEMMA UnspoiledAnswer ==
    ASSUME Typed, NEW o \in Operators, Answer(o), NEW c \in Configs, c = call[o].config,
           Pristine(o) => Held(c) = call[o].before,
           HalfMade(o) => ns[c] # "none" /\ item[c] = NoItem
    PROVE  /\ Pristine(o)' => Held(c)' = call'[o].before
           /\ HalfMade(o)' => ns'[c] # "none" /\ item'[c] = NoItem
           /\ call'[o].req.kind = "item" => call'[o].ok
<1>1. /\ Active(o) /\ call[o].at = "sent"
      /\ call'[o] = [call[o] EXCEPT !.at = "answered", !.ok = call'[o].ok]
      /\ call'[o].ok <=> Accepted(call[o].req)
      /\ IF Accepted(call[o].req) THEN Take(call[o].req) ELSE UNCHANGED portal
  BY AnswerStep, Zenon
<1>2. call[o] \in CallType
  BY DEF Typed, CallTypeOK
<1>3. call'[o].req = call[o].req /\ call'[o].at = "answered"
  BY <1>1, <1>2 DEF CallType
<1>4. call'[o].before = call[o].before
  BY CallGoesOn
<1>5. Fits(call[o].op, c, call[o].content, call[o].req) /\ c # Unnamed
      /\ call[o].req \in Requests
      /\ (call[o].req.config = Unnamed => call[o].req.kind \in {"private", "public"})
  BY <1>1, RequestOfCall
<1>6. CASE call[o].req.kind = "item"
  <2>1. ns[c] # "none" /\ item[c] = NoItem
    BY <1>1, <1>6 DEF HalfMade
  <2>2. call[o].req.config = c
    BY <1>5, <1>6 DEF Fits, Request
  <2>3. Accepted(call[o].req)
    BY <1>6, <2>1, <2>2 DEF Accepted
  <2> QED BY <1>1, <1>3, <1>6, <2>3 DEF Pristine, HalfMade
<1>7. CASE call[o].req.kind # "item" /\ ~Accepted(call[o].req)
  <2>1. Held(c) = call[o].before
    BY <1>1, <1>7 DEF Pristine
  <2>2. Held(c)' = Held(c)
    BY <1>1, <1>7 DEF portal, Held
  <2> QED BY <1>1, <1>3, <1>4, <1>7, <2>1, <2>2 DEF HalfMade
<1>8. CASE call[o].req.kind # "item" /\ Accepted(call[o].req)
  <2>1. ~Pristine(o)'
    BY <1>1, <1>3, <1>8 DEF Pristine
  <2>2. ASSUME call[o].req.kind = "private"
        PROVE  ns'[c] # "none" /\ item'[c] = NoItem
    <3>1. /\ call[o].req.config \in Configs /\ ns[call[o].req.config] = "none"
          /\ item' = item
      BY <1>1, <1>5, <1>8, <2>2, TakeStep DEF Typed
    <3>2. call[o].req.config = c
      BY <1>5, <2>2, <3>1, NamesAssumption DEF Fits, Request
    <3>3. ns' = [ns EXCEPT ![c] = "private"]
      BY <1>1, <1>8, <2>2, <3>2 DEF Take
    <3> QED BY <3>1, <3>2, <3>3 DEF Typed, PortalTypeOK
  <2> QED BY <1>3, <1>8, <2>1, <2>2 DEF HalfMade
<1> QED BY <1>6, <1>7, <1>8

LEMMA UnspoiledStep ==
    ASSUME Typed, AloneIsAlone, Unspoiled, Next
    PROVE  Unspoiled'
<1> SUFFICES ASSUME NEW o \in Operators, Active(o)', call'[o].alone,
                    NEW c, c = call'[o].config
             PROVE  /\ Pristine(o)' => Held(c)' = call'[o].before
                    /\ HalfMade(o)' => ns'[c] # "none" /\ item'[c] = NoItem
                    /\ call'[o].req.kind = "item" /\ call'[o].at = "answered" => call'[o].ok
  BY Zenon DEF Unspoiled, Held
<1>1. CASE Same(o) /\ ~Answer(o)
  <2>1. Active(o) /\ call[o].alone /\ call[o].config = c
    BY <1>1 DEF Same, Active
  <2>2. /\ Pristine(o) => Held(c) = call[o].before
        /\ HalfMade(o) => ns[c] # "none" /\ item[c] = NoItem
        /\ call[o].req.kind = "item" /\ call[o].at = "answered" => call[o].ok
    BY <2>1, Zenon DEF Unspoiled
  <2>3. ns'[c] = ns[c] /\ item'[c] = item[c] /\ released'[c] = released[c]
    BY <1>1, <2>1, PortalFrame
  <2>4. /\ call'[o].req = call[o].req /\ call'[o].at = call[o].at
        /\ call'[o].ok = call[o].ok /\ call'[o].before = call[o].before
    BY <1>1 DEF Same
  <2> QED BY <2>2, <2>3, <2>4 DEF Pristine, HalfMade, Held
<1>2. CASE Answer(o)
  <2>1. Active(o) /\ call[o].alone /\ call[o].config = c
    BY <1>2, AnswerStep, CallGoesOn
  <2>2. /\ Pristine(o) => Held(c) = call[o].before
        /\ HalfMade(o) => ns[c] # "none" /\ item[c] = NoItem
    BY <2>1, Zenon DEF Unspoiled
  <2>3. c \in Configs
    BY <2>1, RequestOfCall
  <2> QED BY <1>2, <2>1, <2>2, <2>3, UnspoiledAnswer
<1>3. CASE NamespaceDone(o)
  <2>1. /\ Active(o) /\ call[o].at = "answered" /\ call[o].req.kind = "private"
        /\ call[o].ok
        /\ call'[o] = [call[o] EXCEPT !.at = "sent",
                         !.req = Request("item", call[o].config, call[o].content)]
        /\ UNCHANGED portal
    BY <1>3, NamespaceDoneStep, Zenon
  <2>2. call[o].alone /\ call[o].config = c
    BY <1>3, CallGoesOn
  <2>3. ns[c] # "none" /\ item[c] = NoItem
    BY <2>1, <2>2, Zenon DEF Unspoiled, HalfMade
  <2>4. call'[o].at = "sent" /\ call'[o].req.kind = "item"
    <3>1. call[o] \in CallType
      BY DEF Typed, CallTypeOK
    <3> QED BY <2>1, <3>1 DEF CallType, Request
  <2> QED BY <2>1, <2>3, <2>4 DEF Pristine, portal
<1>4. CASE GiveUp(o) \/ Return(o)
  BY <1>4, EndStep
<1>5. CASE Begins(o)
  <2>1. PICK op \in Operations, d \in Configs, v \in Stored, r \in Requests :
           Begin(o, op, d, v, r) /\ Fits(op, d, v, r) /\ r.kind # "item"
    BY <1>5, Zenon DEF Begins
  <2>2. /\ call'[o].config = d /\ call'[o].req = r /\ ~call'[o].ok
        /\ call'[o].before = Held(d) /\ UNCHANGED portal
    BY <2>1, BeginStep
  <2> QED BY <2>1, <2>2 DEF HalfMade, Held, portal
<1>6. CASE TakeLate
  <2>1. Same(o)
    BY <1>6, TakeLateStep, Zenon
  <2> QED BY <1>1, <1>2, <2>1
<1>7. ASSUME NEW p \in Operators, p # o,
             Answer(p) \/ GiveUp(p) \/ NamespaceDone(p) \/ Return(p) \/ Begins(p)
      PROVE  Same(o)
  BY <1>7, OthersSame
<1> QED BY <1>1, <1>2, <1>3, <1>4, <1>5, <1>6, <1>7, NextCases

PublishedKnown ==
    \A o \in Operators :
        /\ Active(o) /\ call[o].op = "publish" /\ call[o].at = "answered"
        /\ call[o].ok /\ call[o].alone /\ known[o][call[o].config] # Unknown
        => released[call[o].config] = known[o][call[o].config]

LEMMA PublishedStep ==
    ASSUME Typed, AloneIsAlone, KnownIsHeld, PublishedKnown, Next
    PROVE  PublishedKnown'
<1> SUFFICES ASSUME NEW o \in Operators, Active(o)', call'[o].op = "publish",
                    call'[o].at = "answered", call'[o].ok, call'[o].alone,
                    known'[o][call'[o].config] # Unknown
             PROVE  released'[call'[o].config] = known'[o][call'[o].config]
  BY Zenon DEF PublishedKnown
<1>1. ASSUME NEW c \in Configs, c = call'[o].config
      PROVE  known'[o][c] = known[o][c]
  <2>1. ~Learns(o, c)
    BY EndStep DEF Learns
  <2> QED BY <1>1, <2>1, KnownChange
<1>2. CASE Same(o) /\ ~Answer(o)
  <2>1. /\ Active(o) /\ call[o].op = "publish" /\ call[o].at = "answered"
        /\ call[o].ok /\ call[o].alone /\ call'[o].config = call[o].config
    BY <1>2 DEF Same, Active
  <2>2. call[o].config \in Configs
    BY <2>1, RequestOfCall
  <2>3. known'[o][call[o].config] = known[o][call[o].config]
    BY <1>1, <2>1, <2>2
  <2>4. released'[call[o].config] = released[call[o].config]
    BY <1>2, <2>1, PortalFrame
  <2> QED BY <2>1, <2>3, <2>4 DEF PublishedKnown
<1>3. CASE Answer(o)
  <2>1. Active(o) /\ Accepted(call[o].req) /\ Take(call[o].req)
    BY <1>3, AnswerStep
  <2>2. call'[o].config = call[o].config /\ call[o].op = "publish"
    BY <1>3, CallGoesOn
  <2>3. /\ call[o].config \in Configs /\ call[o].req \in Requests
        /\ call[o].config # Unnamed
        /\ call[o].req.kind = "publish" /\ call[o].req.config = call[o].config
    BY <2>1, <2>2, RequestOfCall DEF Fits
  <2>4. known'[o][call[o].config] = known[o][call[o].config]
    BY <1>1, <2>2, <2>3
  <2>5. item[call[o].config] = known[o][call[o].config]
    BY <2>2, <2>3, <2>4 DEF KnownIsHeld
  <2>6. released'[call[o].config] = item[call[o].config]
    BY <2>1, <2>3, TakeStep DEF Typed
  <2> QED BY <2>2, <2>4, <2>5, <2>6
<1>4. CASE NamespaceDone(o)
  <2>1. call[o].op = "private"
    BY <1>4, NamespaceDoneStep
  <2> QED BY <1>4, <2>1, CallGoesOn
<1>5. CASE GiveUp(o) \/ Return(o)
  BY <1>5, EndStep
<1>6. CASE Begins(o)
  <2>1. ~call'[o].ok
    BY <1>6, BeginStep DEF Begins
  <2> QED BY <2>1
<1>7. CASE TakeLate
  <2>1. Same(o)
    BY <1>7, TakeLateStep, Zenon
  <2> QED BY <1>2, <1>3, <2>1
<1>8. ASSUME NEW p \in Operators, p # o,
             Answer(p) \/ GiveUp(p) \/ NamespaceDone(p) \/ Return(p) \/ Begins(p)
      PROVE  Same(o)
  BY <1>8, OthersSame
<1> QED BY <1>2, <1>3, <1>4, <1>5, <1>6, <1>7, <1>8, NextCases

-----------------------------------------------------------------------------
(* The inductive invariant and what follows from it.                       *)

IInv == /\ Typed /\ MadeTypeOK /\ BoundTypeOK
        /\ AloneIsAlone /\ KnownIsSafe /\ AnsweredHolds /\ KnownIsHeld
        /\ OneHolder /\ Unspoiled /\ PublishedKnown

LEMMA IInvInit == Init => IInv
<1> SUFFICES ASSUME Init PROVE IInv
  OBVIOUS
<1>1. \A o \in Operators : ~Active(o) /\ call[o].at # "answered"
  BY DEF Init, Active, Idle
<1>2. MadeTypeOK
  BY DEF Init, MadeTypeOK
<1>3. BoundTypeOK
  BY BoundsAssumption DEF Init, BoundTypeOK
<1>4. KnownIsSafe /\ AnsweredHolds /\ Unspoiled /\ PublishedKnown
  BY <1>1, Zenon DEF KnownIsSafe, AnsweredHolds, Unspoiled, PublishedKnown
<1>5. KnownIsHeld
  BY DEF Init, KnownIsHeld
<1>6. OneHolder
  <2>1. \A c \in Configs : made[c] = 0
    BY DEF Init
  <2> QED BY <1>1, <2>1 DEF OneHolder, Holder
<1> QED BY <1>2, <1>3, <1>4, <1>5, <1>6, TypedInit, AloneInit DEF IInv

LEMMA MadeTypeStep == MadeTypeOK /\ Typed /\ Next => MadeTypeOK'
<1> SUFFICES ASSUME MadeTypeOK, Typed, Next PROVE MadeTypeOK'
  OBVIOUS
<1>1. made' = made \/ \E c : made' = [made EXCEPT ![c] = @ + 1]
  <2>1. CASE TakeLate
    BY <2>1, Zenon DEF TakeLate
  <2>2. ASSUME NEW o \in Operators,
               Answer(o) \/ GiveUp(o) \/ NamespaceDone(o) \/ Begins(o)
        PROVE  made' = made
    BY <2>2, Zenon DEF Answer, GiveUp, NamespaceDone, Begins, Begin
  <2>3. ASSUME NEW o \in Operators, Return(o)
        PROVE  made' = made \/ made' = [made EXCEPT ![call[o].config] = @ + 1]
    BY <2>3, Zenon DEF Return
  <2> QED BY <2>1, <2>2, <2>3, NextCases
<1> QED BY <1>1 DEF MadeTypeOK

LEMMA BoundTypeStep == BoundTypeOK /\ Typed /\ Next => BoundTypeOK'
<1> SUFFICES ASSUME BoundTypeOK, Typed, Next PROVE BoundTypeOK'
  OBVIOUS
<1>1. \/ calls' = calls
      \/ calls < MaxCalls /\ calls' = calls + 1
  <2>1. CASE TakeLate
    BY <2>1, Zenon DEF TakeLate
  <2>2. ASSUME NEW o \in Operators, Answer(o) \/ GiveUp(o) \/ NamespaceDone(o) \/ Return(o)
        PROVE  calls' = calls
    BY <2>2, Zenon DEF Answer, GiveUp, NamespaceDone, Return
  <2>3. ASSUME NEW o \in Operators, Begins(o) PROVE calls < MaxCalls /\ calls' = calls + 1
    BY <2>3, Zenon DEF Begins, Begin
  <2> QED BY <2>1, <2>2, <2>3, NextCases
<1>2. \/ faults' = faults
      \/ faults < MaxFaults /\ faults' = faults + 1
  <2>1. CASE TakeLate
    BY <2>1, Zenon DEF TakeLate
  <2>2. ASSUME NEW o \in Operators, Answer(o) \/ Begins(o) \/ NamespaceDone(o) \/ Return(o)
        PROVE  faults' = faults
    BY <2>2, Zenon DEF Answer, Begins, Begin, NamespaceDone, Return
  <2>3. ASSUME NEW o \in Operators, GiveUp(o) PROVE faults < MaxFaults /\ faults' = faults + 1
    BY <2>3, Zenon DEF GiveUp
  <2> QED BY <2>1, <2>2, <2>3, NextCases
<1> QED BY <1>1, <1>2, BoundsAssumption DEF BoundTypeOK

LEMMA IInvStep == IInv /\ [Next]_vars => IInv'
<1> SUFFICES ASSUME IInv, [Next]_vars PROVE IInv'
  OBVIOUS
<1>1. CASE Next
  BY <1>1, TypedStep, MadeTypeStep, BoundTypeStep, AloneStep, KnownIsSafeStep,
     AnsweredHoldsStep, KnownIsHeldStep, OneHolderStep, UnspoiledStep, PublishedStep DEF IInv
<1>2. CASE UNCHANGED vars
  <2>1. Typed'
    BY TypedStep DEF IInv
  <2>2. /\ MadeTypeOK' /\ BoundTypeOK'
        /\ AloneIsAlone' /\ KnownIsSafe' /\ AnsweredHolds' /\ KnownIsHeld'
        /\ OneHolder' /\ Unspoiled' /\ PublishedKnown'
    BY <1>2 DEF vars, portal, IInv, MadeTypeOK, BoundTypeOK, AloneIsAlone, Untouched, KnownIsSafe,
       AnsweredHolds, KnownIsHeld, OneHolder, Holder, Unspoiled, Pristine, HalfMade,
       Held, PublishedKnown, Active
  <2> QED BY <2>1, <2>2 DEF IInv
<1> QED BY <1>1, <1>2

LEMMA IInvAlways == Spec => []IInv
BY IInvInit, IInvStep, PTL DEF Spec

\* Every variable keeps its type, only requests for a namespace go out without a
\* name, and the portal has no item outside a namespace.
THEOREM CallsTypeCorrect == Spec => []TypeOK
<1>1. IInv => TypeOK
  BY TypeParts DEF IInv
<1> QED BY <1>1, IInvAlways, PTL

\* What a call that returned true has written stays there until somebody else's
\* call or a late request touches the configuration.
THEOREM KnownStaysHeld == Spec => []KnownIsHeld
<1>1. IInv => KnownIsHeld
  BY DEF IInv
<1> QED BY <1>1, IInvAlways, PTL

\* However many operators try, however often, and whatever requests are lost or
\* late, one at most is told that it created a private configuration.
THEOREM PrivateCreatedOnce == Spec => []CreatedOnce
<1>1. IInv => CreatedOnce
  <2> SUFFICES ASSUME IInv, NEW c \in Configs PROVE made[c] <= 1
    BY DEF CreatedOnce
  <2>1. made[c] = 0 \/ made[c] = 1
    BY DEF IInv, OneHolder
  <2> QED BY <2>1
<1> QED BY <1>1, IInvAlways, PTL

\* A call that ends refused, by the portal or by the length check, and that
\* nobody disturbed has left its configuration as it found it: the item of a
\* private creation is not refused after its namespace has been made.
THEOREM RefusalsChangeNothing == Spec => []RefusedChangesNothing
<1>1. IInv => RefusedChangesNothing
  BY DEF IInv, Unspoiled, Pristine, RefusedChangesNothing, Active
<1> QED BY <1>1, IInvAlways, PTL

\* An undisturbed publication that returns true has released what its caller knew.
THEOREM PublishesTheWritten == Spec => PublishesWhatWasWritten
<1>1. IInv => (\A o \in Operators, c \in Configs :
          (/\ call[o].op = "publish" /\ call[o].config = c
           /\ call[o].at = "answered" /\ call[o].ok /\ call[o].alone
           /\ call'[o].at = "idle" /\ known[o][c] # Unknown)
          => released[c] = known[o][c])
  BY DEF IInv, PublishedKnown, Active
<1> QED BY <1>1, IInvAlways, PTL DEF PublishesWhatWasWritten

=============================================================================

------------------------------ MODULE ConfigReader ------------------------------
(***************************************************************************)
(* The readers of apollo_base, beside the writers of OpenApiClient: an     *)
(* operator that is in no call of its own asks the configuration service   *)
(* for what was released last and gets it in one of eight forms.  All of   *)
(* them send one request and hide why they have nothing to give.           *)
(***************************************************************************)
EXTENDS OpenApiClient

CONSTANTS
    ShortNames,    \* names shorter than the suffixes they are compared with
    Sizes,         \* lengths of address, appid, namespace and cluster together
    Malformed,     \* contents YAML::Load throws on
    Fleet,         \* contents with version and properties/bg_topic/value
    Before,        \* what the maps passed to getConfigNoBufferInner hold at first
    Part,          \* per content: what is copied of it until an item is no string
    MaxReads       \* bound: reads

ASSUME ShortNamesAssumption == ShortNames \subseteq Configs \ YamlNames
ASSUME ReadContentsAssumption ==
    /\ Malformed \subseteq Contents /\ Fleet \subseteq Contents \ Malformed
    /\ Before \in Contents \cup {NoItem}
ASSUME SizesAssumption == Sizes \subseteq Nat
ASSUME FailuresAssumption ==
    {"failed", "refused", "threw"} \cap (Contents \cup {NoItem}) = {}
ASSUME PartAssumption ==
    /\ DOMAIN Part = Contents
    /\ \A v \in Contents : Part[v] \notin Contents \cup {NoItem, "failed", "refused", "threw"}

VARIABLES
    read,      \* per operator: the read it is in
    out,       \* per operator: the map it passes to getConfigNoBufferInner
    told,      \* history: what a caller of publish knows to be released
    reads

readers == <<read, out, told, reads>>
rvars   == <<vars, readers>>

Forms == {"yaml", "json", "properties", "load", "map", "output", "key", "byYAML"}

Quiet == [at |-> "idle", form |-> "map", config |-> Unnamed, answer |-> "none",
          since |-> {}, told |-> Unknown]

RInit ==
    /\ Init
    /\ read = [o \in Operators |-> Quiet]
    /\ out = [o \in Operators |-> Before]
    /\ told = [c \in Configs |-> Unknown]
    /\ reads = 0

-----------------------------------------------------------------------------
(* What a form makes of the answer of the service.                         *)

Nothing  == [how |-> "nothing", what |-> NoItem]
Thrown   == [how |-> "threw", what |-> NoItem]
Given(v) == [how |-> "given", what |-> v]

Policies == {"yaml", "json", "properties", "load"}

\* The forms that copy all items into a map.
Copies == {"map", "output"}

Parts == {Part[v] : v \in Contents}

TooLong(form, size) == size > (IF form \in Policies THEN 266 ELSE 200)

\* checkNamespace_ of the policies; no name here ends with ".json".  ends_with
\* compares before it looks at the lengths.
Checked(form, c) ==
    CASE form \in {"yaml", "json", "load"} /\ c \in ShortNames -> "threw"
      [] form = "json" /\ c \notin ShortNames                  -> "refused"
      [] form \in {"yaml", "load"} /\ c \notin ShortNames      ->
             IF c \in YamlNames THEN "sent" ELSE "refused"
      [] OTHER -> "sent"

Got(answer) == answer \notin {"failed", "refused", "threw"}

\* getCf_ of a document, and of properties: the whole object.
GetCf(answer) == IF Got(answer) /\ answer # NoItem THEN Given(answer) ELSE Nothing

PropertiesCf(answer) == IF Got(answer) THEN Given(answer) ELSE Nothing

\* getYamlConfig parses outside any try.
GetYamlConfig(answer) ==
    IF GetCf(answer).how = "given" /\ answer \in Malformed THEN Thrown ELSE GetCf(answer)

\* An empty map stands for a failure, and a part of the items for an exception in
\* the loop that copies them.
Inner(answer) == Given(IF Got(answer) THEN answer ELSE NoItem)

InnerByKey(answer) == Given(IF Got(answer) THEN answer ELSE NoItem)

\* What the log statements read from the document has to be there.
InnerByYAML(answer) ==
    Given(IF Got(answer) /\ answer \in Fleet THEN answer ELSE NoItem)

InnerOutput_Inserts(map, answer) ==
    IF Got(answer) /\ map = NoItem THEN answer ELSE map

\* The caller's map is cleared before the request is sent, and filled by an
\* answer, up to an item that throws.
InnerOutput(map, answer) ==
    CASE answer = "refused" -> map
      [] answer = "failed"  -> NoItem
      [] OTHER              -> answer

GetConfig_Logs(form, answer) ==
    CASE answer = "threw"     -> Thrown
      [] form = "properties"  -> PropertiesCf(answer)
      [] form = "load"        -> GetYamlConfig(answer)
      [] OTHER -> IF answer \in Fleet THEN GetCf(answer) ELSE Nothing

\* getConfig<POLICY>, and getYamlConfig on top of it.
GetConfig(form, answer) ==
    CASE answer = "threw"     -> Thrown
      [] form = "properties"  -> PropertiesCf(answer)
      [] form = "load"        -> GetYamlConfig(answer)
      [] OTHER                -> GetCf(answer)

ResultOf(form, answer) ==
    CASE form \in Policies -> GetConfig(form, answer)
      [] form = "map"      -> Inner(answer)
      [] form = "output"   ->
             IF Got(answer) /\ answer \notin Parts THEN Given(answer) ELSE Nothing
      [] form = "key"      -> InnerByKey(answer)
      [] form = "byYAML"   -> InnerByYAML(answer)

-----------------------------------------------------------------------------
(* Reads.                                                                  *)

\* A read that is too long or whose namespace is refused sends nothing.
BeginRead(o, form, c, size) ==
    /\ read[o].at = "idle" /\ call[o].at = "idle"
    /\ reads < MaxReads
    /\ reads' = reads + 1
    /\ LET checked == IF TooLong(form, size) THEN "refused" ELSE Checked(form, c) IN
       read' = [read EXCEPT ![o] =
                  [at |-> IF checked = "sent" THEN "sent" ELSE "answered",
                   form |-> form, config |-> c,
                   answer |-> IF checked = "sent" THEN "none" ELSE checked,
                   since |-> {released[c]}, told |-> told[c]]]
    /\ UNCHANGED <<vars, out, told>>

\* The service (external) answers with what is released.  Anything but a 200, or
\* an exception, is a failure; a namespace that was never released is one.
Answerable(form, c) ==
    (IF ns[c] = "none" THEN {} ELSE {released[c]})
    \cup (IF form \in Copies /\ released[c] # NoItem THEN {Part[released[c]]} ELSE {})

ServiceAnswers(o) ==
    /\ read[o].at = "sent"
    /\ \E answer \in {"failed"} \cup Answerable(read[o].form, read[o].config) :
          read' = [read EXCEPT ![o].at = "answered", ![o].answer = answer]
    /\ UNCHANGED <<vars, out, told, reads>>

ReadReturns(o) ==
    /\ read[o].at = "answered"
    /\ read' = [read EXCEPT ![o] = Quiet]
    /\ out' = [out EXCEPT ![o] = IF read[o].form = "output"
                                   THEN InnerOutput(@, read[o].answer) ELSE @]
    /\ UNCHANGED <<vars, told, reads>>

\* History: a publish that returned true, undisturbed, to a caller that knew what
\* it published tells what is released, until somebody publishes again.
Tells(o, c) ==
    /\ call[o].op = "publish" /\ call[o].config = c
    /\ call[o].at = "answered" /\ call[o].ok /\ call[o].alone
    /\ call'[o].at = "idle" /\ faults' = faults /\ known[o][c] # Unknown

Republished(c) ==
    \E o \in Operators : /\ call[o].at = "idle" /\ call'[o].at # "idle"
                         /\ call'[o].op = "publish" /\ call'[o].config = c

Write ==
    /\ Next
    /\ \A o \in Operators : call[o].at = "idle" /\ call'[o].at # "idle" => read[o].at = "idle"
    /\ told' = [c \in Configs |->
                  IF \E o \in Operators : Tells(o, c)
                    THEN known[CHOOSE o \in Operators : Tells(o, c)][c]
                    ELSE IF Republished(c) THEN Unknown ELSE told[c]]
    /\ read' = [o \in Operators |->
                  IF read[o].at = "idle" THEN read[o]
                  ELSE [read[o] EXCEPT
                          !.since = IF read[o].at = "sent"
                                      THEN @ \cup {released'[read[o].config]} ELSE @,
                          !.told = IF told'[read[o].config] = @ THEN @ ELSE Unknown]]
    /\ UNCHANGED <<out, reads>>

RNext ==
    \/ Write
    \/ \E o \in Operators :
          \/ \E form \in Forms, c \in Configs, size \in Sizes : BeginRead(o, form, c, size)
          \/ ServiceAnswers(o)
          \/ ReadReturns(o)

RSpec == RInit /\ [][RNext]_rvars

-----------------------------------------------------------------------------
(* Properties.                                                             *)

\* From a publish to a reader: once an operator was told that what it wrote is
\* released, and nobody publishes again, every getConfig<YamlPolicy> that the
\* service answers gives just that, whatever else is written, refused, lost or
\* taken late (getConfig, getCf_, publishYamlConfig).
PublishedIsRead ==
    \A o \in Operators :
        LET r == read[o] IN
        /\ r.at = "answered" /\ r.form = "yaml" /\ Got(r.answer)
        /\ r.told # Unknown
        => ResultOf("yaml", r.answer) = (IF r.told = NoItem THEN Nothing ELSE Given(r.told))

\* What a map may hold of what was released.
Copied(since) == since \cup {Part[v] : v \in since \ {NoItem}}

\* A map that a caller passes again and again holds after a call what was
\* released during that call, or nothing, and never what an earlier call left,
\* unless the call sent no request: then it is untouched; and where the call
\* returns true it holds the whole (getConfigNoBufferInner with output).  Every
\* other read gives only what was released during it.
HoldsThisRead ==
    [][\A o \in Operators :
          LET r == read[o]
              result == ResultOf(r.form, r.answer)
          IN r.at = "answered" /\ read'[o].at = "idle" =>
              /\ result.what \in {NoItem}
                    \cup (IF r.form = "map" THEN Copied(r.since) ELSE r.since)
              /\ r.form = "output" =>
                    /\ \/ r.answer = "refused" /\ out'[o] = out[o]
                       \/ r.answer = "failed" /\ out'[o] = NoItem
                       \/ Got(r.answer) /\ out'[o] \in Copied(r.since)
                    /\ result.how = "given" => out'[o] \in r.since]_rvars

=============================================================================

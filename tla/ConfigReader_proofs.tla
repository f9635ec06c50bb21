--------------------------- MODULE ConfigReader_proofs ---------------------------
(***************************************************************************)
(* Proofs about the readers beside the open-platform calls.  Readers only  *)
(* read, so everything proved of the calls holds beside them.  What a      *)
(* caller of publish knows is released as long as no publication is under  *)
(* way (ToldIsReleased), and a read under way has seen every release since *)
(* it began (ReadSince, ReadTold).                                         *)
(***************************************************************************)
EXTENDS ConfigReader, OpenApiClient_proofs

Answers == Stored \cup Parts \cup {"none", "failed", "refused", "threw"}

ReadType == [at : {"idle", "sent", "answered"}, form : Forms,
             config : Configs \cup {Unnamed}, answer : Answers,
             since : SUBSET Stored, told : Stored \cup {Unknown}]

ReadTypeOK ==
    /\ read \in [Operators -> ReadType]
    /\ \A o \in Operators : read[o].at # "idle" => read[o].config \in Configs

OutTypeOK == out \in [Operators -> Stored \cup Parts]

ToldTypeOK == told \in [Configs -> Stored \cup {Unknown}]

ToldIsReleased ==
    \A c \in Configs : told[c] # Unknown =>
        /\ released[c] = told[c]
        /\ \A p \in Operators :
              Active(p) /\ call[p].config = c => call[p].op # "publish"
        /\ \A r \in late : r.config = c => r.kind # "publish"

ReadSince ==
    \A o \in Operators :
        /\ read[o].at = "sent" => released[read[o].config] \in read[o].since
        /\ read[o].at = "answered" /\ Got(read[o].answer) =>
              read[o].answer \in Copied(read[o].since)
        /\ read[o].at = "answered" =>
              read[o].answer \in Stored \cup Parts \cup {"failed", "refused", "threw"}
        /\ read[o].at = "answered" /\ read[o].answer \in Parts => read[o].form \in Copies
        /\ read[o].at = "answered" /\ read[o].form = "output" => read[o].answer # "threw"

ReadTold ==
    \A o \in Operators : read[o].at # "idle" /\ read[o].told # Unknown =>
        /\ told[read[o].config] = read[o].told
        /\ read[o].at = "answered" /\ Got(read[o].answer) /\ read[o].answer \notin Parts =>
              read[o].answer = read[o].told

-----------------------------------------------------------------------------
(* Steps.                                                                  *)

\* A copied part is told from contents and failures.
LEMMA PartsApart ==
    ASSUME NEW v \in Parts
    PROVE  v \notin Stored \cup {"failed", "refused", "threw"}
BY PartAssumption DEF Parts, Stored

\* What a read may be answered, from what is released.
LEMMA AnswerableStep ==
    ASSUME PortalTypeOK, NEW form, NEW c \in Configs, NEW answer \in Answerable(form, c)
    PROVE  \/ answer = released[c] /\ answer \in Stored
           \/ /\ answer = Part[released[c]] /\ released[c] # NoItem
              /\ answer \in Parts /\ form \in Copies
<1>1. released[c] \in Stored
  BY DEF PortalTypeOK
<1>2. released[c] # NoItem => Part[released[c]] \in Parts
  BY <1>1 DEF Parts, Stored
<1> QED BY <1>1, <1>2 DEF Answerable

LEMMA ReadersOnlyRead == [RNext]_rvars => [Next]_vars
<1>1. ASSUME Write PROVE Next
  BY <1>1 DEF Write
<1>2. ASSUME NEW o \in Operators, NEW form \in Forms, NEW c \in Configs, NEW size \in Sizes,
             BeginRead(o, form, c, size)
      PROVE  UNCHANGED vars
  BY <1>2, Zenon DEF BeginRead
<1>3. ASSUME NEW o \in Operators, ServiceAnswers(o) \/ ReadReturns(o)
      PROVE  UNCHANGED vars
  BY <1>3, Zenon DEF ServiceAnswers, ReadReturns
<1>4. ASSUME UNCHANGED rvars PROVE UNCHANGED vars
  BY <1>4, Zenon DEF rvars
<1> QED BY <1>1, <1>2, <1>3, <1>4, Zenon DEF RNext

LEMMA ReadTypeInit == RInit => ReadTypeOK /\ ToldTypeOK
<1> SUFFICES ASSUME RInit PROVE ReadTypeOK /\ ToldTypeOK
  OBVIOUS
<1>1. Quiet \in ReadType /\ Quiet.at = "idle"
  BY DEF Quiet, ReadType, Forms, Answers, Stored
<1> QED BY <1>1 DEF RInit, ReadTypeOK, ToldTypeOK

\* What the steps of a reader do to its record.
LEMMA BeginReadStep ==
    ASSUME IInv, ReadTypeOK, ToldTypeOK, NEW o \in Operators, NEW form \in Forms,
           NEW c \in Configs, NEW size \in Sizes, BeginRead(o, form, c, size)
    PROVE  /\ read' \in [Operators -> ReadType]
           /\ read'[o].config = c /\ read'[o].form = form
           /\ read'[o].since = {released[c]} /\ read'[o].told = told[c]
           /\ \/ read'[o].at = "sent"
              \/ read'[o].at = "answered" /\ read'[o].answer \in {"refused", "threw"}
           /\ form = "output" => read'[o].answer # "threw"
           /\ \A p \in Operators \ {o} : read'[p] = read[p]
           /\ UNCHANGED <<vars, out, told>>
<1> DEFINE checked == IF TooLong(form, size) THEN "refused" ELSE Checked(form, c)
           new == [at |-> IF checked = "sent" THEN "sent" ELSE "answered",
                   form |-> form, config |-> c,
                   answer |-> IF checked = "sent" THEN "none" ELSE checked,
                   since |-> {released[c]}, told |-> told[c]]
<1>1. checked \in {"sent", "refused", "threw"} /\ (form = "output" => checked # "threw")
  <2>1. Checked(form, c) \in {"sent", "refused", "threw"}
    BY DEF Checked
  <2>2. form = "output" => Checked(form, c) = "sent"
    BY DEF Checked
  <2> QED BY <2>1, <2>2
<1>2. read' = [read EXCEPT ![o] = new] /\ UNCHANGED <<vars, out, told>>
  BY Zenon DEF BeginRead
<1> HIDE DEF checked
<1>3. released[c] \in Stored /\ told[c] \in Stored \cup {Unknown}
  BY DEF IInv, Typed, PortalTypeOK, ToldTypeOK
<1>4. new \in ReadType
  BY <1>1, <1>3 DEF ReadType, Answers
<1>5. /\ new.config = c /\ new.form = form /\ new.since = {released[c]} /\ new.told = told[c]
      /\ \/ new.at = "sent"
         \/ new.at = "answered" /\ new.answer \in {"refused", "threw"}
      /\ form = "output" => new.answer # "threw"
  BY <1>1
<1> HIDE DEF new
<1>6. /\ read' \in [Operators -> ReadType] /\ read'[o] = new
      /\ \A p \in Operators \ {o} : read'[p] = read[p]
  BY <1>2, <1>4 DEF ReadTypeOK
<1> QED BY <1>2, <1>5, <1>6

LEMMA ServiceAnswersStep ==
    ASSUME IInv, ReadTypeOK, NEW o \in Operators, ServiceAnswers(o)
    PROVE  /\ read[o].at = "sent" /\ read[o].config \in Configs
           /\ read' \in [Operators -> ReadType]
           /\ read'[o].at = "answered" /\ read'[o].config = read[o].config
           /\ read'[o].form = read[o].form
           /\ read'[o].since = read[o].since /\ read'[o].told = read[o].told
           /\ \/ read'[o].answer = "failed"
              \/ read'[o].answer \in Answerable(read[o].form, read[o].config)
           /\ \A p \in Operators \ {o} : read'[p] = read[p]
           /\ UNCHANGED <<vars, out, told>>
<1>1. PICK answer \in {"failed"} \cup Answerable(read[o].form, read[o].config) :
         read' = [read EXCEPT ![o].at = "answered", ![o].answer = answer]
  BY Zenon DEF ServiceAnswers
<1>2. read[o].at = "sent" /\ UNCHANGED <<vars, out, told>>
  BY Zenon DEF ServiceAnswers
<1>3. read[o] \in ReadType /\ read[o].config \in Configs
  BY <1>2 DEF ReadTypeOK
<1>4. answer \in Answers
  <2>1. PortalTypeOK
    BY DEF IInv, Typed
  <2>2. answer = "failed" \/ answer \in Stored \/ answer \in Parts
    BY <1>1, <1>3, <2>1, AnswerableStep, Zenon
  <2> QED BY <2>2 DEF Answers
<1>5. /\ read' \in [Operators -> ReadType]
      /\ read'[o] = [read[o] EXCEPT !.at = "answered", !.answer = answer]
      /\ \A p \in Operators \ {o} : read'[p] = read[p]
  BY <1>1, <1>3, <1>4 DEF ReadTypeOK, ReadType
<1>6. /\ read'[o].at = "answered" /\ read'[o].config = read[o].config
      /\ read'[o].form = read[o].form
      /\ read'[o].since = read[o].since /\ read'[o].told = read[o].told
      /\ read'[o].answer = answer
  BY <1>3, <1>5 DEF ReadType
<1> QED BY <1>2, <1>3, <1>4, <1>5, <1>6

LEMMA ReadReturnsStep ==
    ASSUME ReadTypeOK, NEW o \in Operators, ReadReturns(o)
    PROVE  /\ read' \in [Operators -> ReadType] /\ read'[o].at = "idle"
           /\ \A p \in Operators \ {o} : read'[p] = read[p]
           /\ UNCHANGED <<vars, told>>
<1>1. Quiet \in ReadType /\ Quiet.at = "idle"
  BY DEF Quiet, ReadType, Forms, Answers, Stored
<1>2. read' = [read EXCEPT ![o] = Quiet] /\ UNCHANGED <<vars, told>>
  BY Zenon DEF ReadReturns
<1> QED BY <1>1, <1>2 DEF ReadTypeOK

LEMMA WriteStep ==
    ASSUME IInv, ReadTypeOK, ToldTypeOK, Write
    PROVE  /\ Next
           /\ ToldTypeOK'
           /\ read' \in [Operators -> ReadType]
           /\ \A o \in Operators :
                 /\ read'[o].at = read[o].at /\ read'[o].form = read[o].form
                 /\ read'[o].config = read[o].config /\ read'[o].answer = read[o].answer
                 /\ read[o].at = "answered" => read'[o].since = read[o].since
                 /\ read[o].at = "sent" => released'[read[o].config] \in read'[o].since
                 /\ read[o].at # "idle" /\ read'[o].told # Unknown =>
                       /\ read'[o].told = read[o].told
                       /\ told'[read[o].config] = read[o].told
<1>1. Next
  BY DEF Write
<1>2. ToldTypeOK'
  <2>1. \A o \in Operators, c \in Configs : known[o][c] \in Stored \cup {Unknown}
    BY DEF IInv, Typed, KnownTypeOK
  <2>2. ASSUME NEW c \in Configs
        PROVE  (IF \E o \in Operators : Tells(o, c)
                  THEN known[CHOOSE o \in Operators : Tells(o, c)][c]
                  ELSE IF Republished(c) THEN Unknown ELSE told[c]) \in Stored \cup {Unknown}
    <3>1. CASE \E o \in Operators : Tells(o, c)
      <4>1. (CHOOSE o \in Operators : Tells(o, c)) \in Operators
        BY <3>1, Zenon
      <4> QED BY <2>1, <3>1, <4>1
    <3>2. CASE ~ \E o \in Operators : Tells(o, c)
      <4>1. told[c] \in Stored \cup {Unknown}
        BY DEF ToldTypeOK
      <4> QED BY <3>2, <4>1
    <3> QED BY <3>1, <3>2
  <2>3. told' = [c \in Configs |->
                  IF \E o \in Operators : Tells(o, c)
                    THEN known[CHOOSE o \in Operators : Tells(o, c)][c]
                    ELSE IF Republished(c) THEN Unknown ELSE told[c]]
    BY Zenon DEF Write
  <2> QED BY <2>2, <2>3 DEF ToldTypeOK
<1>3. released' \in [Configs -> Stored]
  <2>1. Typed'
    BY <1>1, TypedStep DEF IInv
  <2> QED BY <2>1 DEF Typed, PortalTypeOK
<1> DEFINE next(o) ==
              IF read[o].at = "idle" THEN read[o]
              ELSE [read[o] EXCEPT
                      !.since = IF read[o].at = "sent"
                                  THEN @ \cup {released'[read[o].config]} ELSE @,
                      !.told = IF told'[read[o].config] = @ THEN @ ELSE Unknown]
<1>4. read' = [o \in Operators |-> next(o)]
  BY Zenon DEF Write
<1>5. ASSUME NEW o \in Operators
      PROVE  /\ next(o) \in ReadType
             /\ next(o).at = read[o].at /\ next(o).form = read[o].form
             /\ next(o).config = read[o].config /\ next(o).answer = read[o].answer
             /\ read[o].at = "answered" => next(o).since = read[o].since
             /\ read[o].at = "sent" => released'[read[o].config] \in next(o).since
             /\ read[o].at # "idle" /\ next(o).told # Unknown =>
                   /\ next(o).told = read[o].told
                   /\ told'[read[o].config] = read[o].told
  <2>1. read[o] \in ReadType
    BY DEF ReadTypeOK
  <2>2. CASE read[o].at = "idle"
    BY <2>1, <2>2
  <2>3. CASE read[o].at # "idle"
    <3> DEFINE s == IF read[o].at = "sent"
                      THEN read[o].since \cup {released'[read[o].config]} ELSE read[o].since
               t == IF told'[read[o].config] = read[o].told THEN read[o].told ELSE Unknown
    <3>1. next(o) = [read[o] EXCEPT !.since = s, !.told = t]
      BY <2>3
    <3>2. s \in SUBSET Stored /\ t \in Stored \cup {Unknown}
      BY <1>3, <2>1, <2>3 DEF ReadType, ReadTypeOK
    <3>3. /\ read[o].at = "answered" => s = read[o].since
          /\ read[o].at = "sent" => released'[read[o].config] \in s
          /\ t # Unknown => t = read[o].told /\ told'[read[o].config] = read[o].told
      BY <2>3
    <3> HIDE DEF next, s, t
    <3> QED BY <2>1, <2>3, <3>1, <3>2, <3>3 DEF ReadType
  <2> QED BY <2>2, <2>3
<1> HIDE DEF next
<1>6. /\ read' \in [Operators -> ReadType]
      /\ \A o \in Operators : read'[o] = next(o)
  BY <1>4, <1>5
<1> QED BY <1>1, <1>2, <1>5, <1>6

-----------------------------------------------------------------------------
(* What a publication tells.                                               *)

LEMMA TellsReturns ==
    ASSUME IInv, Next, NEW o \in Operators, NEW c \in Configs, Tells(o, c)
    PROVE  /\ Return(o) /\ Untouched(o, c) /\ released[c] = known[o][c]
           /\ UNCHANGED <<portal, late>>
<1>1. /\ Active(o) /\ call[o].op = "publish" /\ call[o].config = c
      /\ call[o].at = "answered" /\ call[o].ok /\ call[o].alone
      /\ call'[o].at = "idle" /\ faults' = faults /\ known[o][c] # Unknown
  BY DEF Tells, Active
<1>2. Typed /\ BoundTypeOK /\ AloneIsAlone /\ PublishedKnown
  BY DEF IInv
<1>3. ~Same(o)
  BY <1>1 DEF Same
<1>4. Return(o)
  <2>1. ~TakeLate
    BY <1>2, <1>3, TakeLateStep, Zenon
  <2>2. ASSUME NEW p \in Operators, p # o,
               Answer(p) \/ GiveUp(p) \/ NamespaceDone(p) \/ Return(p) \/ Begins(p)
        PROVE  FALSE
    BY <1>2, <1>3, <2>2, OthersSame
  <2>3. ~Answer(o) /\ ~NamespaceDone(o)
    BY <1>1, <1>2, AnswerStep, NamespaceDoneStep
  <2>4. ~GiveUp(o)
    <3>1. GiveUp(o) => faults' = faults + 1
      BY Zenon DEF GiveUp
    <3> QED BY <1>1, <1>2, <3>1 DEF BoundTypeOK
  <2>5. ~Begins(o)
    BY <1>1, Zenon DEF Begins, Begin
  <2> QED BY <2>1, <2>2, <2>3, <2>4, <2>5, NextCases, <1>2
<1>5. Untouched(o, c)
  BY <1>1, <1>2 DEF AloneIsAlone
<1>6. released[c] = known[o][c]
  BY <1>1, <1>2 DEF PublishedKnown
<1>7. UNCHANGED <<portal, late>>
  BY <1>4, Zenon DEF Return
<1> QED BY <1>4, <1>5, <1>6, <1>7

\* Without a publication under way, what is released stays.
LEMMA ReleasedStays ==
    ASSUME Typed, Next, NEW c \in Configs,
           \A p \in Operators : Active(p) /\ call[p].config = c => call[p].op # "publish",
           \A r \in late : r.config = c => r.kind # "publish"
    PROVE  released'[c] = released[c]
<1>1. CASE TakeLate
  <2>1. PICK r \in late :
           /\ Accepted(r) /\ Take(r) /\ r \in Requests
           /\ r.config = Unnamed => r.kind \in {"private", "public"}
    BY <1>1, TakeLateStep, Zenon
  <2>2. CASE r.config = c
    BY <2>1, <2>2, Zenon DEF Take
  <2>3. CASE r.config # c
    BY <2>1, <2>3, TakeStep DEF Typed
  <2> QED BY <2>2, <2>3
<1>2. ASSUME NEW p \in Operators, Answer(p) PROVE released'[c] = released[c]
  <2>1. CASE Accepted(call[p].req)
    <3>1. Take(call[p].req) /\ Active(p)
      BY <1>2, <2>1, AnswerStep
    <3>2. /\ call[p].req.config = call[p].config /\ call[p].req \in Requests
          /\ call[p].config # Unnamed
      BY <2>1, <3>1, RequestOfCall, TakeStep, NamesAssumption DEF Typed
    <3>3. CASE call[p].config # c
      BY <2>1, <3>1, <3>2, <3>3, TakeStep DEF Typed
    <3>4. CASE call[p].config = c
      <4>1. call[p].op # "publish"
        BY <3>1, <3>4
      <4>2. call[p].req.kind # "publish"
        <5>1. Fits(call[p].op, call[p].config, call[p].content, call[p].req)
          BY <3>1, RequestOfCall, Zenon
        <5> QED BY <4>1, <5>1 DEF Fits, Request
      <4> QED BY <3>1, <4>2, Zenon DEF Take
    <3> QED BY <3>3, <3>4
  <2>2. CASE ~Accepted(call[p].req)
    BY <1>2, <2>2, AnswerStep DEF portal
  <2> QED BY <2>1, <2>2
<1>3. ASSUME NEW p \in Operators, GiveUp(p) \/ NamespaceDone(p) \/ Return(p)
      PROVE  released' = released
  BY <1>3, NamespaceDoneStep, EndStep DEF portal
<1>4. ASSUME NEW p \in Operators, Begins(p) PROVE released' = released
  BY <1>4, BeginStep DEF Begins, portal
<1> QED BY <1>1, <1>2, <1>3, <1>4, NextCases

LEMMA ToldIsReleasedWrite ==
    ASSUME IInv, ToldTypeOK, ToldIsReleased, Write
    PROVE  ToldIsReleased'
<1> SUFFICES ASSUME NEW c \in Configs, told'[c] # Unknown
             PROVE  /\ released'[c] = told'[c]
                    /\ \A p \in Operators :
                          Active(p)' /\ call'[p].config = c => call'[p].op # "publish"
                    /\ \A r \in late' : r.config = c => r.kind # "publish"
  BY Zenon DEF ToldIsReleased
<1>1. Next /\ Typed
  BY DEF Write, IInv
<1>2. told'[c] = IF \E o \in Operators : Tells(o, c)
                   THEN known[CHOOSE o \in Operators : Tells(o, c)][c]
                   ELSE IF Republished(c) THEN Unknown ELSE told[c]
  <2>1. told' = [d \in Configs |->
                  IF \E o \in Operators : Tells(o, d)
                    THEN known[CHOOSE o \in Operators : Tells(o, d)][d]
                    ELSE IF Republished(d) THEN Unknown ELSE told[d]]
    BY Zenon DEF Write
  <2> QED BY <2>1, Zenon
<1>3. CASE \E o \in Operators : Tells(o, c)
  <2>1. PICK o \in Operators : Tells(o, c) /\ told'[c] = known[o][c]
    BY <1>2, <1>3, Zenon
  <2>2. /\ Return(o) /\ Untouched(o, c) /\ released[c] = known[o][c]
        /\ released' = released /\ late' = late
    BY <1>1, <2>1, TellsReturns DEF portal
  <2>3. ~Active(o)'
    BY <1>1, <2>1, <2>2, EndStep
  <2>4. \A p \in Operators \ {o} : Same(p)
    BY <1>1, <2>1, <2>2, OthersSame, Zenon
  <2>5. ASSUME NEW p \in Operators, Active(p)' PROVE call'[p].config # c
    <3>1. p # o
      BY <2>3, <2>5
    <3>2. call'[p].config = call[p].config
      BY <2>4, <3>1 DEF Same
    <3> QED BY <2>2, <3>1, <3>2 DEF Untouched
  <2>6. released'[c] = told'[c]
    BY <2>1, <2>2
  <2>7. \A r \in late' : r.config # c
    BY <2>2 DEF Untouched
  <2> QED BY <2>5, <2>6, <2>7
<1>4. CASE ~ \E o \in Operators : Tells(o, c)
  <2>1. ~Republished(c) /\ told'[c] = told[c] /\ told[c] # Unknown
    BY <1>2, <1>4
  <2>2. /\ released[c] = told[c]
        /\ \A p \in Operators :
              Active(p) /\ call[p].config = c => call[p].op # "publish"
        /\ \A r \in late : r.config = c => r.kind # "publish"
    BY <2>1 DEF ToldIsReleased
  <2>3. released'[c] = told'[c]
    BY <1>1, <2>1, <2>2, ReleasedStays
  <2>4. ASSUME NEW p \in Operators, Active(p)', call'[p].config = c
        PROVE  call'[p].op # "publish"
    <3>1. CASE ~Active(p)
      BY <2>1, <2>4, <3>1 DEF Republished, Active
    <3>2. CASE Active(p) /\ call'[p].config = call[p].config /\ call'[p].op = call[p].op
      BY <2>2, <2>4, <3>2
    <3>3. CASE Same(p)
      BY <3>1, <3>2, <3>3 DEF Same
    <3>4. CASE Answer(p) \/ NamespaceDone(p)
      BY <1>1, <3>1, <3>2, <3>4, CallGoesOn, Zenon
    <3>5. CASE GiveUp(p) \/ Return(p)
      BY <1>1, <2>4, <3>5, EndStep
    <3>6. CASE Begins(p)
      BY <3>1, <3>6, Zenon DEF Begins, Begin, Active
    <3>7. CASE TakeLate
      BY <1>1, <3>3, <3>7, TakeLateStep, Zenon
    <3>8. ASSUME NEW q \in Operators, q # p,
                 Answer(q) \/ GiveUp(q) \/ NamespaceDone(q) \/ Return(q) \/ Begins(q)
          PROVE  Same(p)
      BY <1>1, <3>8, OthersSame
    <3> QED BY <1>1, <3>3, <3>4, <3>5, <3>6, <3>7, <3>8, NextCases
  <2>5. ASSUME NEW r \in late', r.config = c PROVE r.kind # "publish"
    <3>1. CASE r \in late
      BY <2>2, <2>5, <3>1
    <3>2. CASE r \notin late
      <4>1. ~TakeLate
        <5>1. ASSUME TakeLate PROVE late' \subseteq late
          BY <1>1, <5>1, TakeLateStep
        <5> QED BY <3>2, <5>1
      <4>2. ASSUME NEW p \in Operators,
                   Answer(p) \/ NamespaceDone(p) \/ Return(p) \/ Begins(p)
            PROVE  FALSE
        <5>1. late' = late
          BY <4>2, Zenon DEF Answer, NamespaceDone, Return, Begins, Begin
        <5> QED BY <3>2, <5>1
      <4>3. PICK p \in Operators : GiveUp(p)
        BY <1>1, <4>1, <4>2, NextCases
      <4>4. Active(p) /\ (late' = late \/ late' = late \cup {call[p].req})
        <5>1. late' = late \/ late' = late \cup {call[p].req}
          BY <4>3, Zenon DEF GiveUp
        <5> QED BY <1>1, <4>3, <5>1, EndStep
      <4>5. r = call[p].req
        BY <3>2, <4>4
      <4>6. /\ call[p].config # Unnamed
            /\ r.config \in {call[p].config, Unnamed}
            /\ Fits(call[p].op, call[p].config, call[p].content, r)
        BY <1>1, <4>4, <4>5, RequestOfCall
      <4>7. call[p].config \in Configs /\ call[p].config = c
        BY <2>5, <4>6, NamesAssumption
      <4>8. call[p].op # "publish"
        BY <2>2, <4>4, <4>7
      <4> QED BY <4>6, <4>8 DEF Fits, Request
    <3> QED BY <3>1, <3>2
  <2> QED BY <2>3, <2>4, <2>5
<1> QED BY <1>3, <1>4

-----------------------------------------------------------------------------
(* The inductive invariant.                                                *)

RInv == /\ IInv /\ ReadTypeOK /\ OutTypeOK /\ ToldTypeOK
        /\ ToldIsReleased /\ ReadSince /\ ReadTold

LEMMA RInvInit == RInit => RInv
<1> SUFFICES ASSUME RInit PROVE RInv
  OBVIOUS
<1>1. IInv
  BY IInvInit DEF RInit
<1>2. ReadTypeOK /\ ToldTypeOK
  BY ReadTypeInit
<1>3. \A c \in Configs : told[c] = Unknown
  BY DEF RInit
<1>4. \A o \in Operators : read[o].at = "idle"
  BY DEF RInit, Quiet
<1>5. OutTypeOK
  BY ReadContentsAssumption DEF RInit, OutTypeOK, Stored
<1> QED BY <1>1, <1>2, <1>3, <1>4, <1>5 DEF RInv, ToldIsReleased, ReadSince, ReadTold

LEMMA OutTypeStep == OutTypeOK /\ ReadSince /\ [RNext]_rvars => OutTypeOK'
<1> SUFFICES ASSUME OutTypeOK, ReadSince, [RNext]_rvars PROVE OutTypeOK'
  OBVIOUS
<1>1. ASSUME NEW o \in Operators, ReadReturns(o) PROVE OutTypeOK'
  <2> DEFINE new == IF read[o].form = "output"
                      THEN InnerOutput(out[o], read[o].answer) ELSE out[o]
  <2>1. read[o].at = "answered" /\ out' = [out EXCEPT ![o] = new]
    BY <1>1 DEF ReadReturns
  <2>2. /\ read[o].answer \in Stored \cup Parts \cup {"failed", "refused", "threw"}
        /\ read[o].form = "output" => read[o].answer # "threw"
    BY <2>1 DEF ReadSince
  <2>3. new \in Stored \cup Parts
    BY <2>2 DEF InnerOutput, OutTypeOK, Stored
  <2> HIDE DEF new
  <2> QED BY <2>1, <2>3 DEF OutTypeOK
<1>2. CASE Write
  BY <1>2, Zenon DEF Write, OutTypeOK
<1>3. ASSUME NEW o \in Operators, NEW form \in Forms, NEW c \in Configs, NEW size \in Sizes,
             BeginRead(o, form, c, size)
      PROVE  OutTypeOK'
  BY <1>3, Zenon DEF BeginRead, OutTypeOK
<1>4. ASSUME NEW o \in Operators, ServiceAnswers(o) PROVE OutTypeOK'
  BY <1>4, Zenon DEF ServiceAnswers, OutTypeOK
<1>5. CASE UNCHANGED rvars
  BY <1>5 DEF rvars, readers, OutTypeOK
<1> QED BY <1>1, <1>2, <1>3, <1>4, <1>5, Zenon DEF RNext

LEMMA RInvStep == RInv /\ [RNext]_rvars => RInv'
<1> SUFFICES ASSUME RInv, [RNext]_rvars PROVE RInv'
  OBVIOUS
<1>1. /\ IInv /\ ReadTypeOK /\ OutTypeOK /\ ToldTypeOK
      /\ ToldIsReleased /\ ReadSince /\ ReadTold
  BY DEF RInv
<1>2. IInv' /\ OutTypeOK'
  BY <1>1, ReadersOnlyRead, IInvStep, OutTypeStep
<1>3. ASSUME UNCHANGED <<vars, told>> PROVE ToldTypeOK' /\ ToldIsReleased'
  BY <1>1, <1>3 DEF vars, portal, ToldTypeOK, ToldIsReleased, Active
<1>4. CASE Write
  <2>1. ToldTypeOK' /\ ToldIsReleased'
    BY <1>1, <1>4, WriteStep, ToldIsReleasedWrite
  <2>2. /\ read' \in [Operators -> ReadType]
        /\ \A o \in Operators :
              /\ read'[o].at = read[o].at /\ read'[o].form = read[o].form
              /\ read'[o].config = read[o].config /\ read'[o].answer = read[o].answer
              /\ read[o].at = "answered" => read'[o].since = read[o].since
              /\ read[o].at = "sent" => released'[read[o].config] \in read'[o].since
              /\ read[o].at # "idle" /\ read'[o].told # Unknown =>
                    /\ read'[o].told = read[o].told
                    /\ told'[read[o].config] = read[o].told
    BY <1>1, <1>4, WriteStep
  <2>3. ReadTypeOK'
    BY <1>1, <2>2 DEF ReadTypeOK
  <2>4. ReadSince'
    BY <1>1, <2>2 DEF ReadSince
  <2>5. ReadTold'
    BY <1>1, <2>2 DEF ReadTold
  <2> QED BY <1>2, <2>1, <2>3, <2>4, <2>5 DEF RInv
<1>5. ASSUME NEW o \in Operators, NEW form \in Forms, NEW c \in Configs, NEW size \in Sizes,
             BeginRead(o, form, c, size)
      PROVE  RInv'
  <2>1. /\ read' \in [Operators -> ReadType]
        /\ read'[o].config = c /\ read'[o].form = form
        /\ read'[o].since = {released[c]} /\ read'[o].told = told[c]
        /\ \/ read'[o].at = "sent"
           \/ read'[o].at = "answered" /\ read'[o].answer \in {"refused", "threw"}
        /\ form = "output" => read'[o].answer # "threw"
        /\ \A p \in Operators \ {o} : read'[p] = read[p]
        /\ UNCHANGED <<vars, out, told>>
    BY <1>1, <1>5, BeginReadStep
  <2>2. released' = released /\ told' = told
    BY <2>1 DEF vars, portal
  <2>3. ReadTypeOK'
    BY <1>1, <2>1 DEF ReadTypeOK
  <2>4. ReadSince'
    <3>1. read'[o].at = "answered" => read'[o].answer \notin Parts
      BY <2>1, PartsApart
    <3> QED BY <1>1, <2>1, <2>2, <3>1 DEF ReadSince, Got
  <2>5. ReadTold'
    BY <1>1, <2>1, <2>2 DEF ReadTold, Got
  <2> QED BY <1>2, <1>3, <2>1, <2>3, <2>4, <2>5 DEF RInv
<1>6. ASSUME NEW o \in Operators, ServiceAnswers(o) PROVE RInv'
  <2>1. /\ read[o].at = "sent" /\ read[o].config \in Configs
        /\ read' \in [Operators -> ReadType]
        /\ read'[o].at = "answered" /\ read'[o].config = read[o].config
        /\ read'[o].form = read[o].form
        /\ read'[o].since = read[o].since /\ read'[o].told = read[o].told
        /\ \/ read'[o].answer = "failed"
           \/ read'[o].answer \in Answerable(read[o].form, read[o].config)
        /\ \A p \in Operators \ {o} : read'[p] = read[p]
        /\ UNCHANGED <<vars, out, told>>
    BY <1>1, <1>6, ServiceAnswersStep
  <2>2. released' = released /\ told' = told
    BY <2>1 DEF vars, portal
  <2>3. ReadTypeOK'
    BY <1>1, <2>1 DEF ReadTypeOK
  <2> DEFINE a == read'[o].answer
             from == released[read[o].config]
  <2>6. \/ a = "failed"
        \/ a = from /\ a \in Stored
        \/ a = Part[from] /\ from # NoItem /\ a \in Parts /\ read[o].form \in Copies
    <3>1. PortalTypeOK
      BY <1>1 DEF IInv, Typed
    <3> QED BY <2>1, <3>1, AnswerableStep, Zenon
  <2>7. a # "threw" /\ "failed" \notin Parts /\ (a \in Stored => a \notin Parts)
    BY <2>6, FailuresAssumption, PartsApart DEF Stored
  <2>8. from \in read[o].since
    BY <1>1, <2>1 DEF ReadSince
  <2>9. ~Got("failed")
    BY DEF Got
  <2>10. /\ Got(a) => a \in Copied(read[o].since)
         /\ a \in Stored \cup Parts \cup {"failed", "refused", "threw"}
         /\ a \in Parts => read[o].form \in Copies
         /\ a # "threw"
         /\ Got(a) /\ a \notin Parts => a = from
    BY <2>6, <2>7, <2>8, <2>9 DEF Copied
  <2> HIDE DEF a
  <2>4. ReadSince'
    BY <1>1, <2>1, <2>2, <2>10 DEF ReadSince, a
  <2>5. ReadTold'
    <3>1. ASSUME read[o].told # Unknown, Got(a), a \notin Parts PROVE a = read[o].told
      BY <1>1, <2>1, <2>10, <3>1 DEF ReadTold, ToldIsReleased
    <3> QED BY <1>1, <2>1, <2>2, <3>1 DEF ReadTold, a
  <2> QED BY <1>2, <1>3, <2>1, <2>3, <2>4, <2>5 DEF RInv
<1>7. ASSUME NEW o \in Operators, ReadReturns(o) PROVE RInv'
  <2>1. /\ read' \in [Operators -> ReadType] /\ read'[o].at = "idle"
        /\ \A p \in Operators \ {o} : read'[p] = read[p]
        /\ UNCHANGED <<vars, told>>
    BY <1>1, <1>7, ReadReturnsStep
  <2>2. released' = released /\ told' = told
    BY <2>1 DEF vars, portal
  <2>3. ReadTypeOK'
    BY <1>1, <2>1 DEF ReadTypeOK
  <2>4. ReadSince'
    BY <1>1, <2>1, <2>2 DEF ReadSince
  <2>5. ReadTold'
    BY <1>1, <2>1, <2>2 DEF ReadTold
  <2> QED BY <1>2, <1>3, <2>1, <2>3, <2>4, <2>5 DEF RInv
<1>8. CASE UNCHANGED rvars
  <2>1. UNCHANGED <<vars, told>> /\ read' = read /\ released' = released /\ told' = told
    BY <1>8 DEF rvars, readers, vars, portal
  <2>2. ReadTypeOK' /\ ReadSince' /\ ReadTold'
    BY <1>1, <2>1 DEF ReadTypeOK, ReadSince, ReadTold
  <2> QED BY <1>2, <1>3, <2>1, <2>2 DEF RInv
<1> QED BY <1>4, <1>5, <1>6, <1>7, <1>8, Zenon DEF RNext

LEMMA RInvAlways == RSpec => []RInv
BY RInvInit, RInvStep, PTL DEF RSpec

\* What was copied whole was released.
LEMMA WholeIsSince ==
    ASSUME ReadTypeOK, NEW o \in Operators, read[o].answer \in Copied(read[o].since),
           read[o].answer \notin Parts
    PROVE  read[o].answer \in read[o].since
<1>1. read[o].since \subseteq Stored
  BY DEF ReadTypeOK, ReadType
<1>2. \A v \in read[o].since \ {NoItem} : Part[v] \in Parts
  BY <1>1 DEF Stored, Parts
<1> QED BY <1>2 DEF Copied

-----------------------------------------------------------------------------
(* The theorems.                                                           *)

\* The calls beside readers behave as the calls alone: a reader changes nothing
\* they depend on.
THEOREM ReadersLeaveCallsAlone == RSpec => Spec
<1>1. RInit => Init
  BY DEF RInit
<1> QED BY <1>1, ReadersOnlyRead, PTL DEF RSpec, Spec

\* What an undisturbed publication has told its caller is what every later read
\* that is answered gives, until somebody publishes again.
THEOREM PublishedReachesReaders == RSpec => []PublishedIsRead
<1>1. RInv => PublishedIsRead
  <2> SUFFICES ASSUME RInv, NEW o \in Operators,
                      read[o].at = "answered", read[o].form = "yaml", Got(read[o].answer),
                      read[o].told # Unknown
               PROVE  ResultOf("yaml", read[o].answer)
                        = (IF read[o].told = NoItem THEN Nothing ELSE Given(read[o].told))
    BY Zenon DEF PublishedIsRead
  <2>1. read[o].answer = read[o].told
    <3>1. read[o].answer \notin Parts
      BY DEF RInv, ReadSince, Copies
    <3> QED BY <3>1 DEF RInv, ReadTold
  <2>2. ResultOf("yaml", read[o].answer) = GetCf(read[o].answer)
    <3>1. read[o].answer # "threw"
      BY DEF Got
    <3> QED BY <3>1 DEF ResultOf, GetConfig, Policies
  <2> QED BY <2>1, <2>2 DEF GetCf
<1> QED BY <1>1, RInvAlways, PTL

\* Every form of a read gives something that was released while it lasted, or
\* nothing, and the map of a caller holds what this read brought and not what an
\* earlier one did.
THEOREM ReadsAreFresh == RSpec => HoldsThisRead
<1> DEFINE fresh ==
      \A o \in Operators :
          LET r == read[o]
              result == ResultOf(r.form, r.answer)
          IN r.at = "answered" /\ read'[o].at = "idle" =>
              /\ result.what \in {NoItem}
                    \cup (IF r.form = "map" THEN Copied(r.since) ELSE r.since)
              /\ r.form = "output" =>
                    /\ \/ r.answer = "refused" /\ out'[o] = out[o]
                       \/ r.answer = "failed" /\ out'[o] = NoItem
                       \/ Got(r.answer) /\ out'[o] \in Copied(r.since)
                    /\ result.how = "given" => out'[o] \in r.since
<1>1. ASSUME RInv, [RNext]_rvars, NEW o \in Operators,
             read[o].at = "answered", read'[o].at = "idle"
      PROVE  ReadReturns(o)
  <2>1. ReadTypeOK /\ IInv /\ ToldTypeOK
    BY <1>1 DEF RInv
  <2>2. ~Write
    BY <1>1, <2>1, WriteStep
  <2>3. ASSUME NEW p \in Operators, NEW form \in Forms, NEW c \in Configs, NEW size \in Sizes,
               BeginRead(p, form, c, size)
        PROVE  FALSE
    <3>1. read'[p].at # "idle" /\ \A q \in Operators \ {p} : read'[q] = read[q]
      BY <2>1, <2>3, BeginReadStep
    <3> QED BY <1>1, <3>1
  <2>4. ASSUME NEW p \in Operators, ServiceAnswers(p) PROVE FALSE
    <3>1. read'[p].at # "idle" /\ \A q \in Operators \ {p} : read'[q] = read[q]
      BY <2>1, <2>4, ServiceAnswersStep
    <3> QED BY <1>1, <3>1
  <2>5. ASSUME NEW p \in Operators, p # o, ReadReturns(p) PROVE FALSE
    <3>1. read'[o] = read[o]
      BY <2>1, <2>5, ReadReturnsStep
    <3> QED BY <1>1, <3>1
  <2>6. ~UNCHANGED rvars
    BY <1>1 DEF rvars, readers
  <2> QED BY <1>1, <2>2, <2>3, <2>4, <2>5, <2>6, Zenon DEF RNext
<1>2. ASSUME RInv, NEW o \in Operators, read[o].at = "answered"
      PROVE  ResultOf(read[o].form, read[o].answer).what \in {NoItem}
                \cup (IF read[o].form = "map" THEN Copied(read[o].since) ELSE read[o].since)
  <2>1. read[o].form \in Forms
    BY <1>2 DEF RInv, ReadTypeOK, ReadType
  <2>2. Got(read[o].answer) => read[o].answer \in Copied(read[o].since)
    BY <1>2 DEF RInv, ReadSince
  <2>3. CASE read[o].form = "map"
    BY <2>2, <2>3 DEF ResultOf, Policies, Inner, Given
  <2>4. CASE read[o].form = "output"
    <3>1. Got(read[o].answer) /\ read[o].answer \notin Parts => read[o].answer \in read[o].since
      BY <1>2, <2>2, WholeIsSince DEF RInv
    <3>2. ResultOf(read[o].form, read[o].answer).what \in read[o].since \cup {NoItem}
      BY <2>4, <3>1 DEF ResultOf, Policies, Given, Nothing
    <3> QED BY <2>4, <3>2
  <2>5. CASE read[o].form \notin Copies
    <3>1. Got(read[o].answer) => read[o].answer \in read[o].since
      <4>1. read[o].answer \notin Parts
        BY <1>2, <2>5 DEF RInv, ReadSince
      <4> QED BY <1>2, <2>2, <4>1, WholeIsSince DEF RInv
    <3>2. GetCf(read[o].answer).what \in read[o].since \cup {NoItem}
      BY <3>1 DEF GetCf, Nothing, Given
    <3>3. PropertiesCf(read[o].answer).what \in read[o].since \cup {NoItem}
      BY <3>1 DEF PropertiesCf, Nothing, Given
    <3>4. GetYamlConfig(read[o].answer).what \in read[o].since \cup {NoItem}
      BY <3>2 DEF GetYamlConfig, Thrown
    <3>5. GetConfig(read[o].form, read[o].answer).what \in read[o].since \cup {NoItem}
      <4> HIDE DEF GetCf
      <4> QED BY <3>2, <3>3, <3>4 DEF GetConfig, Thrown
    <3>6. /\ InnerByKey(read[o].answer).what \in read[o].since \cup {NoItem}
          /\ InnerByYAML(read[o].answer).what \in read[o].since \cup {NoItem}
      BY <3>1 DEF InnerByKey, InnerByYAML, Given
    <3>7. ResultOf(read[o].form, read[o].answer).what \in read[o].since \cup {NoItem}
      BY <2>1, <2>5, <3>5, <3>6 DEF ResultOf, Forms, Policies, Copies
    <3> QED BY <2>5, <3>7 DEF Copies
  <2> QED BY <2>3, <2>4, <2>5 DEF Copies
<1>3. ASSUME RInv, NEW o \in Operators, read[o].at = "answered", read[o].form = "output",
             ReadReturns(o)
      PROVE  /\ \/ read[o].answer = "refused" /\ out'[o] = out[o]
                \/ read[o].answer = "failed" /\ out'[o] = NoItem
                \/ Got(read[o].answer) /\ out'[o] \in Copied(read[o].since)
             /\ ResultOf(read[o].form, read[o].answer).how = "given"
                   => out'[o] \in read[o].since
  <2>1. out' = [out EXCEPT ![o] = InnerOutput(out[o], read[o].answer)]
    BY <1>3 DEF ReadReturns
  <2>2. out'[o] = InnerOutput(out[o], read[o].answer)
    BY <1>3, <2>1 DEF RInv, OutTypeOK
  <2>3. /\ read[o].answer # "threw"
        /\ Got(read[o].answer) => read[o].answer \in Copied(read[o].since)
    BY <1>3 DEF RInv, ReadSince
  <2>4. \/ read[o].answer = "refused" /\ out'[o] = out[o]
        \/ read[o].answer = "failed" /\ out'[o] = NoItem
        \/ Got(read[o].answer) /\ out'[o] \in Copied(read[o].since)
    BY <2>2, <2>3 DEF InnerOutput, Got
  <2>5. ASSUME ResultOf(read[o].form, read[o].answer).how = "given"
        PROVE  out'[o] \in read[o].since
    <3>1. Got(read[o].answer) /\ read[o].answer \notin Parts
      BY <1>3, <2>5 DEF ResultOf, Policies, Nothing
    <3>2. out'[o] = read[o].answer
      BY <2>2, <3>1 DEF InnerOutput, Got
    <3> QED BY <1>3, <2>3, <3>1, <3>2, WholeIsSince DEF RInv
  <2> QED BY <2>4, <2>5
<1>4. RInv /\ [RNext]_rvars => fresh
  BY <1>1, <1>2, <1>3
<1> QED BY <1>4, RInvAlways, PTL DEF RSpec, HoldsThisRead

=============================================================================

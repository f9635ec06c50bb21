-------------------------- MODULE ConfigClient_proofs --------------------------
(***************************************************************************)
(* Theorems about ConfigClient for any number of namespaces and keys, any  *)
(* contents of the releases, any budget of reconnections and any bounds.   *)
(***************************************************************************)
EXTENDS ConfigClient, TLAPS

USE NumNsAssumption, PropertiesAssumption, ReleaseKeysAssumption,
    BudgetAssumption, StopBeforeInitAssumption, BoundAssumption
    DEF Ns, Versions, Threads, Unlisted, Absent, Blank, Up

-----------------------------------------------------------------------------

\* A thread that is fetching or storing is at one of the namespaces.
AtANamespace ==
    \A t \in Threads : pc[t] \in {"lock", "store", "wipe"} => at[t] \in Ns

TypeInv == TypeOK /\ AtANamespace

\* The case split every proof below uses: a step is one of these actions.
LEMMA StepCases ==
    ASSUME Next
    PROVE  \/ \E ns \in Ns : Publish(ns)
           \/ CallInit \/ Spawn \/ CallStop \/ CallDestroy \/ Join
           \/ \E ns \in Ns, k \in Keys : Get(ns, k)
           \/ GetRace
           \/ \E t \in Threads : Fetch(t)
           \/ \E t \in Threads : FetchNothing(t)
           \/ \E t \in Threads : LockContainer(t)
           \/ \E t \in Threads : Malformed(t)
           \/ \E t \in Threads, k \in Keys : StoreKey(t, k)
           \/ \E t \in Threads : UnlockContainer(t)
           \/ \E t \in Threads : FetchProperties(t)
           \/ \E t \in Threads : Wipe(t)
           \/ \E t \in Threads : UpdateDone(t)
           \/ SendPoll \/ LeaveLoop \/ ServerAnswers \/ ReadReply
           \/ UnreadableReply \/ NotModified \/ PollFails
  BY DEF Next, UserThread, BackThread, Readers, Update

LEMMA TypeInvInit == Init => TypeInv
<1> SUFFICES ASSUME Init PROVE TypeInv
  OBVIOUS
<1>1. IdsTypeOK
  BY DEF Init, Empty, IdsTypeOK
<1>2. StoreTypeOK
  BY DEF Init, Empty, StoreTypeOK
<1>3. ThreadsTypeOK
  <2>1. pc \in [Threads -> Points]
    BY DEF Init, Points
  <2>2. at \in [Threads -> 1..(NumNs + 1)] /\ mutex \in Threads \cup {"free"}
    BY DEF Init
  <2> QED
    BY <2>1, <2>2 DEF ThreadsTypeOK
<1>4. AtANamespace
  BY DEF Init, AtANamespace
<1>5. FlagsTypeOK
  <2>1. threadStart \in BOOLEAN
    BY DEF Init
  <2>2. /\ status = "STOPPED" /\ proc = "up"
        /\ reconnect = InitialBudget /\ faults = 0 /\ inits = 0 /\ fails = 0
    BY DEF Init
  <2>3. reconnect \in 0..InitialBudget
    BY <2>2
  <2>4. /\ faults \in 0..MaxFaults /\ inits \in 0..MaxInits /\ fails \in Nat
    BY <2>2
  <2> QED
    BY <2>1, <2>2, <2>3, <2>4 DEF FlagsTypeOK
<1> QED
  BY <1>1, <1>2, <1>3, <1>4, <1>5 DEF TypeInv, TypeOK

LEMMA TypeInvStep ==
    ASSUME TypeInv, [Next]_vars
    PROVE  TypeInv'
<1> USE DEF TypeInv, TypeOK, server, poll, flags, work, history, Goto, Empty
<1>1. CASE UNCHANGED vars
  BY <1>1 DEF vars, IdsTypeOK, StoreTypeOK, ThreadsTypeOK, FlagsTypeOK,
     AtANamespace
<1>2. CASE \E ns \in Ns : Publish(ns)
  <2>1. IdsTypeOK'
    BY <1>2 DEF Publish, IdsTypeOK
  <2>2. StoreTypeOK'
    BY <1>2 DEF Publish, StoreTypeOK
  <2>3. ThreadsTypeOK' /\ AtANamespace'
    BY <1>2 DEF Publish, ThreadsTypeOK, Points, AtANamespace
  <2>4. FlagsTypeOK'
    BY <1>2 DEF Publish, FlagsTypeOK
  <2> QED
    BY <2>1, <2>2, <2>3, <2>4
<1>3. CASE CallInit
  <2>1. IdsTypeOK'
    BY <1>3 DEF CallInit, IdsTypeOK
  <2>2. StoreTypeOK'
    BY <1>3 DEF CallInit, StoreTypeOK
  <2>3. ThreadsTypeOK' /\ AtANamespace'
    BY <1>3 DEF CallInit, ThreadsTypeOK, Points, AtANamespace
  <2>4. FlagsTypeOK'
    BY <1>3 DEF CallInit, FlagsTypeOK
  <2> QED
    BY <2>1, <2>2, <2>3, <2>4
<1>4. CASE Spawn
  <2>1. IdsTypeOK'
    BY <1>4 DEF Spawn, Joinable, IdsTypeOK
  <2>2. StoreTypeOK'
    BY <1>4 DEF Spawn, Joinable, StoreTypeOK
  <2>3. ThreadsTypeOK' /\ AtANamespace'
    BY <1>4 DEF Spawn, Joinable, ThreadsTypeOK, Points, AtANamespace
  <2>4. FlagsTypeOK'
    BY <1>4 DEF Spawn, Joinable, FlagsTypeOK
  <2> QED
    BY <2>1, <2>2, <2>3, <2>4
<1>5. CASE CallStop
  <2>1. IdsTypeOK'
    BY <1>5 DEF CallStop, IdsTypeOK
  <2>2. StoreTypeOK'
    BY <1>5 DEF CallStop, StoreTypeOK
  <2>3. ThreadsTypeOK' /\ AtANamespace'
    BY <1>5 DEF CallStop, ThreadsTypeOK, Points, AtANamespace
  <2>4. FlagsTypeOK'
    BY <1>5 DEF CallStop, FlagsTypeOK
  <2> QED
    BY <2>1, <2>2, <2>3, <2>4
<1>6. CASE CallDestroy
  <2>1. IdsTypeOK'
    BY <1>6 DEF CallDestroy, IdsTypeOK
  <2>2. StoreTypeOK'
    BY <1>6 DEF CallDestroy, StoreTypeOK
  <2>3. ThreadsTypeOK' /\ AtANamespace'
    BY <1>6 DEF CallDestroy, ThreadsTypeOK, Points, AtANamespace
  <2>4. FlagsTypeOK'
    BY <1>6 DEF CallDestroy, FlagsTypeOK
  <2> QED
    BY <2>1, <2>2, <2>3, <2>4
<1>7. CASE Join
  <2>1. IdsTypeOK'
    BY <1>7 DEF Join, IdsTypeOK
  <2>2. StoreTypeOK'
    BY <1>7 DEF Join, StoreTypeOK
  <2>3. ThreadsTypeOK' /\ AtANamespace'
    BY <1>7 DEF Join, ThreadsTypeOK, Points, AtANamespace
  <2>4. FlagsTypeOK'
    BY <1>7 DEF Join, FlagsTypeOK
  <2> QED
    BY <2>1, <2>2, <2>3, <2>4
<1>8. CASE \E ns \in Ns, k \in Keys : Get(ns, k)
  <2>1. IdsTypeOK'
    BY <1>8 DEF Get, Looked, IdsTypeOK
  <2>2. StoreTypeOK'
    BY <1>8 DEF Get, Looked, StoreTypeOK
  <2>3. ThreadsTypeOK' /\ AtANamespace'
    BY <1>8 DEF Get, Looked, ThreadsTypeOK, Points, AtANamespace
  <2>4. FlagsTypeOK'
    BY <1>8 DEF Get, Looked, FlagsTypeOK
  <2> QED
    BY <2>1, <2>2, <2>3, <2>4
<1>9. CASE GetRace
  <2>1. IdsTypeOK'
    BY <1>9 DEF GetRace, IdsTypeOK
  <2>2. StoreTypeOK'
    BY <1>9 DEF GetRace, StoreTypeOK
  <2>3. ThreadsTypeOK' /\ AtANamespace'
    BY <1>9 DEF GetRace, ThreadsTypeOK, Points, AtANamespace
  <2>4. FlagsTypeOK'
    BY <1>9 DEF GetRace, FlagsTypeOK
  <2> QED
    BY <2>1, <2>2, <2>3, <2>4
<1>10. CASE \E t \in Threads : Fetch(t)
  <2>1. IdsTypeOK'
    BY <1>10 DEF Fetch, AtNs, FetchAnswers, IdsTypeOK
  <2>2. StoreTypeOK'
    BY <1>10 DEF Fetch, AtNs, FetchAnswers, StoreTypeOK, ThreadsTypeOK,
       IdsTypeOK, AtANamespace
  <2>3. ThreadsTypeOK' /\ AtANamespace'
    BY <1>10 DEF Fetch, AtNs, FetchAnswers, ThreadsTypeOK, Points, AtANamespace
  <2>4. FlagsTypeOK'
    BY <1>10 DEF Fetch, AtNs, FetchAnswers, FlagsTypeOK
  <2> QED
    BY <2>1, <2>2, <2>3, <2>4
<1>11. CASE \E t \in Threads : FetchNothing(t)
  <2>1. IdsTypeOK'
    BY <1>11 DEF FetchNothing, AtNs, NextNs, Fault, IdsTypeOK
  <2>2. StoreTypeOK'
    <3>1. PICK t \in Threads : FetchNothing(t)
      BY <1>11
    <3>2. at[t] \in Ns
      BY <3>1 DEF FetchNothing, AtNs, ThreadsTypeOK
    <3> QED
      BY <3>1, <3>2 DEF FetchNothing, StoreTypeOK
  <2>3. ThreadsTypeOK' /\ AtANamespace'
    BY <1>11 DEF FetchNothing, AtNs, NextNs, Fault, ThreadsTypeOK, Points,
       AtANamespace
  <2>4. FlagsTypeOK'
    BY <1>11 DEF FetchNothing, AtNs, NextNs, Fault, FlagsTypeOK
  <2> QED
    BY <2>1, <2>2, <2>3, <2>4
<1>12. CASE \E t \in Threads : LockContainer(t)
  <2>1. IdsTypeOK'
    BY <1>12 DEF LockContainer, IdsTypeOK
  <2>2. StoreTypeOK'
    BY SMTT(40), <1>12 DEF LockContainer, StoreTypeOK, ThreadsTypeOK, IdsTypeOK,
       AtANamespace
  <2>3. ThreadsTypeOK' /\ AtANamespace'
    BY <1>12 DEF LockContainer, ThreadsTypeOK, Points, AtANamespace
  <2>4. FlagsTypeOK'
    BY <1>12 DEF LockContainer, FlagsTypeOK
  <2> QED
    BY <2>1, <2>2, <2>3, <2>4
<1>13. CASE \E t \in Threads : Malformed(t)
  <2>1. IdsTypeOK'
    BY <1>13 DEF Malformed, Fault, IdsTypeOK
  <2>2. StoreTypeOK'
    BY <1>13 DEF Malformed, Fault, StoreTypeOK, ThreadsTypeOK, IdsTypeOK,
       AtANamespace
  <2>3. ThreadsTypeOK' /\ AtANamespace'
    BY <1>13 DEF Malformed, Fault, ThreadsTypeOK, Points, AtANamespace
  <2>4. FlagsTypeOK'
    BY <1>13 DEF Malformed, Fault, FlagsTypeOK
  <2> QED
    BY <2>1, <2>2, <2>3, <2>4
<1>14. CASE \E t \in Threads, k \in Keys : StoreKey(t, k)
  <2>1. IdsTypeOK'
    BY <1>14 DEF StoreKey, KeyPrefix, Assigned, IdsTypeOK
  <2>2. StoreTypeOK'
    BY SMTT(40), <1>14 DEF StoreKey, KeyPrefix, Assigned, StoreTypeOK, ThreadsTypeOK,
       IdsTypeOK, AtANamespace
  <2>3. ThreadsTypeOK' /\ AtANamespace'
    BY <1>14 DEF StoreKey, KeyPrefix, Assigned, ThreadsTypeOK, Points,
       AtANamespace
  <2>4. FlagsTypeOK'
    BY <1>14 DEF StoreKey, KeyPrefix, Assigned, FlagsTypeOK
  <2> QED
    BY <2>1, <2>2, <2>3, <2>4
<1>15. CASE \E t \in Threads : UnlockContainer(t)
  <2>1. IdsTypeOK'
    BY <1>15 DEF UnlockContainer, NextNs, IdsTypeOK
  <2>2. StoreTypeOK'
    <3>1. PICK t \in Threads : UnlockContainer(t)
      BY <1>15
    <3>2. got[t] \in Versions
      BY DEF StoreTypeOK
    <3>3. applied' \in [Ns -> Versions \cup {Unlisted}]
      BY <3>1, <3>2 DEF UnlockContainer, StoreTypeOK
    <3>4. missed' \subseteq Ns
      BY <3>1 DEF UnlockContainer, StoreTypeOK
    <3> QED
      BY <3>1, <3>3, <3>4 DEF UnlockContainer, StoreTypeOK
  <2>3. ThreadsTypeOK' /\ AtANamespace'
    BY <1>15 DEF UnlockContainer, NextNs, ThreadsTypeOK, Points, AtANamespace
  <2>4. FlagsTypeOK'
    BY <1>15 DEF UnlockContainer, NextNs, FlagsTypeOK
  <2> QED
    BY <2>1, <2>2, <2>3, <2>4
<1>16. CASE \E t \in Threads : FetchProperties(t)
  <2>1. IdsTypeOK'
    BY <1>16 DEF FetchProperties, AtNs, IdsTypeOK
  <2>2. StoreTypeOK'
    BY <1>16 DEF FetchProperties, AtNs, StoreTypeOK, ThreadsTypeOK, IdsTypeOK,
       AtANamespace
  <2>3. ThreadsTypeOK' /\ AtANamespace'
    BY <1>16 DEF FetchProperties, AtNs, ThreadsTypeOK, Points, AtANamespace
  <2>4. FlagsTypeOK'
    BY <1>16 DEF FetchProperties, AtNs, FlagsTypeOK
  <2> QED
    BY <2>1, <2>2, <2>3, <2>4
<1>17. CASE \E t \in Threads : Wipe(t)
  <2>1. IdsTypeOK'
    BY <1>17 DEF Wipe, NextNs, IdsTypeOK
  <2>2. StoreTypeOK'
    BY <1>17 DEF Wipe, NextNs, StoreTypeOK, ThreadsTypeOK, IdsTypeOK,
       AtANamespace
  <2>3. ThreadsTypeOK' /\ AtANamespace'
    BY <1>17 DEF Wipe, NextNs, ThreadsTypeOK, Points, AtANamespace
  <2>4. FlagsTypeOK'
    BY <1>17 DEF Wipe, NextNs, FlagsTypeOK
  <2> QED
    BY <2>1, <2>2, <2>3, <2>4
<1>18. CASE \E t \in Threads : UpdateDone(t)
  <2>1. IdsTypeOK'
    BY <1>18 DEF UpdateDone, IdsTypeOK
  <2>2. StoreTypeOK'
    BY <1>18 DEF UpdateDone, StoreTypeOK, ThreadsTypeOK, IdsTypeOK, AtANamespace
  <2>3. ThreadsTypeOK' /\ AtANamespace'
    BY <1>18 DEF UpdateDone, ThreadsTypeOK, Points, AtANamespace
  <2>4. FlagsTypeOK'
    BY <1>18 DEF UpdateDone, FlagsTypeOK
  <2> QED
    BY <2>1, <2>2, <2>3, <2>4
<1>19. CASE SendPoll
  <2>1. IdsTypeOK'
    BY <1>19 DEF SendPoll, IdsTypeOK
  <2>2. StoreTypeOK'
    BY <1>19 DEF SendPoll, StoreTypeOK
  <2>3. ThreadsTypeOK' /\ AtANamespace'
    BY <1>19 DEF SendPoll, ThreadsTypeOK, Points, AtANamespace
  <2>4. FlagsTypeOK'
    BY <1>19 DEF SendPoll, FlagsTypeOK
  <2> QED
    BY <2>1, <2>2, <2>3, <2>4
<1>20. CASE LeaveLoop
  <2>1. IdsTypeOK'
    BY <1>20 DEF LeaveLoop, IdsTypeOK
  <2>2. StoreTypeOK'
    BY <1>20 DEF LeaveLoop, StoreTypeOK
  <2>3. ThreadsTypeOK' /\ AtANamespace'
    BY <1>20 DEF LeaveLoop, ThreadsTypeOK, Points, AtANamespace
  <2>4. FlagsTypeOK'
    BY <1>20 DEF LeaveLoop, FlagsTypeOK
  <2> QED
    BY <2>1, <2>2, <2>3, <2>4
<1>21. CASE ServerAnswers
  <2>1. IdsTypeOK'
    BY <1>21 DEF ServerAnswers, IdsTypeOK
  <2>2. StoreTypeOK'
    BY <1>21 DEF ServerAnswers, StoreTypeOK
  <2>3. ThreadsTypeOK' /\ AtANamespace'
    BY <1>21 DEF ServerAnswers, ThreadsTypeOK, Points, AtANamespace
  <2>4. FlagsTypeOK'
    BY <1>21 DEF ServerAnswers, FlagsTypeOK
  <2> QED
    BY <2>1, <2>2, <2>3, <2>4
<1>22. CASE ReadReply
  <2>1. IdsTypeOK'
    BY <1>22 DEF ReadReply, Announced, Listed, Refilled, IdsTypeOK
  <2>2. StoreTypeOK'
    BY <1>22 DEF ReadReply, Announced, Listed, Refilled, StoreTypeOK
  <2>3. ThreadsTypeOK' /\ AtANamespace'
    BY <1>22 DEF ReadReply, Announced, Listed, Refilled, ThreadsTypeOK,
       Points, AtANamespace
  <2>4. FlagsTypeOK'
    BY <1>22 DEF ReadReply, Announced, Listed, Refilled, FlagsTypeOK
  <2> QED
    BY <2>1, <2>2, <2>3, <2>4
<1>23. CASE UnreadableReply
  <2>1. IdsTypeOK'
    BY <1>23 DEF UnreadableReply, Announced, Listed, Reconnect, Fault, IdsTypeOK
  <2>2. StoreTypeOK'
    BY <1>23 DEF UnreadableReply, Announced, Listed, Reconnect, Fault,
       StoreTypeOK, ThreadsTypeOK, IdsTypeOK, AtANamespace
  <2>3. ThreadsTypeOK' /\ AtANamespace'
    BY <1>23 DEF UnreadableReply, Announced, Listed, Reconnect, Fault,
       ThreadsTypeOK, Points, AtANamespace
  <2>4. FlagsTypeOK'
    BY <1>23 DEF UnreadableReply, Announced, Listed, Reconnect, Fault,
       FlagsTypeOK
  <2> QED
    BY <2>1, <2>2, <2>3, <2>4
<1>24. CASE NotModified
  <2>1. IdsTypeOK'
    BY <1>24 DEF NotModified, Refilled, Fault, IdsTypeOK
  <2>2. StoreTypeOK'
    BY <1>24 DEF NotModified, Refilled, Fault, StoreTypeOK
  <2>3. ThreadsTypeOK' /\ AtANamespace'
    BY <1>24 DEF NotModified, Refilled, Fault, ThreadsTypeOK, Points,
       AtANamespace
  <2>4. FlagsTypeOK'
    BY <1>24 DEF NotModified, Refilled, Fault, FlagsTypeOK
  <2> QED
    BY <2>1, <2>2, <2>3, <2>4
<1>25. CASE PollFails
  <2>1. IdsTypeOK'
    BY <1>25 DEF PollFails, Reconnect, Fault, IdsTypeOK
  <2>2. StoreTypeOK'
    BY <1>25 DEF PollFails, Reconnect, Fault, StoreTypeOK
  <2>3. ThreadsTypeOK' /\ AtANamespace'
    BY <1>25 DEF PollFails, Reconnect, Fault, ThreadsTypeOK, Points,
       AtANamespace
  <2>4. FlagsTypeOK'
    BY <1>25 DEF PollFails, Reconnect, Fault, FlagsTypeOK
  <2> QED
    BY <2>1, <2>2, <2>3, <2>4
<1> QED
  BY <1>1, <1>2, <1>3, <1>4, <1>5, <1>6, <1>7, <1>8, <1>9, <1>10, <1>11,
     <1>12, <1>13, <1>14, <1>15, <1>16, <1>17, <1>18, <1>19, <1>20, <1>21,
        <1>22, <1>23, <1>24, <1>25, StepCases

\* Every variable keeps its type, and a thread at work on a namespace is inside
\* the vector of namespaces.
THEOREM TypeCorrect == Spec => []TypeOK
<1>1. Init => TypeInv
  BY TypeInvInit
<1>2. TypeInv /\ [Next]_vars => TypeInv'
  BY TypeInvStep
<1>3. TypeInv => TypeOK
  BY DEF TypeInv
<1> QED
  BY <1>1, <1>2, <1>3, PTL DEF Spec

-----------------------------------------------------------------------------

LEMMA ExclusionStep ==
    ASSUME TypeInv, StoresExclude, [Next]_vars
    PROVE  StoresExclude'
<1> USE DEF TypeInv, TypeOK, ThreadsTypeOK, StoresExclude, server, poll, flags,
            work, history, Goto, Points
<1>1. CASE UNCHANGED vars
  BY <1>1 DEF vars
<1>2. CASE \E ns \in Ns : Publish(ns)
  BY <1>2 DEF Publish
<1>3. CASE CallInit
  BY <1>3 DEF CallInit
<1>4. CASE Spawn
  BY <1>4 DEF Spawn, Joinable
<1>5. CASE CallStop
  BY <1>5 DEF CallStop
<1>6. CASE CallDestroy
  BY <1>6 DEF CallDestroy
<1>7. CASE Join
  BY <1>7 DEF Join
<1>8. CASE \E ns \in Ns, k \in Keys : Get(ns, k)
  BY <1>8 DEF Get
<1>9. CASE GetRace
  BY <1>9 DEF GetRace
<1>10. CASE \E t \in Threads : Fetch(t)
  BY <1>10 DEF Fetch, AtNs
<1>11. CASE \E t \in Threads : FetchNothing(t)
  BY <1>11 DEF FetchNothing, NextNs, Fault, AtNs
<1>12. CASE \E t \in Threads : LockContainer(t)
  BY <1>12 DEF LockContainer
<1>13. CASE \E t \in Threads : Malformed(t)
  BY <1>13 DEF Malformed, Fault
<1>14. CASE \E t \in Threads, k \in Keys : StoreKey(t, k)
  BY <1>14 DEF StoreKey
<1>15. CASE \E t \in Threads : UnlockContainer(t)
  BY <1>15 DEF UnlockContainer, NextNs
<1>16. CASE \E t \in Threads : FetchProperties(t)
  BY <1>16 DEF FetchProperties, AtNs
<1>17. CASE \E t \in Threads : Wipe(t)
  BY <1>17 DEF Wipe, NextNs
<1>18. CASE \E t \in Threads : UpdateDone(t)
  BY <1>18 DEF UpdateDone
<1>19. CASE SendPoll
  BY <1>19 DEF SendPoll
<1>20. CASE LeaveLoop
  BY <1>20 DEF LeaveLoop
<1>21. CASE ServerAnswers
  BY <1>21 DEF ServerAnswers
<1>22. CASE ReadReply
  BY <1>22 DEF ReadReply
<1>23. CASE UnreadableReply
  BY <1>23 DEF UnreadableReply, Reconnect, Fault
<1>24. CASE NotModified
  BY <1>24 DEF NotModified, Fault
<1>25. CASE PollFails
  BY <1>25 DEF PollFails, Reconnect, Fault
<1> QED
  BY <1>1, <1>2, <1>3, <1>4, <1>5, <1>6, <1>7, <1>8, <1>9, <1>10, <1>11,
     <1>12, <1>13, <1>14, <1>15, <1>16, <1>17, <1>18, <1>19, <1>20, <1>21,
        <1>22, <1>23, <1>24, <1>25, StepCases

\* Whatever threads are in the client, and however init overlaps the polling,
\* container_mutex_ is held by exactly the thread that merges a document.
THEOREM MergesExclude == Spec => []StoresExclude
<1>1. Init => TypeInv /\ StoresExclude
  <2>1. Init => StoresExclude
    BY DEF Init, StoresExclude
  <2> QED
    BY <2>1, TypeInvInit
<1>2. TypeInv /\ StoresExclude /\ [Next]_vars => TypeInv' /\ StoresExclude'
  BY TypeInvStep, ExclusionStep
<1> QED
  BY <1>1, <1>2, PTL DEF Spec

-----------------------------------------------------------------------------

\* What is left of the budget and the failures so far add up to the budget the
\* run of failures began with, until the budget is used up.
BudgetInv ==
    \/ reconnect + fails \in {InitialBudget, ResetBudget}
    \/ reconnect = 0 /\ fails >= ResetBudget

LEMMA BudgetStep ==
    ASSUME TypeInv, BudgetInv, [Next]_vars
    PROVE  BudgetInv'
<1> USE DEF TypeInv, TypeOK, FlagsTypeOK, BudgetInv
<1>1. CASE UNCHANGED <<reconnect, fails>>
  BY <1>1
<1>2. CASE ReadReply
  BY <1>2 DEF ReadReply, Refilled
<1>3. CASE UnreadableReply
  BY <1>3 DEF UnreadableReply, Reconnect
<1>4. CASE NotModified
  BY <1>4 DEF NotModified, Refilled
<1>5. CASE PollFails
  BY <1>5 DEF PollFails, Reconnect
<1>6. UNCHANGED <<reconnect, fails>> \/ ReadReply \/ UnreadableReply
          \/ NotModified \/ PollFails
  BY ZenonT(40), StepCases DEF vars, history, Publish, CallInit, Spawn, CallStop,
     CallDestroy, Join, Get, GetRace, Fetch, FetchNothing, LockContainer,
     Malformed, StoreKey, UnlockContainer, FetchProperties, Wipe, UpdateDone,
     SendPoll, LeaveLoop, ServerAnswers
<1> QED
  BY <1>1, <1>2, <1>3, <1>4, <1>5, <1>6

LEMMA GivingUpStep ==
    ASSUME TypeInv, BudgetInv, [Next]_vars,
           pc["back"] \in {"poll", "reply"}, pc'["back"] = "exited"
    PROVE  fails' > ResetBudget
<1>1. UnreadableReply \/ PollFails => Reconnect
  BY DEF UnreadableReply, PollFails
<1>2. Reconnect => fails' > ResetBudget
  BY DEF Reconnect, Goto, BudgetInv, TypeInv, TypeOK, FlagsTypeOK, ThreadsTypeOK
<1>3. UnreadableReply \/ PollFails
  BY StepCases DEF vars, history, work, Goto, NextNs, TypeInv, TypeOK,
     ThreadsTypeOK, Publish, CallInit, Spawn, CallStop, CallDestroy, Join,
     Get, GetRace, Fetch, FetchNothing, LockContainer, Malformed, StoreKey,
     UnlockContainer, FetchProperties, Wipe, UpdateDone, SendPoll, LeaveLoop,
     ServerAnswers, ReadReply, NotModified
<1> QED
  BY <1>1, <1>2, <1>3

\* The back thread leaves the program without configuration only after more
\* than ResetBudget polls in a row have failed, however often stop and init
\* have restarted it.
THEOREM GivesUpOnlyLate == Spec => GivesUpLate
<1>1. Init => TypeInv /\ BudgetInv
  <2>1. Init => BudgetInv
    BY DEF Init, BudgetInv
  <2> QED
    BY <2>1, TypeInvInit
<1>2. TypeInv /\ BudgetInv /\ [Next]_vars => TypeInv' /\ BudgetInv'
  BY TypeInvStep, BudgetStep
<1>3. TypeInv /\ BudgetInv /\ [Next]_vars
        => [pc["back"] \in {"poll", "reply"} /\ pc'["back"] = "exited"
              => fails' > ResetBudget]_vars
  BY GivingUpStep
<1> QED
  BY <1>1, <1>2, <1>3, PTL DEF Spec, GivesUpLate

-----------------------------------------------------------------------------

\* A document being merged is a release of its namespace, and what is left of
\* it are keys of that release.
FetchedReleased ==
    \A t \in Threads :
        /\ pc[t] \in {"lock", "store"} => got[t] <= released[at[t]]
        /\ pc[t] = "store" => left[t] \subseteq ReleaseKeys[at[t]][got[t]]

ValuesInv == ValuesReleased /\ FetchedReleased

LEMMA ValuesStep ==
    ASSUME TypeInv, ValuesInv, [Next]_vars
    PROVE  ValuesInv'
<1> USE DEF TypeInv, TypeOK, IdsTypeOK, StoreTypeOK, ThreadsTypeOK,
   AtANamespace,
            ValuesInv, ValuesReleased, FetchedReleased, server, poll, flags,
            work,
            history, Goto
<1>1. CASE UNCHANGED vars
  BY <1>1 DEF vars
<1>2. CASE \E ns \in Ns : Publish(ns)
  BY SMTT(40), <1>2 DEF Publish
<1>3. CASE CallInit
  BY <1>3 DEF CallInit, Joinable
<1>4. CASE Spawn
  BY <1>4 DEF Spawn, Joinable
<1>5. CASE CallStop
  BY <1>5 DEF CallStop
<1>6. CASE CallDestroy
  BY <1>6 DEF CallDestroy
<1>7. CASE Join
  BY <1>7 DEF Join
<1>8. CASE \E ns \in Ns, k \in Keys : Get(ns, k)
  BY SMTT(40), <1>8 DEF Get, Looked
<1>9. CASE GetRace
  BY <1>9 DEF GetRace
<1>10. CASE \E t \in Threads : Fetch(t)
  BY <1>10 DEF Fetch, AtNs, FetchAnswers
<1>11. CASE \E t \in Threads : FetchNothing(t)
  BY <1>11 DEF FetchNothing, NextNs, Fault, AtNs
<1>12. CASE \E t \in Threads : LockContainer(t)
  BY <1>12 DEF LockContainer
<1>13. CASE \E t \in Threads : Malformed(t)
  BY <1>13 DEF Malformed, Fault
<1>14. CASE \E t \in Threads, k \in Keys : StoreKey(t, k)
  BY <1>14 DEF StoreKey, KeyPrefix, Assigned
<1>15. CASE \E t \in Threads : UnlockContainer(t)
  BY <1>15 DEF UnlockContainer, NextNs
<1>16. CASE \E t \in Threads : FetchProperties(t)
  BY <1>16 DEF FetchProperties, AtNs
<1>17. CASE \E t \in Threads : Wipe(t)
  BY <1>17 DEF Wipe, NextNs
<1>18. CASE \E t \in Threads : UpdateDone(t)
  BY <1>18 DEF UpdateDone
<1>19. CASE SendPoll
  BY <1>19 DEF SendPoll
<1>20. CASE LeaveLoop
  BY <1>20 DEF LeaveLoop
<1>21. CASE ServerAnswers
  BY <1>21 DEF ServerAnswers
<1>22. CASE ReadReply
  BY <1>22 DEF ReadReply
<1>23. CASE UnreadableReply
  BY <1>23 DEF UnreadableReply, Reconnect, Fault
<1>24. CASE NotModified
  BY <1>24 DEF NotModified, Fault
<1>25. CASE PollFails
  BY <1>25 DEF PollFails, Reconnect, Fault
<1> QED
  BY <1>1, <1>2, <1>3, <1>4, <1>5, <1>6, <1>7, <1>8, <1>9, <1>10, <1>11,
     <1>12, <1>13, <1>14, <1>15, <1>16, <1>17, <1>18, <1>19, <1>20, <1>21,
        <1>22, <1>23, <1>24, <1>25, StepCases

\* A reader gets only values the service has published for that key, whoever
\* calls what in which order.
THEOREM OnlyReleasedValues == Spec => []ValuesReleased
<1>1. Init => TypeInv /\ ValuesInv
  <2>1. Init => ValuesInv
    BY DEF Init, ValuesInv, ValuesReleased, FetchedReleased
  <2> QED
    BY <2>1, TypeInvInit
<1>2. TypeInv /\ ValuesInv /\ [Next]_vars => TypeInv' /\ ValuesInv'
  BY TypeInvStep, ValuesStep
<1>3. ValuesInv => ValuesReleased
  BY DEF ValuesInv
<1> QED
  BY <1>1, <1>2, <1>3, PTL DEF Spec

-----------------------------------------------------------------------------

\* When callers stop the client before they start it again, init never runs
\* beside the back thread.
Solo ==
    pc["user"] \in {"fetch", "lock", "store", "wipe",
       "spawn"} => pc["back"] = "none"

\* A caller that stops the client first leaves no thread behind when it calls init.
LEMMA StopsFirst ==
    ASSUME StopBeforeInit
    PROVE  CallInit => ~Joinable
  BY DEF CallInit

LEMMA SoloStep ==
    ASSUME CallInit => ~Joinable, TypeInv, Solo, [Next]_vars
    PROVE  Solo'
<1> USE DEF TypeInv, TypeOK, ThreadsTypeOK, Solo, server, poll, flags, work,
            history, Goto, Points
<1>1. CASE UNCHANGED vars
  BY <1>1 DEF vars
<1>2. CASE \E ns \in Ns : Publish(ns)
  BY <1>2 DEF Publish
<1>3. CASE CallInit
  BY <1>3 DEF CallInit, Joinable
<1>4. CASE Spawn
  BY <1>4 DEF Spawn, Joinable
<1>5. CASE CallStop
  BY <1>5 DEF CallStop
<1>6. CASE CallDestroy
  BY <1>6 DEF CallDestroy
<1>7. CASE Join
  BY <1>7 DEF Join
<1>8. CASE \E ns \in Ns, k \in Keys : Get(ns, k)
  BY <1>8 DEF Get, Looked
<1>9. CASE GetRace
  BY <1>9 DEF GetRace
<1>10. CASE \E t \in Threads : Fetch(t)
  BY <1>10 DEF Fetch, AtNs, FetchAnswers
<1>11. CASE \E t \in Threads : FetchNothing(t)
  BY <1>11 DEF FetchNothing, NextNs, Fault, AtNs
<1>12. CASE \E t \in Threads : LockContainer(t)
  BY <1>12 DEF LockContainer
<1>13. CASE \E t \in Threads : Malformed(t)
  BY <1>13 DEF Malformed, Fault
<1>14. CASE \E t \in Threads, k \in Keys : StoreKey(t, k)
  BY <1>14 DEF StoreKey, KeyPrefix, Assigned
<1>15. CASE \E t \in Threads : UnlockContainer(t)
  BY <1>15 DEF UnlockContainer, NextNs
<1>16. CASE \E t \in Threads : FetchProperties(t)
  BY <1>16 DEF FetchProperties, AtNs
<1>17. CASE \E t \in Threads : Wipe(t)
  BY <1>17 DEF Wipe, NextNs
<1>18. CASE \E t \in Threads : UpdateDone(t)
  BY <1>18 DEF UpdateDone
<1>19. CASE SendPoll
  BY <1>19 DEF SendPoll
<1>20. CASE LeaveLoop
  BY <1>20 DEF LeaveLoop
<1>21. CASE ServerAnswers
  BY <1>21 DEF ServerAnswers
<1>22. CASE ReadReply
  BY <1>22 DEF ReadReply
<1>23. CASE UnreadableReply
  BY <1>23 DEF UnreadableReply, Reconnect, Fault
<1>24. CASE NotModified
  BY <1>24 DEF NotModified, Fault
<1>25. CASE PollFails
  BY <1>25 DEF PollFails, Reconnect, Fault
<1> QED
  BY <1>1, <1>2, <1>3, <1>4, <1>5, <1>6, <1>7, <1>8, <1>9, <1>10, <1>11,
     <1>12, <1>13, <1>14, <1>15, <1>16, <1>17, <1>18, <1>19, <1>20, <1>21,
        <1>22, <1>23, <1>24, <1>25, StepCases

-----------------------------------------------------------------------------

\* While a document is merged, the keys already stored have its values.
StoredSoFar ==
    \A t \in Threads : pc[t] = "store" =>
        \A k \in ReleaseKeys[at[t]][got[t]] \ left[t] : container[at[t]][k] = got[t]

WholeInv == WholeReleases /\ StoredSoFar

\* A step outside the merges that leaves the container alone.
LEMMA WholeFrame ==
    ASSUME WholeInv, UNCHANGED <<container, applied, got, left>>,
           \A t \in Threads : pc'[t] = "store" <=> pc[t] = "store",
           \A t \in Threads : pc[t] = "store" => at'[t] = at[t]
    PROVE  WholeInv'
  BY DEF WholeInv, WholeReleases, StoredSoFar, BeingStored

LEMMA WholeStep ==
    ASSUME TypeInv, Solo, WholeInv, [Next]_vars
    PROVE  WholeInv'
<1> USE DEF TypeInv, TypeOK, IdsTypeOK, StoreTypeOK, ThreadsTypeOK,
   AtANamespace,
            Solo, server, poll, flags, work, history, Goto, Empty
<1>1. CASE UNCHANGED vars
  BY <1>1, WholeFrame DEF vars
<1>2. CASE \E ns \in Ns : Publish(ns)
  BY <1>2, WholeFrame DEF Publish
<1>3. CASE CallInit
  BY <1>3, WholeFrame DEF CallInit, Joinable
<1>4. CASE Spawn
  BY <1>4, WholeFrame DEF Spawn, Joinable
<1>5. CASE CallStop
  BY <1>5, WholeFrame DEF CallStop
<1>6. CASE CallDestroy
  BY <1>6, WholeFrame DEF CallDestroy
<1>7. CASE Join
  BY <1>7, WholeFrame DEF Join
<1>8. CASE \E ns \in Ns, k \in Keys : Get(ns, k)
  BY SMTT(40), <1>8 DEF Get, Looked, WholeInv, WholeReleases,
     StoredSoFar, BeingStored
<1>9. CASE GetRace
  BY <1>9, WholeFrame DEF GetRace
<1>10. CASE \E t \in Threads : Fetch(t)
  BY <1>10 DEF Fetch, AtNs, FetchAnswers, WholeInv, WholeReleases,
     StoredSoFar, BeingStored
<1>11. CASE \E t \in Threads : FetchNothing(t)
  BY <1>11, WholeFrame DEF FetchNothing, NextNs, Fault, AtNs
<1>12. CASE \E t \in Threads : LockContainer(t)
  BY <1>12 DEF LockContainer, WholeInv, WholeReleases,
     StoredSoFar, BeingStored
<1>13. CASE \E t \in Threads : Malformed(t)
  BY <1>13, WholeFrame DEF Malformed, Fault
<1>14. CASE \E t \in Threads, k \in Keys : StoreKey(t, k)
  BY <1>14 DEF StoreKey, KeyPrefix, Assigned, WholeInv, WholeReleases,
     StoredSoFar, BeingStored
<1>15. CASE \E t \in Threads : UnlockContainer(t)
  BY SMTT(40), <1>15 DEF UnlockContainer, NextNs, WholeInv, WholeReleases,
     StoredSoFar, BeingStored
<1>16. CASE \E t \in Threads : FetchProperties(t)
  BY <1>16, WholeFrame DEF FetchProperties, AtNs
<1>17. CASE \E t \in Threads : Wipe(t)
  BY <1>17 DEF Wipe, NextNs, WholeInv, WholeReleases,
     StoredSoFar, BeingStored
<1>18. CASE \E t \in Threads : UpdateDone(t)
  BY <1>18, WholeFrame DEF UpdateDone
<1>19. CASE SendPoll
  BY <1>19, WholeFrame DEF SendPoll
<1>20. CASE LeaveLoop
  BY <1>20, WholeFrame DEF LeaveLoop
<1>21. CASE ServerAnswers
  BY <1>21, WholeFrame DEF ServerAnswers
<1>22. CASE ReadReply
  BY <1>22, WholeFrame DEF ReadReply
<1>23. CASE UnreadableReply
  BY <1>23, WholeFrame DEF UnreadableReply, Reconnect, Fault
<1>24. CASE NotModified
  BY <1>24, WholeFrame DEF NotModified, Fault
<1>25. CASE PollFails
  BY <1>25, WholeFrame DEF PollFails, Reconnect, Fault
<1> QED
  BY <1>1, <1>2, <1>3, <1>4, <1>5, <1>6, <1>7, <1>8, <1>9, <1>10, <1>11,
     <1>12, <1>13, <1>14, <1>15, <1>16, <1>17, <1>18, <1>19, <1>20, <1>21,
        <1>22, <1>23, <1>24, <1>25, StepCases

\* Outside its merge, every namespace shows the release it stored last as a
\* whole, when callers stop the client before they start it again.
THEOREM NamespacesStayWhole == Spec => []StoredWhole
<1> DEFINE Inv == TypeInv /\ (StopBeforeInit => Solo /\ WholeInv)
<1>1. Init => Inv
  <2>1. Init => Solo
    BY DEF Init, Solo
  <2>2. Init => WholeInv
    BY DEF Init, Empty, WholeInv, WholeReleases, StoredSoFar
  <2> QED
    BY <2>1, <2>2, TypeInvInit
<1>2. Inv /\ [Next]_vars => Inv'
  BY TypeInvStep, StopsFirst, SoloStep, WholeStep
<1>3. Inv => StoredWhole
  BY DEF StoredWhole, WholeInv
<1> QED
  BY <1>1, <1>2, <1>3, PTL DEF Spec

-----------------------------------------------------------------------------

\* No release is applied before it is published, and what a fetch brings is at
\* least as new as everything the container holds of that namespace.
ForwardInv ==
    /\ \A ns \in Ns : applied[ns] <= released[ns]
    /\ \A t \in Threads : pc[t] # "wipe"
    /\ \A t \in Threads : pc[t] \in {"lock", "store"} =>
           /\ applied[at[t]] <= got[t]
           /\ \A k \in Keys : container[at[t]][k] <= got[t]

LEMMA ForwardStep ==
    ASSUME Properties = {}, TypeInv, Solo, ValuesInv, ForwardInv, [Next]_vars
    PROVE  ForwardInv'
<1> USE DEF TypeInv, TypeOK, IdsTypeOK, StoreTypeOK, ThreadsTypeOK,
   AtANamespace,
            Solo, ValuesInv, ValuesReleased, FetchedReleased, ForwardInv,
            server,
            poll, flags, work, history, Goto, Empty
<1>1. CASE UNCHANGED vars
  BY <1>1 DEF vars
<1>2. CASE \E ns \in Ns : Publish(ns)
  BY SMTT(40), <1>2 DEF Publish
<1>3. CASE CallInit
  BY <1>3 DEF CallInit, Joinable
<1>4. CASE Spawn
  BY <1>4 DEF Spawn, Joinable
<1>5. CASE CallStop
  BY <1>5 DEF CallStop
<1>6. CASE CallDestroy
  BY <1>6 DEF CallDestroy
<1>7. CASE Join
  BY <1>7 DEF Join
<1>8. CASE \E ns \in Ns, k \in Keys : Get(ns, k)
  BY SMTT(40), <1>8 DEF Get, Looked
<1>9. CASE GetRace
  BY <1>9 DEF GetRace
<1>10. CASE \E t \in Threads : Fetch(t)
  <2>1. ASSUME NEW ns \in Ns, NEW k \in Keys
        PROVE  container[ns][k] <= released[ns]
    <3>1. container[ns][k] \in Versions \cup {Absent, Blank}
      OBVIOUS
    <3>2. released[ns] \in Versions
      OBVIOUS
    <3>3. container[ns][k] \in Versions => container[ns][k] <= released[ns]
      BY DEF ValuesInv, ValuesReleased
    <3> QED
      BY ONLY <3>1, <3>2, <3>3, BoundAssumption DEF Versions, Absent, Blank
  <2>2. PICK t \in Threads : Fetch(t)
    BY <1>10
  <2>3. at[t] \in Ns /\ got' = [got EXCEPT ![t] = released[at[t]]]
    <3>1. at[t] \in Ns
      BY <2>2 DEF Fetch, AtNs
    <3>2. got' = [got EXCEPT ![t] = released[at[t]]]
      BY <2>2 DEF Fetch, FetchAnswers
    <3> QED
      BY <3>1, <3>2
  <2>4. /\ UNCHANGED <<released, applied, container, at>>
        /\ pc' = [pc EXCEPT ![t] = "lock"]
    BY <2>2 DEF Fetch
  <2>5. \A u \in Threads : pc'[u] # "wipe"
    BY <2>4
  <2>6. ASSUME NEW u \in Threads, pc'[u] \in {"lock", "store"}
        PROVE  applied'[at'[u]] <= got'[u]
    BY <2>3, <2>4, <2>6
  <2>7. ASSUME NEW u \in Threads, pc'[u] \in {"lock", "store"}, NEW k \in Keys
        PROVE  container'[at'[u]][k] <= got'[u]
    BY <2>1, <2>3, <2>4, <2>7
  <2>8. \A ns \in Ns : applied'[ns] <= released'[ns]
    BY <2>4
  <2> QED
    BY ONLY <2>5, <2>6, <2>7, <2>8 DEF ForwardInv
<1>11. CASE \E t \in Threads : FetchNothing(t)
  BY <1>11 DEF FetchNothing, NextNs, Fault, AtNs
<1>12. CASE \E t \in Threads : LockContainer(t)
  BY <1>12 DEF LockContainer
<1>13. CASE \E t \in Threads : Malformed(t)
  BY <1>13 DEF Malformed, Fault
<1>14. CASE \E t \in Threads, k \in Keys : StoreKey(t, k)
  BY <1>14 DEF StoreKey, KeyPrefix, Assigned
<1>15. CASE \E t \in Threads : UnlockContainer(t)
  BY <1>15 DEF UnlockContainer, NextNs
<1>16. CASE \E t \in Threads : FetchProperties(t)
  BY <1>16 DEF FetchProperties, AtNs
<1>17. CASE \E t \in Threads : Wipe(t)
  BY <1>17 DEF Wipe, NextNs
<1>18. CASE \E t \in Threads : UpdateDone(t)
  BY <1>18 DEF UpdateDone
<1>19. CASE SendPoll
  BY <1>19 DEF SendPoll
<1>20. CASE LeaveLoop
  BY <1>20 DEF LeaveLoop
<1>21. CASE ServerAnswers
  BY <1>21 DEF ServerAnswers
<1>22. CASE ReadReply
  BY <1>22 DEF ReadReply
<1>23. CASE UnreadableReply
  BY <1>23 DEF UnreadableReply, Reconnect, Fault
<1>24. CASE NotModified
  BY <1>24 DEF NotModified, Fault
<1>25. CASE PollFails
  BY <1>25 DEF PollFails, Reconnect, Fault
<1> QED
  BY <1>1, <1>2, <1>3, <1>4, <1>5, <1>6, <1>7, <1>8, <1>9, <1>10, <1>11,
     <1>12, <1>13, <1>14, <1>15, <1>16, <1>17, <1>18, <1>19, <1>20, <1>21,
        <1>22, <1>23, <1>24, <1>25, StepCases

-----------------------------------------------------------------------------

\* The ids the client holds and those it is being sent are the service's.
IdsReleased ==
    \A ns \in Ns : notifyId[ns] <= released[ns] /\ reply[ns] <= released[ns]

\* The fetch of the back thread is not older than the id it has taken over.
FetchFresh ==
    pc["back"] \in {"lock", "store"} => notifyId[at["back"]] <= got["back"]

\* The namespaces the back thread has passed are fresh or missed.
PassedFresh ==
    pc["back"] \in {"fetch", "lock", "store"} =>
        \A ns \in Ns : ns < at["back"] => ns \in missed \/ notifyId[ns] <= applied[ns]

\* While init runs, no id is held.
NoIdsInInit ==
    pc["user"] \in {"fetch", "lock", "store", "wipe", "spawn"} =>
        \A ns \in Ns : notifyId[ns] = Unlisted

FreshInv == IdsReleased /\ FetchFresh /\ PassedFresh /\ NoIdsInInit /\ FreshBut(missed)

LEMMA FreshStep ==
    ASSUME StopBeforeInit, Properties = {}, TypeInv, Solo, ForwardInv, FreshInv,
           [Next]_vars
    PROVE  FreshInv'
<1> USE DEF TypeInv, TypeOK, IdsTypeOK, StoreTypeOK, ThreadsTypeOK,
   AtANamespace,
            Solo, ForwardInv, FreshInv, IdsReleased, FetchFresh, PassedFresh,
            NoIdsInInit, FreshBut, server, poll, flags, work,
            history, Goto, Empty
<1>1. CASE UNCHANGED vars
  BY <1>1 DEF vars
<1>2. CASE \E ns \in Ns : Publish(ns)
  <2>1. IdsReleased'
    <3>1. notifyId' = notifyId /\ reply' = reply
      BY <1>2 DEF Publish
    <3>2. ASSUME NEW ns \in Ns PROVE released[ns] \in Nat /\ released'[ns] >= released[ns]
      BY <1>2 DEF Publish
    <3>3. ASSUME NEW ns \in Ns PROVE notifyId[ns] \in Int /\ reply[ns] \in Int
      OBVIOUS
    <3>4. ASSUME NEW ns \in Ns PROVE released'[ns] \in Nat
      BY <1>2 DEF Publish
    <3> QED
      BY ONLY <3>1, <3>2, <3>3, <3>4, FreshInv DEF FreshInv, IdsReleased
  <2>2. FetchFresh'
    BY <1>2 DEF Publish
  <2>3. PassedFresh'
    BY <1>2 DEF Publish
  <2>4. NoIdsInInit'
    BY <1>2 DEF Publish
  <2>5. FreshBut(missed)'
    BY <1>2 DEF Publish
  <2> QED
    BY <2>1, <2>2, <2>3, <2>4, <2>5
<1>3. CASE CallInit
  <2>1. IdsReleased'
    BY <1>3 DEF CallInit, Joinable
  <2>2. FetchFresh'
    BY <1>3 DEF CallInit, Joinable
  <2>3. PassedFresh'
    BY <1>3 DEF CallInit, Joinable
  <2>4. NoIdsInInit'
    BY <1>3 DEF CallInit, Joinable
  <2>5. FreshBut(missed)'
    BY <1>3 DEF CallInit, Joinable
  <2> QED
    BY <2>1, <2>2, <2>3, <2>4, <2>5
<1>4. CASE Spawn
  <2>1. IdsReleased'
    BY <1>4 DEF Spawn, Joinable
  <2>2. FetchFresh'
    BY <1>4 DEF Spawn, Joinable
  <2>3. PassedFresh'
    BY <1>4 DEF Spawn, Joinable
  <2>4. NoIdsInInit'
    BY <1>4 DEF Spawn, Joinable
  <2>5. FreshBut(missed)'
    <3>1. \A ns \in Ns : notifyId[ns] = -1
      BY <1>4 DEF Spawn
    <3>2. ASSUME NEW ns \in Ns PROVE applied[ns] \in Versions \cup {-1}
      OBVIOUS
    <3>3. notifyId' = notifyId /\ applied' = applied /\ missed' = missed
      BY <1>4 DEF Spawn
    <3> QED
      BY ONLY <3>1, <3>2, <3>3, BoundAssumption DEF FreshBut, Versions
  <2> QED
    BY <2>1, <2>2, <2>3, <2>4, <2>5
<1>5. CASE CallStop
  BY <1>5 DEF CallStop
<1>6. CASE CallDestroy
  BY <1>6 DEF CallDestroy
<1>7. CASE Join
  BY <1>7 DEF Join
<1>8. CASE \E ns \in Ns, k \in Keys : Get(ns, k)
  BY <1>8 DEF Get, Looked
<1>9. CASE GetRace
  BY <1>9 DEF GetRace
<1>10. CASE \E t \in Threads : Fetch(t)
  BY <1>10 DEF Fetch, AtNs, FetchAnswers
<1>11. CASE \E t \in Threads : FetchNothing(t)
  <2>1. IdsReleased'
    BY <1>11 DEF FetchNothing, NextNs, Fault, AtNs
  <2>2. FetchFresh'
    BY <1>11 DEF FetchNothing, NextNs, Fault, AtNs
  <2>3. PassedFresh'
    BY SMTT(40), <1>11 DEF FetchNothing, NextNs, Fault, AtNs
  <2>4. NoIdsInInit'
    BY <1>11 DEF FetchNothing, NextNs, Fault, AtNs
  <2>5. FreshBut(missed)'
    BY <1>11 DEF FetchNothing, NextNs, Fault, AtNs
  <2> QED
    BY <2>1, <2>2, <2>3, <2>4, <2>5
<1>12. CASE \E t \in Threads : LockContainer(t)
  BY <1>12 DEF LockContainer
<1>13. CASE \E t \in Threads : Malformed(t)
  BY <1>13 DEF Malformed, Fault
<1>14. CASE \E t \in Threads, k \in Keys : StoreKey(t, k)
  BY <1>14 DEF StoreKey, KeyPrefix, Assigned
<1>15. CASE \E t \in Threads : UnlockContainer(t)
  <2>1. IdsReleased'
    BY <1>15 DEF UnlockContainer, NextNs
  <2>2. FetchFresh'
    BY <1>15 DEF UnlockContainer, NextNs
  <2>3. PassedFresh'
    BY SMTT(40), <1>15 DEF UnlockContainer, NextNs
  <2>4. NoIdsInInit'
    BY <1>15 DEF UnlockContainer, NextNs
  <2>5. FreshBut(missed)'
    BY <1>15 DEF UnlockContainer, NextNs
  <2> QED
    BY <2>1, <2>2, <2>3, <2>4, <2>5
<1>16. CASE \E t \in Threads : FetchProperties(t)
  BY <1>16 DEF FetchProperties, AtNs
<1>17. CASE \E t \in Threads : Wipe(t)
  BY <1>17 DEF Wipe, NextNs
<1>18. CASE \E t \in Threads : UpdateDone(t)
  BY <1>18 DEF UpdateDone
<1>19. CASE SendPoll
  BY <1>19 DEF SendPoll
<1>20. CASE LeaveLoop
  BY <1>20 DEF LeaveLoop
<1>21. CASE ServerAnswers
  BY SMTT(40), <1>21 DEF ServerAnswers
<1>22. CASE ReadReply
  BY <1>22 DEF ReadReply, Announced, Listed
<1>23. CASE UnreadableReply
  <2>1. IdsReleased'
    <3>1. released' = released /\ reply' = [ns \in Ns |-> Unlisted]
      BY <1>23 DEF UnreadableReply, Fault
    <3>2. PICK read \in SUBSET Listed : notifyId' = Announced(read)
      BY <1>23 DEF UnreadableReply
    <3>3. ASSUME NEW ns \in Ns
          PROVE  notifyId'[ns] <= released[ns] /\ Unlisted <= released[ns]
      BY <3>2 DEF Announced, Unlisted
    <3> QED
      BY <3>1, <3>3 DEF IdsReleased
  <2>2. FetchFresh'
    BY <1>23 DEF UnreadableReply, Reconnect, Fault, Announced, Listed
  <2>3. PassedFresh'
    BY <1>23 DEF UnreadableReply, Reconnect, Fault, Announced, Listed
  <2>4. NoIdsInInit'
    BY <1>23 DEF UnreadableReply, Reconnect, Fault, Announced, Listed
  <2>5. FreshBut(missed)'
    BY <1>23 DEF UnreadableReply, Reconnect, Fault, Announced, Listed
  <2> QED
    BY <2>1, <2>2, <2>3, <2>4, <2>5
<1>24. CASE NotModified
  BY <1>24 DEF NotModified, Fault
<1>25. CASE PollFails
  BY <1>25 DEF PollFails, Reconnect, Fault
<1> QED
  BY <1>1, <1>2, <1>3, <1>4, <1>5, <1>6, <1>7, <1>8, <1>9, <1>10, <1>11,
     <1>12, <1>13, <1>14, <1>15, <1>16, <1>17, <1>18, <1>19, <1>20, <1>21,
        <1>22, <1>23, <1>24, <1>25, StepCases

\* Between two updates the client holds what it says it holds (the ids of its
\* next poll), but for the namespaces whose newest fetch failed: without
\* properties namespaces, when callers stop the client before they restart it.
THEOREM PollsAreFresh == Spec => []PollFresh
<1> DEFINE Cond == StopBeforeInit /\ Properties = {}
           Inv == TypeInv /\ ValuesInv /\ (Cond => Solo /\ ForwardInv /\ FreshInv)
<1>1. Init => Inv
  <2>1. Init => Solo /\ ValuesInv
    BY DEF Init, Solo, ValuesInv, ValuesReleased, FetchedReleased
  <2>2. Init => ForwardInv
    BY DEF Init, Empty, ForwardInv
  <2>3. Init => FreshInv
    BY DEF Init, Empty, FreshInv, IdsReleased, FetchFresh, PassedFresh,
           NoIdsInInit, FreshBut
  <2> QED
    BY <2>1, <2>2, <2>3, TypeInvInit
<1>2. Inv /\ [Next]_vars => Inv'
  BY TypeInvStep, ValuesStep, StopsFirst, SoloStep, ForwardStep, FreshStep
<1>3. Inv => PollFresh
  BY DEF PollFresh, FreshInv
<1> QED
  BY <1>1, <1>2, <1>3, PTL DEF Spec

-----------------------------------------------------------------------------

LEMMA NeverBackStep ==
    ASSUME Properties = {}, TypeInv, ForwardInv, [Next]_vars
    PROVE  NeverBack
<1> USE DEF TypeInv, TypeOK, StoreTypeOK, AtANamespace, ForwardInv, NeverBack
<1>1. CASE UNCHANGED container
  BY <1>1
<1>2. CASE \E ns \in Ns, k \in Keys : Get(ns, k)
  BY <1>2 DEF Get, Looked
<1>3. CASE \E t \in Threads, k \in Keys : StoreKey(t, k)
  BY <1>3 DEF StoreKey, KeyPrefix, Assigned
<1>4. ~ \E t \in Threads : Wipe(t)
  BY DEF Wipe
<1>5. UNCHANGED container \/ (\E ns \in Ns, k \in Keys : Get(ns, k))
        \/ \E t \in Threads, k \in Keys : StoreKey(t, k)
  BY <1>4, StepCases DEF vars,
        Publish, CallInit, Spawn, CallStop, CallDestroy, Join, GetRace, Fetch,
        FetchNothing, LockContainer, Malformed, UnlockContainer,
        FetchProperties, UpdateDone, SendPoll, LeaveLoop, ServerAnswers,
        ReadReply, UnreadableReply, NotModified, PollFails
<1> QED
  BY <1>1, <1>2, <1>3, <1>5

\* A value that a reader may have seen is replaced only by newer ones, through
\* every update, stop and init (under the conditions of PollsAreFresh).
THEOREM ReadersNeverGoBack == Spec => ValuesNeverGoBack
<1> DEFINE Cond == StopBeforeInit /\ Properties = {}
           Inv == TypeInv /\ ValuesInv /\ (Cond => Solo /\ ForwardInv)
<1>1. Init => Inv
  <2>1. Init => Solo /\ ValuesInv
    BY DEF Init, Solo, ValuesInv, ValuesReleased, FetchedReleased
  <2>2. Init => ForwardInv
    BY DEF Init, Empty, ForwardInv
  <2> QED
    BY <2>1, <2>2, TypeInvInit
<1>2. Inv /\ [Next]_vars => Inv'
  BY TypeInvStep, ValuesStep, StopsFirst, SoloStep, ForwardStep
<1>3. Inv /\ [Next]_vars => [StopBeforeInit /\ Properties = {} => NeverBack]_vars
  BY NeverBackStep
<1> QED
  BY <1>1, <1>2, <1>3, PTL DEF Spec, ValuesNeverGoBack

-----------------------------------------------------------------------------

LEMMA FeedInit == Init => Feed!Init
  BY DEF Init, Empty, Feed!Init

LEMMA FeedStep ==
    ASSUME Properties = {}, TypeInv, ValuesInv, ForwardInv, [Next]_vars
    PROVE  [Feed!Next]_(Feed!feedVars)
<1> USE DEF TypeInv, TypeOK, IdsTypeOK, StoreTypeOK, ThreadsTypeOK,
   AtANamespace,
            ForwardInv
<1>1. CASE UNCHANGED <<released, applied>>
  BY <1>1 DEF Feed!feedVars
<1>2. CASE \E ns \in Ns : Publish(ns)
  BY <1>2 DEF Publish, history, Feed!Next, Feed!Publish
<1>3. CASE \E t \in Threads : UnlockContainer(t)
  <2>1. PICK t \in Threads : UnlockContainer(t)
    BY <1>3
  <2>2. /\ at[t] \in Ns /\ got[t] \in Versions
        /\ applied[at[t]] <= got[t] /\ got[t] <= released[at[t]]
    BY <2>1 DEF UnlockContainer, ValuesInv, FetchedReleased
  <2>3. Feed!Refresh(at[t], got[t])
    BY <2>1, <2>2 DEF UnlockContainer, server, Feed!Refresh
  <2> QED
    BY <2>2, <2>3 DEF Feed!Next
<1>4. ~ \E t \in Threads : Wipe(t)
  BY DEF Wipe
<1>5. UNCHANGED <<released, applied>> \/ (\E ns \in Ns : Publish(ns))
        \/ \E t \in Threads : UnlockContainer(t)
  BY <1>4, StepCases DEF vars, server, history,
        CallInit, Spawn, CallStop, CallDestroy, Join, Get, GetRace, Fetch,
        FetchNothing, LockContainer, Malformed, StoreKey, FetchProperties,
        UpdateDone, SendPoll, LeaveLoop, ServerAnswers, ReadReply,
        UnreadableReply, NotModified, PollFails
<1> QED
  BY <1>1, <1>2, <1>3, <1>5

\* The client implements ConfigFeed: every step publishes, moves one namespace
\* forward to a published release, or changes nothing a reader relies on.
THEOREM ImplementsFeed ==
    ASSUME StopBeforeInit, Properties = {}
    PROVE  Spec => FeedSpec
<1> DEFINE Inv == TypeInv /\ ValuesInv /\ Solo /\ ForwardInv
<1>1. Init => Inv
  <2>1. Init => Solo /\ ValuesInv
    BY DEF Init, Solo, ValuesInv, ValuesReleased, FetchedReleased
  <2>2. Init => ForwardInv
    BY DEF Init, Empty, ForwardInv
  <2> QED
    BY <2>1, <2>2, TypeInvInit
<1>2. Inv /\ [Next]_vars => Inv'
  BY TypeInvStep, ValuesStep, StopsFirst, SoloStep, ForwardStep
<1>3. Inv /\ [Next]_vars => [Feed!Next]_(Feed!feedVars)
  BY FeedStep
<1> QED
  BY <1>1, <1>2, <1>3, FeedInit, PTL DEF Spec, FeedSpec, Feed!Spec

=============================================================================

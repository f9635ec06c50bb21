------------------------------ MODULE ConfigFeed ------------------------------
(***************************************************************************)
(* What the configuration client promises, with neither threads nor        *)
(* requests: of every namespace it shows one of the releases published so  *)
(* far, and moves only forward among them.  It may skip releases and may   *)
(* lag behind for ever.                                                    *)
(***************************************************************************)
EXTENDS Integers

CONSTANTS NumNs, MaxRelease

VARIABLES
    published,   \* the newest release of each namespace
    view         \* the release the client shows, -1 before the first

feedVars == <<published, view>>

Init ==
    /\ published = [ns \in 1..NumNs |-> 0]
    /\ view = [ns \in 1..NumNs |-> -1]

Publish(ns) ==
    /\ published[ns] < MaxRelease
    /\ published' = [published EXCEPT ![ns] = @ + 1]
    /\ UNCHANGED view

Refresh(ns, v) ==
    /\ view[ns] <= v
    /\ v <= published[ns]
    /\ view' = [view EXCEPT ![ns] = v]
    /\ UNCHANGED published

Next == \E ns \in 1..NumNs : Publish(ns) \/ \E v \in 0..MaxRelease : Refresh(ns, v)

Spec == Init /\ [][Next]_feedVars

=============================================================================

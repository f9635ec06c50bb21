------------------------------ MODULE TcpDialogue ------------------------------
(***************************************************************************)
(* What the proxy's server promises the clients of its connections, with   *)
(* neither threads nor bytes: requests are answered in the order they were *)
(* asked, each at most once, and what was answered stays answered.  Some    *)
(* are never answered.  Requests have no frame: once one has come apart,   *)
(* its connection is promised nothing more.                                *)
(***************************************************************************)
EXTENDS Integers, Sequences

CONSTANT Clients

VARIABLES
    asked,      \* how many requests each connection has carried
    answered,   \* the requests that were answered, in the order of the answers
    framed      \* the connections whose requests have stayed whole

dialogueVars == <<asked, answered, framed>>

Init ==
    /\ asked = [c \in Clients |-> 0]
    /\ answered = [c \in Clients |-> <<>>]
    /\ framed = Clients

Newest(c) == IF answered[c] = <<>> THEN 0 ELSE answered[c][Len(answered[c])]

Ask(c) ==
    /\ asked' = [asked EXCEPT ![c] = @ + 1]
    /\ UNCHANGED <<answered, framed>>

Answer(c, no) ==
    /\ c \in framed
    /\ Newest(c) < no /\ no <= asked[c]
    /\ answered' = [answered EXCEPT ![c] = Append(@, no)]
    /\ UNCHANGED <<asked, framed>>

ComeApart(c) ==
    /\ framed' = framed \ {c}
    /\ answered' = [answered EXCEPT ![c] = <<>>]
    /\ UNCHANGED asked

Next ==
    \E c \in Clients : Ask(c) \/ ComeApart(c) \/ \E no \in 1..asked[c] : Answer(c, no)

Spec == Init /\ [][Next]_dialogueVars

=============================================================================

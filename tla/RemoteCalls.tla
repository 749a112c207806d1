---------------------------- MODULE RemoteCalls ----------------------------
(***************************************************************************)
(* What a caller may expect of calls over IPC channels: the other side runs *)
(* a call at most once, and only after it was made; a call is settled once; *)
(* one that returns has run to its end, and returns what that run gave.     *)
(* A call may be cancelled, or refused because its channel is unknown, at   *)
(* any time while it waits, and it may run nevertheless.                    *)
(***************************************************************************)
CONSTANTS Calls

VARIABLES
    caller,     \* what the caller knows of a call
    execution   \* what has become of it on the other side

vars == <<caller, execution>>

Results == {"data", "error"}
Callers == {"none", "waiting", "unknownChannel", "cancelled"} \cup Results
Executions == {"none", "running"} \cup Results

Waiting == {c \in Calls : caller[c] = "waiting"}

Init ==
    /\ caller = [c \in Calls |-> "none"]
    /\ execution = [c \in Calls |-> "none"]

Call(c) ==
    /\ caller[c] = "none"
    /\ \E state \in {"waiting", "cancelled"} : caller' = [caller EXCEPT ![c] = state]
    /\ UNCHANGED execution

\* calls that waited for their channel may start together
Start(cs) ==
    /\ \A c \in cs : caller[c] /= "none" /\ execution[c] = "none"
    /\ execution' = [c \in Calls |-> IF c \in cs THEN "running" ELSE execution[c]]
    /\ UNCHANGED caller

Finish(c) ==
    /\ execution[c] = "running"
    /\ \E result \in Results : execution' = [execution EXCEPT ![c] = result]
    /\ UNCHANGED caller

Return(c) ==
    /\ c \in Waiting /\ execution[c] \in Results
    /\ caller' = [caller EXCEPT ![c] = execution[c]]
    /\ UNCHANGED execution

Refuse(c) ==
    /\ c \in Waiting
    /\ caller' = [caller EXCEPT ![c] = "unknownChannel"]
    /\ UNCHANGED execution

\* one call, or all when the client is disposed
Cancel(cs) ==
    /\ caller' = [c \in Calls |-> IF c \in cs THEN "cancelled" ELSE caller[c]]
    /\ UNCHANGED execution

Next ==
    \/ \E c \in Calls : Call(c) \/ Finish(c) \/ Return(c) \/ Refuse(c)
    \/ \E cs \in SUBSET Calls : Start(cs)
    \/ \E cs \in SUBSET Waiting : Cancel(cs)

Spec == Init /\ [][Next]_vars

=============================================================================

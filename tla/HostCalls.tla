------------------------------ MODULE HostCalls ------------------------------
(***************************************************************************)
(* What the host API (meta-dstack-nvidia/scripts/bin/host_api.py) promises *)
(* to the guest, abstractly: calls are answered once, in the order they    *)
(* came, and .instance_info changes only with the call that is answered.   *)
(* A notification that is answered 200 is in the file.  The call of        *)
(* which the guest hears nothing may have left its trace there all the     *)
(* same: its info if the guest was gone, nothing at all if it sent none.   *)
(***************************************************************************)
EXTENDS Sequences

CONSTANTS
    Call,       \* the calls of the guest
    Nothing     \* nobody has written .instance_info

VARIABLES
    waiting,    \* calls without an answer, in the order they came
    kind,       \* kind[c]: what c asks for
    outcome,    \* outcome[c]: its HTTP status, 0 for none, 1 for dropped
    info        \* who wrote .instance_info last; "empty" if truncated only

vars == <<waiting, kind, outcome, info>>

Dropped == 1

Init ==
    /\ waiting = <<>>
    /\ kind \in [Call -> {"key", "info", "noPayload", "otherEvent",
                          "unknown", "tooLarge", "malformed"}]
    /\ outcome = [c \in Call |-> 0]
    /\ info = <<Nothing>>

Arrive(c) ==
    /\ outcome[c] = 0 /\ \A i \in DOMAIN waiting : waiting[i] # c
    /\ waiting' = Append(waiting, c)
    /\ UNCHANGED <<kind, outcome, info>>

\* The first call of the queue gets its status.
Answer(status) ==
    /\ waiting' = Tail(waiting)
    /\ outcome' = [outcome EXCEPT ![Head(waiting)] = status]
    /\ UNCHANGED kind

Serve ==
    /\ kind[Head(waiting)] \in {"key", "otherEvent"}
    /\ Answer(200) /\ UNCHANGED info

Notify ==
    /\ kind[Head(waiting)] = "info"
    /\ Answer(200) \/ Answer(Dropped)
    /\ info' = <<Head(waiting)>>

\* The guest hears no 200 for a notification that empties the file.
Spoil ==
    /\ kind[Head(waiting)] = "noPayload"
    /\ Answer(Dropped) /\ info' = <<"empty">>

Refuse ==
    /\ \/ Answer(Dropped)
       \/ Answer(404) /\ kind[Head(waiting)] = "unknown"
       \/ Answer(400) /\ kind[Head(waiting)] = "tooLarge"
    /\ UNCHANGED info

Next == \/ waiting # <<>> /\ (Serve \/ Notify \/ Spoil \/ Refuse)
        \/ \E c \in Call : Arrive(c)

Spec == Init /\ [][Next]_vars
==============================================================================

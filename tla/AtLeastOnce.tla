---------------------------- MODULE AtLeastOnce ----------------------------
(* What the delivery outbox promises of a message: once accepted it is      *)
(* confirmed, and only after the receiver has it, or given up for good; it  *)
(* may reach the receiver any number of times, even after it was settled.   *)
CONSTANT Messages
VARIABLES
    state,     \* what the sender holds of each message
    received   \* messages that reached the receiver in full

vars == <<state, received>>

Init ==
    /\ state = [m \in Messages |-> "none"]
    /\ received = {}

Accept(m) ==
    /\ state[m] = "none"
    /\ state' = [state EXCEPT ![m] = "accepted"]
    /\ UNCHANGED received

Receive(m) ==
    /\ state[m] # "none"
    /\ received' = received \cup {m}
    /\ UNCHANGED state

Confirm(m) ==
    /\ state[m] = "accepted" /\ m \in received
    /\ state' = [state EXCEPT ![m] = "delivered"]
    /\ UNCHANGED received

GiveUp(m) ==
    /\ state[m] = "accepted"
    /\ state' = [state EXCEPT ![m] = "dead"]
    /\ UNCHANGED received

Next == \E m \in Messages : Accept(m) \/ Receive(m) \/ Confirm(m) \/ GiveUp(m)

Spec == Init /\ [][Next]_vars
=============================================================================

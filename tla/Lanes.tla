------------------------------- MODULE Lanes -------------------------------
(***************************************************************************)
(* What a message writer promises its callers, without saying how: an      *)
(* accepted message waits in the lane of its key, each lane is delivered   *)
(* in the order of acceptance, every caller learns the fate of its own     *)
(* message, a broken transport delivers nothing more, and shutting down    *)
(* loses everything but the one message that may be on the wire.           *)
(***************************************************************************)
EXTENDS Integers, Sequences

CONSTANTS Callers, Keys

VARIABLES
    lanes,   \* key -> callers whose messages wait, in order of acceptance
    fate,    \* caller -> "idle", "waiting", "sent" or "lost"
    told,    \* caller -> what its latest Write said: "sent", "lost" or "none"
    open,    \* new messages are accepted
    broken   \* a transport write has failed

vars == <<lanes, fate, told, open, broken>>

Init ==
    /\ lanes = [k \in Keys |-> <<>>]
    /\ fate = [c \in Callers |-> "idle"]
    /\ told = [c \in Callers |-> "none"]
    /\ open = TRUE
    /\ broken = FALSE

Accept(c, k) ==
    /\ fate[c] = "idle"
    /\ open
    /\ fate' = [fate EXCEPT ![c] = "waiting"]
    /\ lanes' = [lanes EXCEPT ![k] = Append(@, c)]
    /\ UNCHANGED <<told, open, broken>>

Refuse(c) ==
    /\ fate[c] = "idle"
    /\ told' = [told EXCEPT ![c] = "lost"]
    /\ UNCHANGED <<lanes, fate, open, broken>>

\* The transport takes or fails the message at the head of a lane.
Transmit(k) ==
    /\ lanes[k] # <<>>
    /\ ~broken
    /\ lanes' = [lanes EXCEPT ![k] = Tail(@)]
    /\ \/ /\ fate' = [fate EXCEPT ![Head(lanes[k])] = "sent"]
          /\ UNCHANGED broken
       \/ /\ fate' = [fate EXCEPT ![Head(lanes[k])] = "lost"]
          /\ broken' = TRUE
    /\ UNCHANGED <<told, open>>

\* Shut down: everything waiting is lost, but for the message on the wire.
ShutDown ==
    /\ open
    /\ open' = FALSE
    /\ \E onWire \in {{}} \cup {{k} : k \in {j \in Keys : lanes[j] # <<>>}} :
         LET kept == {Head(lanes[k]) : k \in onWire} IN
         /\ lanes' = [k \in Keys |->
                        IF k \in onWire THEN <<Head(lanes[k])>> ELSE <<>>]
         /\ fate' = [c \in Callers |->
                       IF fate[c] = "waiting" /\ c \notin kept
                       THEN "lost" ELSE fate[c]]
    /\ UNCHANGED <<told, broken>>

Return(c) ==
    /\ fate[c] \in {"sent", "lost"}
    /\ told' = [told EXCEPT ![c] = fate[c]]
    /\ fate' = [fate EXCEPT ![c] = "idle"]
    /\ UNCHANGED <<lanes, open, broken>>

Next ==
    \/ \E c \in Callers : Refuse(c) \/ Return(c) \/ \E k \in Keys : Accept(c, k)
    \/ \E k \in Keys : Transmit(k)
    \/ ShutDown

Spec == Init /\ [][Next]_vars
=============================================================================

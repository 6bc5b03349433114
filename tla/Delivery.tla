------------------------------ MODULE Delivery ------------------------------
(***************************************************************************)
(* What a persistent transmitter promises: at least once, never unstored.  *)
(* A transmission is kept before it is sent; it may be received any number *)
(* of times; it is forgotten only when it has been received or given up.   *)
(***************************************************************************)
VARIABLES
    kept,      \* what would survive a crash
    received,  \* what the servers have received
    excused    \* what the transmitter has given up

Init == kept = {} /\ received = {} /\ excused = {}

Keep == kept \subseteq kept' /\ UNCHANGED <<received, excused>>

(* Only what is kept is sent, unless it was given up while it was sent.    *)
Receive == /\ \E t \in kept \cup excused : received' = received \cup {t}
           /\ UNCHANGED <<kept, excused>>

GiveUp == /\ excused \subseteq excused'
          /\ kept' \subseteq kept /\ kept \ kept' \subseteq excused'
          /\ UNCHANGED received

Forget == /\ kept' \subseteq kept /\ kept \ kept' \subseteq received \cup excused
          /\ UNCHANGED <<received, excused>>

Next == Keep \/ Receive \/ GiveUp \/ Forget

Spec == Init /\ [][Next]_<<kept, received, excused>>
=============================================================================

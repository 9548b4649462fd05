---------------------------- MODULE DeviceSlot ----------------------------
(***************************************************************************)
(* What the relay promises an operator (FR-5.3, one viewer per device): a  *)
(* device is a slot that one session at a time holds.  A session takes a   *)
(* free slot or is turned away, and holds one slot at most and once.  Two  *)
(* things free a slot: the end of the session that holds it, which is that *)
(* session's last word, and the device leaving.  Neither frees the slot of *)
(* a session or a device other than its own, however late it comes.        *)
(*                                                                         *)
(* This is the abstract specification that Relay implements.  It does not  *)
(* say when a session ends, or that a device must be here to be held.      *)
(***************************************************************************)
CONSTANTS Devices, Sessions, None

VARIABLES holder,   \* the session that holds each device, or None
          spent,    \* the sessions that have held a slot
          over,     \* the sessions that have ended
          here      \* the devices that are connected

slotVars == <<holder, spent, over, here>>

SlotInit ==
    /\ holder = [d \in Devices |-> None]
    /\ spent = {} /\ over = {} /\ here = {}

Claim(s, d) ==
    /\ holder[d] = None
    /\ s \notin spent \cup over
    /\ holder' = [holder EXCEPT ![d] = s]
    /\ spent' = spent \cup {s}
    /\ UNCHANGED <<over, here>>

End(s) ==
    /\ s \notin over
    /\ over' = over \cup {s}
    /\ holder' = [d \in Devices |-> IF holder[d] = s THEN None ELSE holder[d]]
    /\ UNCHANGED <<spent, here>>

Arrive(d) ==
    /\ d \notin here
    /\ here' = here \cup {d}
    /\ UNCHANGED <<holder, spent, over>>

Leave(d) ==
    /\ d \in here
    /\ here' = here \ {d}
    /\ holder' = [holder EXCEPT ![d] = None]
    /\ UNCHANGED <<spent, over>>

SlotNext ==
    \/ \E s \in Sessions : End(s) \/ \E d \in Devices : Claim(s, d)
    \/ \E d \in Devices : Arrive(d) \/ Leave(d)

SlotSpec == SlotInit /\ [][SlotNext]_slotVars
============================================================================

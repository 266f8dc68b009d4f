---------------------------- MODULE DeviceCache ----------------------------
(***************************************************************************)
(* What the gateway's registry of devices promises, without the network,   *)
(* the commands and the crashes: each device has a value of its own; the   *)
(* cache holds, for each device, nothing or ONE value the device really    *)
(* had.  The cached value may be old, and a refresh may even replace it    *)
(* by an older one, but it is never invented and never mixes two values.   *)
(*                                                                         *)
(* ControlPath implements this specification: a value is what the device   *)
(* would answer to a discovery request, and a refresh is a discovery       *)
(* response or the answer to a command.                                    *)
(***************************************************************************)
CONSTANTS
    Devices,            \* the devices
    Values,             \* Values[d]: the values device d may have
    None                \* no entry

VARIABLES
    value,              \* value[d]: what device d is
    past,               \* past[d]: every value d has had, this one included
    cached              \* cached[d]: what the cache says of d, or None

vars == <<value, past, cached>>

Init ==
    /\ value \in [Devices -> UNION {Values[d] : d \in Devices}]
    /\ \A d \in Devices : value[d] \in Values[d]
    /\ past = [d \in Devices |-> {value[d]}]
    /\ cached = [d \in Devices |-> None]

\* The device changes: it executes a command, or starts afresh.
Change(d) ==
    \E v \in Values[d] :
        /\ value' = [value EXCEPT ![d] = v]
        /\ past' = [past EXCEPT ![d] = @ \cup {v}]
        /\ UNCHANGED cached

\* The cache takes a value that the device had at some time.
Refresh(d) ==
    /\ \E v \in past[d] : cached' = [cached EXCEPT ![d] = v]
    /\ UNCHANGED <<value, past>>

\* The cache's process goes down with everything in it.
Clear ==
    /\ cached' = [d \in Devices |-> None]
    /\ UNCHANGED <<value, past>>

Next == Clear \/ \E d \in Devices : Change(d) \/ Refresh(d)

Spec == Init /\ [][Next]_vars
=============================================================================

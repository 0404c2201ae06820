----------------------------- MODULE BusSearch -----------------------------
(***************************************************************************)
(* What a search session on one bus promises its caller (FS_realdir,      *)
(* FS_alarmdir): BUS_first starts a session of a kind (ROM search or      *)
(* alarm search); each successful step yields the next device of the      *)
(* bus in search order; -ENODEV ends the session once every device of     *)
(* that order has been yielded; an error may end it at any step.  This is *)
(* the assumption OwDir's StepResults makes of every bus.                 *)
(***************************************************************************)
EXTENDS Naturals, Sequences

CONSTANTS
    Order(_)    \* the devices a search of kind k yields, in order

Kinds == {"rom", "alarm"}

VARIABLES found, status, kind

Init ==
    /\ found = <<>>
    /\ status = "idle"
    /\ kind \in Kinds

Begin(k) ==
    /\ status # "searching"
    /\ found' = <<>>
    /\ status' = "searching"
    /\ kind' = k

Yield ==
    /\ status = "searching"
    /\ Len(found) < Len(Order(kind))
    /\ found' = Append(found, Order(kind)[Len(found) + 1])
    /\ UNCHANGED <<status, kind>>

Exhaust ==
    /\ status = "searching"
    /\ found = Order(kind)
    /\ status' = "done"
    /\ UNCHANGED <<found, kind>>

Fail ==
    /\ status = "searching"
    /\ status' = "error"
    /\ UNCHANGED <<found, kind>>

Next == (\E k \in Kinds : Begin(k)) \/ Yield \/ Exhaust \/ Fail

Spec == Init /\ [][Next]_<<found, status, kind>>
=============================================================================

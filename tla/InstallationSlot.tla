-------------------------- MODULE InstallationSlot --------------------------
(***************************************************************************)
(* What the operations API promises, whatever happens in between: an       *)
(* installation is a slot that one operation at a time claims; an          *)
(* operation is executed at most once, only while it holds the slot, and   *)
(* lets go of it only when its execution has ended or was never begun.     *)
(*                                                                         *)
(* A plan nobody submitted in time is dropped by whichever request comes   *)
(* next, so any step may also drop others.                                 *)
(***************************************************************************)
CONSTANT Ops

VARIABLE stage

Stages == {"none", "planned", "claimed", "executing", "executed", "closed"}

Holding == {"claimed", "executing", "executed"}

TypeOK == stage \in [Ops -> Stages]

Init == stage = [o \in Ops |-> "none"]

\* Operation q stays as it is, or is given up before it was begun.
KeptOrDropped(q) ==
    \/ stage'[q] = stage[q]
    \/ stage[q] \in {"planned", "claimed"} /\ stage'[q] = "closed"

\* Operation o goes from one stage to another; no other is begun or ended.
Move(o, from, to) ==
    /\ stage[o] = from
    /\ stage'[o] = to
    /\ \A q \in Ops \ {o} : KeptOrDropped(q)

Drop == \A q \in Ops : KeptOrDropped(q)

Plan(o) == Move(o, "none", "planned")

Claim(o) ==
    /\ Move(o, "planned", "claimed")
    /\ \A q \in Ops \ {o} : stage'[q] \notin Holding

Execute(o) == Move(o, "claimed", "executing")
End(o)     == Move(o, "executing", "executed")
Close(o)   == Move(o, "executed", "closed")

Next ==
    /\ stage' \in [Ops -> Stages]
    /\ \/ Drop
       \/ \E o \in Ops : Plan(o) \/ Claim(o) \/ Execute(o) \/ End(o) \/ Close(o)

Spec == Init /\ [][Next]_stage

\* Two operations never hold the installation at once.
OneHolder ==
    \A o, q \in Ops : stage[o] \in Holding /\ stage[q] \in Holding => o = q

=============================================================================

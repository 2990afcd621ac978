------------------------------- MODULE OneLink -------------------------------
(***************************************************************************)
(* What the connection service promises of the broker link, whatever its   *)
(* gates and callers do: one link, made by one dial.  A dial begins when    *)
(* none is running, a link comes up only while a dial runs, only at the     *)
(* broker that dial is aimed at and only once the old link is down, and a   *)
(* link that was not dialled never appears.  ("Single-active-connection     *)
(* rule: disconnect any existing link before reconnecting.")                *)
(***************************************************************************)
CONSTANTS Brokers, None

VARIABLES
  up,       \* the broker the link is to, or None
  dialling  \* the broker a dial is aimed at, or None

vars == <<up, dialling>>

Init == up = None /\ dialling = None

Begin(b) == dialling = None /\ dialling' = b /\ UNCHANGED up

\* Closed by the dial that replaces it, by a hang-up, or dead of itself.
GoDown == up # None /\ up' = None /\ UNCHANGED dialling

ComeUp == dialling # None /\ up = None /\ up' = dialling /\ UNCHANGED dialling

End == dialling # None /\ dialling' = None /\ UNCHANGED up

Next == (\E b \in Brokers : Begin(b)) \/ GoDown \/ ComeUp \/ End

Spec == Init /\ [][Next]_vars
=============================================================================

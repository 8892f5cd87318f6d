------------------------------ MODULE EventReplay ------------------------------
(***************************************************************************)
(* What the parser thread promises of the server's events, without          *)
(* connections and packets: it applies them one by one and in order from a  *)
(* position of its own on, may start again from there at any time, and may  *)
(* move the position, but never back behind an event it applied.            *)
(*                                                                         *)
(* Events of 16 MB and more (Large) are never applied.  BinlogSession       *)
(* implements this specification.                                          *)
(***************************************************************************)
EXTENDS Naturals

CONSTANTS MaxEvents,   \* the events are 1..MaxEvents
          Large        \* the events that do not fit in one packet

VARIABLES from,        \* the position it starts at, 0 before it knows one
          at,          \* the event to be applied next
          applied      \* the events applied so far

vars == <<from, at, applied>>

Init ==
    /\ from = 0
    /\ at = 0
    /\ applied = {}

Apply ==
    /\ at \in (1..MaxEvents) \ Large
    /\ applied' = applied \cup {at}
    /\ at' = at + 1
    /\ UNCHANGED from

Pass ==
    /\ at \in Large
    /\ at' = at + 1
    /\ UNCHANGED <<from, applied>>

Rewind ==
    /\ at' = from
    /\ UNCHANGED <<from, applied>>

Move ==
    /\ from' \in 0..MaxEvents + 1
    /\ \A e \in applied : e < from'
    /\ at' = from'
    /\ UNCHANGED applied

Next == Apply \/ Pass \/ Rewind \/ Move

Spec == Init /\ [][Next]_vars

=============================================================================

--------------------------- MODULE OrderedDelivery ---------------------------
(***************************************************************************)
(* What the path from the parser to the target databases promises,          *)
(* whatever the number of pool threads: each target ("sink") receives every *)
(* row the parser dispatched, exactly once and in binlog order.             *)
(*                                                                         *)
(* Rows are numbered from 1 in the order they are dispatched, so a sink's   *)
(* progress is two counters: the rows it has accepted into its queue and    *)
(* the rows it has finished sending.                                        *)
(***************************************************************************)
EXTENDS Naturals

CONSTANTS NumSinks,   \* the size of EventDispatcher::import_bases
          MaxLines    \* bound on the rows dispatched

VARIABLES accepted,   \* accepted[s]: rows 1..accepted[s] were handed to s
          delivered   \* delivered[s]: rows 1..delivered[s] were sent by s

vars == <<accepted, delivered>>

Sinks == 1..NumSinks

Init ==
    /\ accepted  = [s \in Sinks |-> 0]
    /\ delivered = [s \in Sinks |-> 0]

\* A row goes to the sinks in registration order: s takes its next row when
\* the sinks before it already have that row and no sink is further behind.
Accept(s) ==
    /\ accepted[s] < MaxLines
    /\ \A r \in Sinks : accepted[r] = accepted[s] + (IF r < s THEN 1 ELSE 0)
    /\ accepted' = [accepted EXCEPT ![s] = @ + 1]
    /\ UNCHANGED delivered

\* The next row, and no other, is delivered.
Deliver(s) ==
    /\ delivered[s] < accepted[s]
    /\ delivered' = [delivered EXCEPT ![s] = @ + 1]
    /\ UNCHANGED accepted

Next == \E s \in Sinks : Accept(s) \/ Deliver(s)

Spec == Init /\ [][Next]_vars

\* An accepted row is not forgotten: delivery goes on while rows are left.
FairSpec == Spec /\ \A s \in Sinks : WF_vars(Deliver(s))
=============================================================================

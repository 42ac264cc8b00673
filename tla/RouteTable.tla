----------------------------- MODULE RouteTable -----------------------------
(***************************************************************************)
(* What the route cache promises: a table of at most Size targets in order *)
(* of use, each bound to an outbound its rules allow.  A target leaves     *)
(* only from the far end of a full table, and only to make room for        *)
(* another one; learning a binding or using it brings the target to the    *)
(* front; a background revision changes the binding where it stands.       *)
(***************************************************************************)
EXTENDS RouteSelect

CONSTANT Size

VARIABLE table

Binding(t, o) == [target |-> t, outbound |-> o]

Positions == 1 .. Len(table)

Without(p) == SubSeq(table, 1, p - 1) \o SubSeq(table, p + 1, Len(table))

Init == table = <<>>

\* A cached decision is used.
Use(p) == table' = <<table[p]>> \o Without(p)

\* A decision for a target in the table replaces the one it had.
Relearn(p, o) ==
    /\ o \in Selectable[table[p].target]
    /\ table' = <<Binding(table[p].target, o)>> \o Without(p)

\* A decision for a target not in the table, which may push out the last one.
Learn(t, o) ==
    /\ \A p \in Positions : table[p].target # t
    /\ o \in Selectable[t]
    /\ table' = <<Binding(t, o)>> \o
                (IF Len(table) = Size THEN SubSeq(table, 1, Size - 1) ELSE table)

\* A background refresh revises a binding in place.
Revise(p, o) ==
    /\ o \in Selectable[table[p].target]
    /\ table' = [table EXCEPT ![p].outbound = o]

Next ==
    \/ \E p \in Positions : Use(p)
    \/ \E p \in Positions, o \in OutboundIds : Relearn(p, o) \/ Revise(p, o)
    \/ \E t \in Targets, o \in OutboundIds : Learn(t, o)

Spec == Init /\ [][Next]_table
=============================================================================

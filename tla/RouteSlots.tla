----------------------------- MODULE RouteSlots -----------------------------
(***************************************************************************)
(* The route cache as the sessions that hold a pointer to one of its       *)
(* entries see it: a slot is given to another target, which unhooks every  *)
(* session and UDP mapping listed on it (route_cache_unlink_active), or    *)
(* keeps its target and takes another decision (route_cache_update_entry,  *)
(* which calls route_mark_stale).  RouteCache implements this view;        *)
(* RouteDrain and UdpMapping are built on it.                              *)
(***************************************************************************)
EXTENDS RouteSelect

CONSTANTS Slots, None

VARIABLE slot

SlotContent == [target : Targets \cup {None}, outbound : OutboundIds \cup {NoOutbound},
                ttl : BOOLEAN]

EmptySlot == [target |-> None, outbound |-> NoOutbound, ttl |-> FALSE]

SlotsTypeOK == slot \in [Slots -> SlotContent]

SlotsInit == slot = [k \in Slots |-> EmptySlot]

\* Slot k is filled, or taken from another target.
Reassign(k, t, o, ttl) ==
    /\ \A j \in Slots : slot[j].target # t
    /\ o \in Selectable[t]
    /\ slot' = [slot EXCEPT ![k] = [target |-> t, outbound |-> o, ttl |-> ttl]]

\* The target of slot k is decided again.
Redecide(k, o, ttl) ==
    /\ slot[k].target # None
    /\ o \in Selectable[slot[k].target]
    /\ slot' = [slot EXCEPT ![k].outbound = o, ![k].ttl = ttl]

SlotsNext ==
    \E k \in Slots, o \in OutboundIds, ttl \in BOOLEAN :
        \/ \E t \in Targets : Reassign(k, t, o, ttl)
        \/ Redecide(k, o, ttl)

SlotsSpec == SlotsInit /\ [][SlotsNext]_slot
=============================================================================

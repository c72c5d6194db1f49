----------------------------- MODULE SoftHandover -----------------------------
(***************************************************************************)
(* What a soft handover promises the traffic of a terminal, whatever       *)
(* happens underneath: from the moment a handover is prepared until it is  *)
(* committed or aborted, address, data plane and default route do not      *)
(* move; a commit moves all three at once to one address that a server has *)
(* granted; an abort leaves the address and the plane as they were and the *)
(* route leading through them.                                             *)
(***************************************************************************)
CONSTANTS Leases,   \* the addresses that servers grant
          NoPath    \* no address

VARIABLES path,       \* the address in use
          plane,      \* the interface that carries the data
          route,      \* the interface and domain of the default route
          preparing   \* a handover is in progress

vars == <<path, plane, route, preparing>>

RouteOf(p) == [iface |-> p.iface, dom |-> p.dom]

Init == path = NoPath /\ preparing = FALSE

(* A handover keeps an old path, so there must be one. *)
Prepare ==
    /\ ~preparing /\ path # NoPath
    /\ preparing' = TRUE
    /\ UNCHANGED <<path, plane, route>>

Commit ==
    /\ preparing
    /\ path' \in Leases
    /\ plane' = path'.iface
    /\ route' = RouteOf(path')
    /\ preparing' = FALSE

Abort ==
    /\ preparing
    /\ route' = RouteOf(path)
    /\ preparing' = FALSE
    /\ UNCHANGED <<path, plane>>

(* A hard access, a fallback or an address that arrives: nothing is        *)
(* promised.                                                               *)
Rebuild == ~preparing /\ preparing' = FALSE

Next == Prepare \/ Commit \/ Abort \/ Rebuild

Spec == Init /\ [][Next]_vars
=============================================================================

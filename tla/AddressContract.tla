---------------------------- MODULE AddressContract ----------------------------
(***************************************************************************)
(* What an address service promises its terminals, without requests,       *)
(* offers and retries: a gateway leases each address to one MAC at a time  *)
(* and each MAC one address; a terminal uses an address only while it is   *)
(* leased to it, and changes to another one only through using none; no    *)
(* lease is taken back, or replaced, while its terminal uses it.           *)
(***************************************************************************)
CONSTANTS Domains,    \* one gateway each
          Macs,       \* who may ask for an address
          Clients,    \* those of them that use what they are granted
          Addresses,  \* the pool of every gateway
          NoIp,       \* no address
          NoUse       \* a terminal that uses none

VARIABLES lease,  \* the address that a gateway has leased to a MAC, or NoIp
          use     \* the domain and address that a terminal uses, or NoUse

Init ==
    /\ lease = [d \in Domains |-> [m \in Macs |-> NoIp]]
    /\ use = [c \in Clients |-> NoUse]

Lease(d, m, a) ==
    /\ lease[d][m] = NoIp
    /\ \A n \in Macs : lease[d][n] # a
    /\ lease' = [lease EXCEPT ![d][m] = a]
    /\ UNCHANGED use

TakeBack(d, m) ==
    /\ m \in Clients => use[m] # [dom |-> d, ip |-> lease[d][m]]
    /\ lease' = [lease EXCEPT ![d][m] = NoIp]
    /\ UNCHANGED use

Use(c, d) ==
    /\ use[c] = NoUse /\ lease[d][c] # NoIp
    /\ use' = [use EXCEPT ![c] = [dom |-> d, ip |-> lease[d][c]]]
    /\ UNCHANGED lease

Drop(c) ==
    /\ use' = [use EXCEPT ![c] = NoUse]
    /\ UNCHANGED lease

Next ==
    \/ \E d \in Domains, m \in Macs :
          TakeBack(d, m) \/ \E a \in Addresses : Lease(d, m, a)
    \/ \E c \in Clients : Drop(c) \/ \E d \in Domains : Use(c, d)

Spec == Init /\ [][Next]_<<lease, use>>
=============================================================================

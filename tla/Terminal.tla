------------------------------- MODULE Terminal -------------------------------
(***************************************************************************)
(* The access and handover engine of a terminal: BlindConnectApp in        *)
(* ROLE_TERMINAL.  A terminal has a STA and an Ad-Hoc interface; it picks  *)
(* a network (EvaluateAndSwitch), tunes both radios to its domain          *)
(* (ExecuteSwitch), asks for an address with retries, and either commits   *)
(* the access, falls back to scanning, or, in a soft handover between the  *)
(* two interfaces, commits to the new path or aborts to the old one.       *)
(*                                                                         *)
(* Time is abstracted: a scheduled event may fire at any later moment, a   *)
(* frame may be lost, delayed, reordered or heard twice.  The access       *)
(* algorithm may pick any candidate its guards allow.                      *)
(***************************************************************************)
EXTENDS Naturals, FiniteSets

CONSTANTS
    Domains,          \* registered domain profiles
    ApDomains,        \* those whose access point may be joined
    AdhocDomains,     \* those whose Ad-Hoc network may be joined
    DiscoveryDomain,  \* whose Ad-Hoc network is scanned for, 0 for none
    MaxRetries,       \* m_ipRetryCount limit (the code: 3)
    MaxFrames,        \* bound on the frames on the air
    RadioMayStall     \* a radio may stay busy beyond the next evaluations

(* Hardcoded addresses exist for the domains 1 (A), 2 (B) and 3 (C) only.  *)
ASSUME DomainsAssumption ==
    /\ Domains \subseteq 1..3
    /\ ApDomains \subseteq Domains /\ AdhocDomains \subseteq Domains
    /\ DiscoveryDomain \in Domains \union {0}
ASSUME BoundsAssumption ==
    /\ MaxRetries \in Nat /\ MaxFrames \in Nat
    /\ RadioMayStall \in BOOLEAN

Interfaces == {"AP", "ADHOC"}
Other(i) == IF i = "AP" THEN "ADHOC" ELSE "AP"

(* A network is named by its SSID: the access point or the Ad-Hoc network  *)
(* of a domain, no SSID at all, or the Ad-Hoc default SSID "Adhoc-Net".    *)
Networks   == [type : Interfaces, dom : Domains]
NoNet      == [type |-> "none", dom |-> 0]
DefaultNet == [type |-> "default", dom |-> 0]
DomainsOf(i) == IF i = "AP" THEN ApDomains ELSE AdhocDomains
Candidates == {n \in Networks : n.dom \in DomainsOf(n.type)}

(* An address belongs to an interface and a domain, and was leased by an   *)
(* IP_OFFER or is the one hardcoded for the domain.                        *)
Addresses == [iface : Interfaces, dom : Domains, how : {"leased", "fixed"}]
NoAddr    == [iface |-> "none", dom |-> 0, how |-> "none"]
Leased(i, d) == [iface |-> i, dom |-> d, how |-> "leased"]
Fixed(i, d)  == [iface |-> i, dom |-> d, how |-> "fixed"]

(* The default route leads through an interface to the gateway of a domain.*)
Routes  == [iface : Interfaces, dom : Domains]
NoRoute == [iface |-> "none", dom |-> 0]

Pendings  == [tx : Nat, dom : Domains]
NoPending == [tx |-> 0, dom |-> 0]

Frames ==
    [kind : {"request", "offer"}, iface : Interfaces, dom : Domains, tx : Nat]
        \union [kind : {"release"}, dom : Domains, addr : Addresses]

VARIABLES
    cur,       \* the current context: what AbortHandover can restore of it
    prev,      \* m_previousContext
    handover,  \* m_handoverInProgress
    route,     \* the default route
    addr,      \* m_staState.ip and m_adhocState.ip
    pending,   \* m_pending{Sta,Adhoc}TxId and ...DomainId
    count,     \* m_ipRetryCount and m_adhocIpRetryCount
    reqTimer,  \* m_ipReqEvent and m_adhocIpReqEvent are scheduled
    retryTimer,\* m_ipRetryEvent and m_adhocIpRetryEvent are scheduled
    stray,     \* a RequestStaIp is scheduled that m_ipReqEvent no longer names
    grace,     \* m_oldPathGraceEvent is scheduled
    bcast,     \* m_broadcastSocket is open
    radio,     \* the domain on whose channel each radio is
    scan,      \* the Ad-Hoc discovery scan: off, due or listening
    deferred,  \* ExecuteSwitch calls rescheduled because a radio was busy
    air        \* frames on their way

timers == <<reqTimer, retryTimer, stray, grace>>
vars == <<cur, prev, handover, route, addr, pending, count, timers,
          bcast, radio, scan, deferred, air>>

(* m_currentDomainId, m_currentNetType, m_currentSsid, m_currentHops < 99, *)
(* m_assignedIp and m_dataPlaneMode.                                       *)
Contexts == [dom : Domains \union {0}, type : Interfaces,
             net : Networks \union {NoNet, DefaultNet}, attached : BOOLEAN,
             ip : Addresses \union {NoAddr}, plane : Interfaces]

Unattached == [dom |-> 0, type |-> "AP", net |-> NoNet, attached |-> FALSE,
               ip |-> NoAddr, plane |-> "ADHOC"]

Init ==
    /\ cur = Unattached /\ prev = Unattached
    /\ handover = FALSE
    /\ route = NoRoute
    /\ addr = [i \in Interfaces |-> NoAddr]
    /\ pending = [i \in Interfaces |-> NoPending]
    /\ count = [i \in Interfaces |-> 0]
    /\ reqTimer = [i \in Interfaces |-> FALSE]
    /\ retryTimer = [i \in Interfaces |-> FALSE]
    /\ stray = FALSE /\ grace = FALSE /\ bcast = FALSE
    /\ radio = [i \in Interfaces |-> 0]
    /\ scan = "off"
    /\ deferred = {}
    /\ air = {}

-----------------------------------------------------------------------------
(* Helpers of the handlers. *)

(* SetDefaultRoute(Via): no gateway, no change. *)
RouteVia(r, a) == IF a = NoAddr THEN r ELSE [iface |-> a.iface, dom |-> a.dom]

(* SetDataPlaneActive: the context with the data plane on interface i,     *)
(* whose address is a.                                                     *)
Activated(c, i, a) ==
    [c EXCEPT !.plane = i, !.ip = IF a = NoAddr THEN c.ip ELSE a]

(* Broadcasting a frame: it is lost when the bound is reached. *)
Sent(frame) == IF Cardinality(air) < MaxFrames THEN air \union {frame} ELSE air

TxInUse == {pending[i].tx : i \in Interfaces}
               \union {f.tx : f \in {g \in air : g.kind # "release"}} \union {0}

(* NextTxId: an identifier no live transaction and no frame has. *)
IsNextTxId(t) == t \notin TxInUse /\ \A u \in 0..t : u = t \/ u \in TxInUse

(* The transaction of the next request of interface i, n retries made: the *)
(* pending one is used again only by a retry in the same domain.           *)
Transaction(i, n, tx) ==
    IF n = 0 \/ pending[i].tx = 0 \/ pending[i].dom # cur.dom
    THEN IsNextTxId(tx)
    ELSE tx = pending[i].tx

(* BeginHandover. *)
BeginHandover(soft) ==
    /\ handover' = (handover \/ soft)
    /\ prev' = IF soft /\ ~handover THEN cur ELSE prev

(* CommitHandover to interface i, which has just got address a: the        *)
(* standby interface takes the hardcoded address of the domain, then the   *)
(* data plane and the route move.                                          *)
CommitHandover(i, a) ==
    /\ handover' = FALSE
    /\ addr' = [addr EXCEPT ![i] = a, ![Other(i)] = Fixed(Other(i), cur.dom)]
    /\ cur' = Activated(cur, i, a)
    /\ route' = RouteVia(route, a)
    /\ grace' = TRUE

(* Mutants of AbortHandover: the domain does not return with the rest of   *)
(* the context; the handover is not marked as ended.                       *)
AbortKeepingDomain ==
    /\ handover' = FALSE
    /\ cur' = [Activated(prev, prev.plane, addr[prev.plane]) EXCEPT !.dom = cur.dom]
    /\ route' = RouteVia(route, addr[prev.plane])
    /\ reqTimer' = [i \in Interfaces |-> FALSE]
    /\ retryTimer' = [i \in Interfaces |-> FALSE]
    /\ UNCHANGED <<pending, count, bcast>>

AbortWithoutEnd ==
    /\ cur' = Activated(prev, prev.plane, addr[prev.plane])
    /\ route' = RouteVia(route, addr[prev.plane])
    /\ reqTimer' = [i \in Interfaces |-> FALSE]
    /\ retryTimer' = [i \in Interfaces |-> FALSE]
    /\ UNCHANGED <<handover, pending, count, bcast>>

(* AbortHandover: the context returns; radios, addresses, pending          *)
(* transactions and scans stay.                                            *)
AbortHandover ==
    /\ handover' = FALSE
    /\ cur' = Activated(prev, prev.plane, addr[prev.plane])
    /\ route' = RouteVia(route, addr[prev.plane])
    /\ reqTimer' = [i \in Interfaces |-> FALSE]
    /\ retryTimer' = [i \in Interfaces |-> FALSE]
    /\ UNCHANGED <<pending, count, bcast>>

(* Mutant: m_currentHops is not reset. *)
FallbackStillAttached ==
    /\ cur' = [cur EXCEPT !.type = "AP", !.net = NoNet, !.ip = NoAddr]
    /\ retryTimer' = [i \in Interfaces |-> FALSE]
    /\ count' = [i \in Interfaces |-> 0]
    /\ pending' = [i \in Interfaces |-> NoPending]
    /\ bcast' = FALSE
    /\ UNCHANGED <<handover, route, reqTimer>>

(* FallbackAndRescan: the domain, the interface addresses, the request     *)
(* timers and a handover in progress stay.                                 *)
FallbackAndRescan ==
    /\ cur' = [cur EXCEPT !.type = "AP", !.net = NoNet, !.attached = FALSE, !.ip = NoAddr]
    /\ retryTimer' = [i \in Interfaces |-> FALSE]
    /\ count' = [i \in Interfaces |-> 0]
    /\ pending' = [i \in Interfaces |-> NoPending]
    /\ bcast' = FALSE
    /\ UNCHANGED <<handover, route, reqTimer>>

-----------------------------------------------------------------------------
(* Choosing a network and switching to it. *)

(* A soft handover is one to another domain and the other interface, from  *)
(* an address in use; any other change of domain drops the old addresses.  *)
CanSoftHandover(n) == n.dom # cur.dom /\ n.type # cur.type /\ cur.ip # NoAddr
HardSwitch(n) == n.dom # cur.dom /\ ~CanSoftHandover(n)

(* Mutant: a soft handover does not clear its target interface's address.  *)
KeptAddressesOfTarget(n) ==
    [i \in Interfaces |-> IF HardSwitch(n) THEN NoAddr ELSE addr[i]]

KeptAddresses(n) ==
    [i \in Interfaces |->
        IF HardSwitch(n) \/ (CanSoftHandover(n) /\ i = n.type) THEN NoAddr ELSE addr[i]]

Entered(n) ==
    [dom |-> n.dom, type |-> n.type, net |-> n, attached |-> TRUE,
     ip |-> IF HardSwitch(n) THEN NoAddr ELSE cur.ip, plane |-> cur.plane]

(* IP_RELEASE of the old address, on the channel the radio has now. *)
ReleaseOldAddress(n) ==
    air' = IF HardSwitch(n) /\ cur.type = "ADHOC" /\ bcast /\ cur.ip # NoAddr
           THEN Sent([kind |-> "release", dom |-> n.dom, addr |-> cur.ip])
           ELSE air

(* The body of ExecuteSwitch once both radios are tuned to n's domain.     *)
(* Outside a handover the data plane moves at once and the standby         *)
(* interface takes the hardcoded address of the domain, and with it the    *)
(* default route.                                                          *)
ExecuteSwitch(n) ==
    LET standby == Fixed(Other(n.type), n.dom)
    IN /\ BeginHandover(CanSoftHandover(n))
       /\ ReleaseOldAddress(n)
       /\ IF handover'
          THEN /\ cur' = Entered(n)
               /\ addr' = KeptAddresses(n)
               /\ bcast' = (bcast \/ n.type = "ADHOC")
               /\ UNCHANGED route
          ELSE /\ cur' = Activated(Entered(n), n.type, KeptAddresses(n)[n.type])
               /\ addr' = [KeptAddresses(n) EXCEPT ![Other(n.type)] = standby]
               /\ bcast' = (n.type = "ADHOC")
               /\ route' = RouteVia(route, standby)
       /\ pending' = IF n.dom # cur.dom THEN [i \in Interfaces |-> NoPending] ELSE pending
       /\ count' = [i \in Interfaces |->
                       IF i = "AP" /\ n.type = "ADHOC" THEN count[i] ELSE 0]
       /\ reqTimer' = [i \in Interfaces |-> TRUE]
       /\ retryTimer' = [i \in Interfaces |-> i = n.type]
       /\ radio' = [i \in Interfaces |-> n.dom]
       /\ scan' = IF n.type = "AP" /\ DiscoveryDomain # 0 THEN "due" ELSE "off"
       /\ UNCHANGED <<stray, grace>>

(* Mutant: a handover in progress does not keep it from deciding. *)
MaySwitchAnytime(n) ==
    \/ ~cur.attached \/ cur.dom = 0 \/ cur.ip = NoAddr
    \/ n # cur.net

(* What EvaluateAndSwitch may decide: without a current network or an      *)
(* address any candidate, otherwise another network than the current one.  *)
MaySwitchTo(n) ==
    /\ ~handover
    /\ \/ ~cur.attached \/ cur.dom = 0 \/ cur.ip = NoAddr
       \/ n # cur.net

EvaluateAndSwitch(n) ==
    /\ MaySwitchTo(n)
    /\ RadioMayStall \/ deferred = {}
    /\ \/ /\ ExecuteSwitch(n)
          /\ UNCHANGED deferred
       \/ /\ deferred' = deferred \union {n}
          /\ UNCHANGED <<cur, prev, handover, route, addr, pending, count, timers,
                         bcast, radio, scan, air>>

(* The switch a busy radio had put off, now that both radios are free: it  *)
(* does not ask again whether the terminal still wants it.                 *)
DeferredSwitch(n) ==
    /\ n \in deferred
    /\ deferred' = deferred \ {n}
    /\ ExecuteSwitch(n)

-----------------------------------------------------------------------------
(* Address requests. *)

(* RequestStaIp with n retries made, "named" telling whether m_ipReqEvent  *)
(* is still scheduled: it waits, by another event, until the STA is        *)
(* associated and the key of the access point is known.                    *)
RequestStaIp(n, named) ==
    \/ /\ addr["AP"] # NoAddr
       /\ reqTimer' = [reqTimer EXCEPT !["AP"] = named]
       /\ UNCHANGED <<pending, stray, air>>
    \/ /\ addr["AP"] = NoAddr
       /\ reqTimer' = [reqTimer EXCEPT !["AP"] = TRUE]
       /\ stray' = (stray \/ named)
       /\ UNCHANGED <<pending, air>>
    \/ /\ addr["AP"] = NoAddr
       /\ cur.net.type = "AP"
       /\ \E tx \in 1..(MaxFrames + 3) :
             /\ Transaction("AP", n, tx)
             /\ pending' = [pending EXCEPT !["AP"] = [tx |-> tx, dom |-> cur.dom]]
             /\ air' = IF radio["AP"] = cur.net.dom
                       THEN Sent([kind |-> "request", iface |-> "AP",
                                  dom |-> cur.net.dom, tx |-> tx])
                       ELSE air
       /\ reqTimer' = [reqTimer EXCEPT !["AP"] = named]
       /\ UNCHANGED stray

(* RequestAdhocIp with n retries made. *)
RequestAdhocIp(n) ==
    IF addr["ADHOC"] # NoAddr THEN UNCHANGED <<pending, air>>
    ELSE \E tx \in 1..(MaxFrames + 3) :
            /\ Transaction("ADHOC", n, tx)
            /\ pending' = [pending EXCEPT !["ADHOC"] = [tx |-> tx, dom |-> cur.dom]]
            /\ air' = Sent([kind |-> "request", iface |-> "ADHOC",
                            dom |-> radio["ADHOC"], tx |-> tx])

StaRequestTimer ==
    /\ reqTimer["AP"]
    /\ RequestStaIp(count["AP"], FALSE)
    /\ UNCHANGED <<cur, prev, handover, route, addr, count, retryTimer, grace,
                   bcast, radio, scan, deferred>>

(* A request that RetryStaIp's own polling has cut loose from its handle:  *)
(* nothing can cancel it.  It may have been the last of them.              *)
StrayStaRequest ==
    /\ stray
    /\ \/ RequestStaIp(count["AP"], reqTimer["AP"])
       \/ /\ stray' = FALSE
          /\ addr["AP"] # NoAddr
          /\ UNCHANGED <<pending, reqTimer, air>>
    /\ UNCHANGED <<cur, prev, handover, route, addr, count, retryTimer, grace,
                   bcast, radio, scan, deferred>>

AdhocRequestTimer ==
    /\ reqTimer["ADHOC"]
    /\ reqTimer' = [reqTimer EXCEPT !["ADHOC"] = FALSE]
    /\ RequestAdhocIp(count["ADHOC"])
    /\ UNCHANGED <<cur, prev, handover, route, addr, count, retryTimer, stray, grace,
                   bcast, radio, scan, deferred>>

(* A retry timer that finds the address there does not restart. *)
RetryDone(i) ==
    /\ retryTimer[i] /\ addr[i] # NoAddr
    /\ retryTimer' = [retryTimer EXCEPT ![i] = FALSE]
    /\ UNCHANGED <<cur, prev, handover, route, addr, pending, count, reqTimer, stray,
                   grace, bcast, radio, scan, deferred, air>>

(* Mutant: one retry too many. *)
RetriesExceeded(i) == count[i] > MaxRetries

RetriesExhausted(i) == count[i] >= MaxRetries

RetryStaIp ==
    /\ retryTimer["AP"] /\ addr["AP"] = NoAddr /\ ~RetriesExhausted("AP")
    /\ count' = [count EXCEPT !["AP"] = @ + 1]
    /\ RequestStaIp(count["AP"] + 1, reqTimer["AP"])
    /\ UNCHANGED <<cur, prev, handover, route, addr, retryTimer, grace,
                   bcast, radio, scan, deferred>>

RetryAdhocIp ==
    /\ retryTimer["ADHOC"] /\ addr["ADHOC"] = NoAddr /\ ~RetriesExhausted("ADHOC")
    /\ count' = [count EXCEPT !["ADHOC"] = @ + 1]
    /\ RequestAdhocIp(count["ADHOC"] + 1)
    /\ UNCHANGED <<cur, prev, handover, route, addr, reqTimer, retryTimer, stray, grace,
                   bcast, radio, scan, deferred>>

(* Mutant: the terminal falls back although a handover is in progress. *)
GiveUpStaIpFallingBack ==
    /\ retryTimer["AP"] /\ addr["AP"] = NoAddr /\ RetriesExhausted("AP")
    /\ FallbackAndRescan
    /\ UNCHANGED <<prev, addr, stray, grace, radio, scan, deferred, air>>

(* The retry limit.  RetryStaIp asks for the handover first, RetryAdhocIp  *)
(* for the data plane first.                                               *)
GiveUpStaIp ==
    /\ retryTimer["AP"] /\ addr["AP"] = NoAddr /\ RetriesExhausted("AP")
    /\ IF handover THEN AbortHandover ELSE FallbackAndRescan
    /\ UNCHANGED <<prev, addr, stray, grace, radio, scan, deferred, air>>

GiveUpAdhocIp ==
    /\ retryTimer["ADHOC"] /\ addr["ADHOC"] = NoAddr /\ RetriesExhausted("ADHOC")
    /\ \/ cur.plane = "ADHOC" /\ FallbackAndRescan
       \/ cur.plane # "ADHOC" /\ handover /\ AbortHandover
       \/ /\ cur.plane # "ADHOC" /\ ~handover
          /\ retryTimer' = [retryTimer EXCEPT !["ADHOC"] = FALSE]
          /\ UNCHANGED <<cur, handover, route, pending, count, reqTimer, bcast>>
    /\ UNCHANGED <<prev, addr, stray, grace, radio, scan, deferred, air>>

-----------------------------------------------------------------------------
(* Frames. *)

(* An access point or a gateway answers a request on its channel.  The     *)
(* frame may be heard again.                                               *)
Answer(f) ==
    /\ f \in air /\ f.kind = "request"
    /\ \/ air' = (air \ {f}) \union {[f EXCEPT !.kind = "offer"]}
       \/ air' = Sent([f EXCEPT !.kind = "offer"])
    /\ UNCHANGED <<cur, prev, handover, route, addr, pending, count, timers,
                   bcast, radio, scan, deferred>>

LoseFrame(f) ==
    /\ air' = air \ {f}
    /\ UNCHANGED <<cur, prev, handover, route, addr, pending, count, timers,
                   bcast, radio, scan, deferred>>

(* IsExpectedStaOffer and IsExpectedAdhocOffer. *)
IsExpectedOffer(i, f) ==
    pending[i].tx # 0 /\ f.tx = pending[i].tx /\ pending[i].dom = cur.dom

(* An IP_OFFER for the STA interface is signed with the key of the access  *)
(* point of f.dom and verified with that of the current SSID.              *)
VerifyStaOfferSecurity(f) == cur.net = [type |-> "AP", dom |-> f.dom]

(* The two STA offer handlers (the sniffer's and HandleStaIpRead) do the   *)
(* same to this state.                                                     *)
HearStaOffer(f) ==
    /\ f \in air /\ f.kind = "offer" /\ f.iface = "AP" /\ radio["AP"] = f.dom
    /\ IsExpectedOffer("AP", f)
    /\ VerifyStaOfferSecurity(f)
    /\ pending' = [pending EXCEPT !["AP"] = NoPending]
    /\ retryTimer' = [retryTimer EXCEPT !["AP"] = FALSE]
    /\ count' = [count EXCEPT !["AP"] = 0]
    /\ LET a == Leased("AP", f.dom)
       IN IF handover THEN CommitHandover("AP", a)
          ELSE /\ cur' = [cur EXCEPT !.ip = a]
               /\ addr' = [addr EXCEPT !["AP"] = a]
               /\ route' = RouteVia(route, a)
               /\ UNCHANGED <<handover, grace>>
    /\ air' \in {air, air \ {f}}
    /\ UNCHANGED <<prev, reqTimer, stray, bcast, radio, scan, deferred>>

(* HandleAdhocIpMessage.  Both radios listen for these offers.  The        *)
(* transaction is closed before the HMAC is looked at.  With the data      *)
(* plane on Ad-Hoc the access is committed under the application's own     *)
(* SSID; with it on the STA only the standby interface, and the default    *)
(* route, change.                                                          *)
HearAdhocOffer(f) ==
    /\ f \in air /\ f.kind = "offer" /\ f.iface = "ADHOC"
    /\ \E i \in Interfaces : radio[i] = f.dom
    /\ IsExpectedOffer("ADHOC", f)
    /\ pending' = [pending EXCEPT !["ADHOC"] = NoPending]
    /\ air' \in {air, air \ {f}}
    /\ LET a == Leased("ADHOC", f.dom)
           committed == [cur EXCEPT !.type = "ADHOC", !.net = DefaultNet,
                                    !.attached = TRUE, !.ip = a]
       IN \/ UNCHANGED <<cur, handover, route, addr, count, retryTimer, grace>>
          \/ /\ retryTimer' = [retryTimer EXCEPT !["ADHOC"] = FALSE]
             /\ count' = [count EXCEPT !["ADHOC"] = 0]
             /\ IF handover THEN CommitHandover("ADHOC", a)
                ELSE /\ cur' = IF cur.plane = "ADHOC"
                               THEN Activated(committed, "ADHOC", addr["ADHOC"])
                               ELSE cur
                     /\ addr' = [addr EXCEPT !["ADHOC"] = a]
                     /\ route' = RouteVia(route, a)
                     /\ UNCHANGED <<handover, grace>>
    /\ UNCHANGED <<prev, reqTimer, stray, bcast, radio, scan, deferred>>

-----------------------------------------------------------------------------
(* Old path grace period and Ad-Hoc discovery scan. *)

FinishOldPathGrace ==
    /\ grace
    /\ grace' = FALSE
    /\ bcast' = (bcast /\ ~(prev.type = "ADHOC" /\ cur.type # "ADHOC"))
    /\ UNCHANGED <<cur, prev, handover, route, addr, pending, count,
                   reqTimer, retryTimer, stray, radio, scan, deferred, air>>

DoAdhocDiscoveryScan ==
    /\ scan = "due"
    /\ IF cur.type = "AP"
       THEN scan' = "listening" /\ radio' = [radio EXCEPT !["ADHOC"] = DiscoveryDomain]
       ELSE scan' = "off" /\ UNCHANGED radio
    /\ UNCHANGED <<cur, prev, handover, route, addr, pending, count, timers,
                   bcast, deferred, air>>

RestoreAdhocDomainChannel ==
    /\ scan = "listening"
    /\ IF cur.type = "AP"
       THEN scan' = "due" /\ radio' = [radio EXCEPT !["ADHOC"] = cur.dom]
       ELSE scan' = "off" /\ UNCHANGED radio
    /\ UNCHANGED <<cur, prev, handover, route, addr, pending, count, timers,
                   bcast, deferred, air>>

Next ==
    \/ \E n \in Candidates : EvaluateAndSwitch(n) \/ DeferredSwitch(n)
    \/ StaRequestTimer
    \/ StrayStaRequest
    \/ AdhocRequestTimer
    \/ \E i \in Interfaces : RetryDone(i)
    \/ RetryStaIp
    \/ RetryAdhocIp
    \/ GiveUpStaIp
    \/ GiveUpAdhocIp
    \/ \E f \in air : Answer(f) \/ LoseFrame(f) \/ HearStaOffer(f) \/ HearAdhocOffer(f)
    \/ FinishOldPathGrace
    \/ DoAdhocDiscoveryScan
    \/ RestoreAdhocDomainChannel

Spec == Init /\ [][Next]_vars

-----------------------------------------------------------------------------
(* The variables hold values of their types. *)
TypeOK ==
    /\ cur \in Contexts /\ prev \in Contexts
    /\ handover \in BOOLEAN
    /\ route \in Routes \union {NoRoute}
    /\ addr \in [Interfaces -> Addresses \union {NoAddr}]
    /\ pending \in [Interfaces -> Pendings \union {NoPending}]
    /\ count \in [Interfaces -> 0..MaxRetries]
    /\ reqTimer \in [Interfaces -> BOOLEAN]
    /\ retryTimer \in [Interfaces -> BOOLEAN]
    /\ stray \in BOOLEAN /\ grace \in BOOLEAN /\ bcast \in BOOLEAN
    /\ radio \in [Interfaces -> Domains \union {0}]
    /\ scan \in {"off", "due", "listening"}
    /\ deferred \subseteq Candidates
    /\ air \subseteq Frames

(* Outside a handover the address in use is the one of the data plane's    *)
(* interface, and it belongs to the current domain: no offer, commit or    *)
(* abort mixes the address of one path with the context of another         *)
(* (HandleAdhocIpMessage, CommitHandover, AbortHandover).                  *)
AddressMatchesContext ==
    ~handover /\ cur.ip # NoAddr =>
        cur.ip = addr[cur.plane] /\ cur.ip.dom = cur.dom

(* A terminal that has joined a network and has no address is always still *)
(* asking for one: the retry timer of the network's interface runs, so it  *)
(* gets an address or falls back (ExecuteSwitch, RetryStaIp, RetryAdhocIp, *)
(* whose timers are cancelled in five places).                             *)
JoinedWithoutAddressRetries ==
    cur.attached /\ ~handover /\ cur.ip = NoAddr =>
        retryTimer[cur.type] /\ addr[cur.type] = NoAddr

(* A handover in progress is always driven by the retry timer of its       *)
(* target interface, and the terminal has not fallen back under it.        *)
HandoverIsDriven ==
    handover => /\ cur.attached /\ cur.type # prev.plane
                /\ retryTimer[cur.type] /\ addr[cur.type] = NoAddr

(* A handover has a deadline: nothing that happens during it changes its   *)
(* target or takes back a retry already counted, and giving up ends it; so *)
(* the target's retry timer fires at most MaxRetries + 1 times, however    *)
(* many stray requests, offers and timers of the old path come in between  *)
(* (EvaluateAndSwitch, RetryStaIp, RetryAdhocIp, HandleAdhocIpMessage).    *)
HandoverHasDeadline ==
    [][handover =>
          /\ handover' => /\ cur'.type = cur.type /\ cur'.dom = cur.dom
                          /\ count'[cur.type] >= count[cur.type]
          /\ GiveUpStaIp \/ GiveUpAdhocIp => ~handover']_vars

(* The terminal keeps what a soft handover promises. *)
Soft == INSTANCE SoftHandover WITH
            Leases <- {a \in Addresses : a.how = "leased"}, NoPath <- NoAddr,
            path <- cur.ip, plane <- cur.plane, preparing <- handover
ImplementsSoftHandover == Soft!Spec

(* Scheduled events do fire, if nothing cancels them. *)
Fairness ==
    /\ WF_vars(RetryStaIp) /\ WF_vars(GiveUpStaIp)
    /\ WF_vars(RetryAdhocIp) /\ WF_vars(GiveUpAdhocIp)
FairSpec == Spec /\ Fairness

(* Every handover ends, in a commit or an abort, even when no frame        *)
(* arrives: EvaluateAndSwitch does nothing as long as one is in progress.  *)
HandoverEnds == handover ~> ~handover

-----------------------------------------------------------------------------
(* What the types rest on.  Before the first switch nothing is scheduled;  *)
(* after it both radios are tuned.                                         *)
ScheduleInv ==
    /\ cur.dom = 0 => /\ ~handover /\ ~stray /\ cur.ip = NoAddr /\ scan = "off"
                      /\ \A i \in Interfaces : ~reqTimer[i] /\ ~retryTimer[i]
    /\ cur.dom # 0 => \A i \in Interfaces : radio[i] # 0
    /\ scan # "off" => DiscoveryDomain # 0
    /\ handover => prev.dom # 0

(* The invariant that the properties above and the refinement rest on,     *)
(* where no domain has both an access point and an Ad-Hoc network to join  *)
(* and a busy radio is free before the next evaluation.                    *)
DisjointAccess == ApDomains \intersect AdhocDomains = {}

DeferredInv ==
    /\ handover => deferred = {}
    /\ \A m, n \in deferred : m = n

(* Interface, network, domain and address of a context belong together.    *)
ContextInv ==
    /\ IF cur.attached
       THEN /\ cur.dom \in DomainsOf(cur.type)
            /\ \/ cur.net = [type |-> cur.type, dom |-> cur.dom]
               \/ cur.net = DefaultNet /\ cur.type = "ADHOC"
       ELSE cur.net = NoNet /\ cur.ip = NoAddr
    /\ ~handover /\ cur.dom # 0 =>
           /\ cur.dom \in DomainsOf(cur.plane)
           /\ cur.ip # NoAddr => cur.ip = addr[cur.plane]
           /\ addr[cur.plane] # NoAddr => addr[cur.plane].dom = cur.dom
    /\ JoinedWithoutAddressRetries

(* During a handover the old path is intact and the new one is asked for.  *)
PreparingInv ==
    handover =>
        /\ HandoverIsDriven
        /\ prev.attached /\ prev.type = prev.plane /\ prev.dom # cur.dom
        /\ prev.dom \in DomainsOf(prev.type)
        /\ \/ prev.net = [type |-> prev.type, dom |-> prev.dom]
           \/ prev.net = DefaultNet /\ prev.type = "ADHOC"
        /\ cur.plane = prev.plane /\ cur.ip = prev.ip /\ cur.ip = addr[cur.plane]
        /\ cur.ip # NoAddr /\ cur.ip.dom = prev.dom
        /\ pending[cur.plane] = NoPending
        /\ pending[cur.type].tx # 0 => pending[cur.type].dom = cur.dom

(* A transaction is pending only for an address the terminal lacks, in the *)
(* domain where the frames of the transaction are.                         *)
RequestsInv ==
    /\ \A i \in Interfaces :
          pending[i].tx # 0 /\ pending[i].dom = cur.dom =>
              cur.dom \in DomainsOf(i) /\ addr[i] = NoAddr
    /\ addr["ADHOC"] = NoAddr /\ (reqTimer["ADHOC"] \/ retryTimer["ADHOC"]) =>
           cur.dom \in AdhocDomains /\ radio["ADHOC"] = cur.dom /\ scan = "off"
    /\ \A f \in air :
          f.kind # "release" /\ f.iface = "ADHOC" /\ f.tx # 0
              /\ f.tx = pending["ADHOC"].tx => f.dom = pending["ADHOC"].dom

EngineInv == ScheduleInv /\ DeferredInv /\ ContextInv /\ PreparingInv /\ RequestsInv

-----------------------------------------------------------------------------
(* Statements of the source that the code does not keep. *)

(* "Default route via STA", "Default route via Adhoc" (SetDataPlaneActive):*)
(* with an address and no handover, the default route leads through the    *)
(* interface that carries the data.                                        *)
RouteFollowsDataPlane ==
    cur.attached /\ ~handover /\ cur.ip # NoAddr => route.iface = cur.plane

(* "The old domain's IP is released on leaving": an IP_RELEASE is sent     *)
(* where the gateway that granted the address can hear it.                 *)
ReleaseReachesOwner ==
    \A f \in air : f.kind = "release" => f.dom = f.addr.dom

(* "old path retained until candidate is ready": the radio of the data     *)
(* plane is on the channel of the domain whose address is in use.          *)
ActivePathOnChannel ==
    cur.ip # NoAddr => radio[cur.plane] = cur.ip.dom

(* "reset the network state, scan and evaluate again": after a fallback    *)
(* no handover is left that keeps EvaluateAndSwitch from deciding.         *)
FallbackCanReevaluate ==
    ~cur.attached => ~handover

(* "Release only the old control socket after the grace interval.  Keeping *)
(* it alive during preparation/commit is what makes the handover soft":    *)
(* a handover that leaves an Ad-Hoc network does not lose the control      *)
(* socket it began with.                                                   *)
ControlSocketKept ==
    [][handover /\ handover' /\ prev.type = "ADHOC" /\ bcast => bcast']_vars
=============================================================================

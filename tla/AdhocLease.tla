------------------------------ MODULE AdhocLease ------------------------------
(***************************************************************************)
(* The address service of the Ad-Hoc domains: one gateway per domain with  *)
(* its address pool (BlindConnectApp in ROLE_GATEWAY), and the terminals   *)
(* that ask it for an address over a lossy broadcast channel (ROLE_TERMINAL*)
(* attached through the Ad-Hoc interface).                                 *)
(*                                                                         *)
(* A terminal's frames wait in one MAC queue, which retuning the radio     *)
(* flushes; an IP_RELEASE is queued by the switch itself, so it is always  *)
(* ahead of the IP_REQUESTs of the access that the switch begins.  The     *)
(* queue is therefore a flag for the RELEASE and a set of REQUESTs behind  *)
(* it.  Any frame may be lost, and may be heard twice: the gateway and the *)
(* terminal both listen with two interfaces.                               *)
(*                                                                         *)
(* A terminal may leave its gateway for an access point by a soft handover,*)
(* which keeps the lease in use until it commits, or aborts back to it.    *)
(* No domain has both a gateway and an access point that may be joined.    *)
(*                                                                         *)
(* TXIDs are numbered from 1; 0 means that no transaction is pending.      *)
(***************************************************************************)
EXTENDS Naturals, Sequences, FiniteSets

CONSTANTS
    Domains,     \* domains with an Ad-Hoc gateway
    Clients,     \* terminals, named by the MAC of their Ad-Hoc interface
    StaMacs,     \* MACs of STA interfaces whose requests a gateway overhears
    Pool,        \* the addresses PoolStart .. PoolEnd, in order
    KeyedWith,   \* the gateway a terminal has a shared secret with, or NoMac
    NoIp, NoMac, Away,
    MaxRetries,  \* retries before a terminal gives up (the code: 3)
    MaxTx        \* bound on the TXIDs each terminal draws (model checking only)

Macs == Clients \union StaMacs
Addresses == {Pool[i] : i \in DOMAIN Pool}

(* The pool is the range PoolStart..PoolEnd, so its addresses differ and   *)
(* none is 0.0.0.0; an Ad-Hoc MAC is never also a STA MAC.                 *)
ASSUME PoolAssumption ==
    /\ Pool \in Seq(Addresses)
    /\ \A i, j \in DOMAIN Pool : Pool[i] = Pool[j] => i = j
    /\ NoIp \notin Addresses
ASSUME NamesAssumption ==
    /\ Away \notin Domains
    /\ NoMac \notin Macs
    /\ Clients \intersect StaMacs = {}
    /\ MaxRetries \in Nat
    /\ MaxTx \in [Clients -> Nat]

VARIABLES
    available,   \* m_availableAddresses of each gateway
    macToIp,     \* m_macToIp of each gateway (NoIp where the map has no entry)
    secret,      \* whose key material m_sharedSecret of each gateway is made of
    dom,         \* m_currentDomainId, to which the Ad-Hoc radio is tuned
    leaving,     \* m_previousContext.domainId in a handover to an access point
    holds,       \* m_adhocState.ip, where an IP_OFFER has set it
    pending,     \* m_pendingAdhocTxId
    retries,     \* m_adhocIpRetryCount
    nextTx,      \* m_nextTxId
    reqTimer,    \* m_adhocIpReqEvent is scheduled
    retryTimer,  \* m_adhocIpRetryEvent is scheduled
    releasing,   \* an IP_RELEASE is in the terminal's MAC queue
    requests,    \* TXIDs of the IP_REQUESTs behind it
    offers       \* IP_OFFERs on their way to the terminal

poolVars   == <<available, macToIp>>
timerVars  == <<reqTimer, retryTimer>>
frameVars  == <<releasing, requests, offers>>
clientVars == <<dom, leaving, holds, pending, retries, nextTx, timerVars>>
vars == <<poolVars, secret, clientVars, frameVars>>

Offers == [dom : Domains, ip : Addresses, tx : Nat, signer : Macs \union {NoMac}]

Init ==
    /\ available = [d \in Domains |-> Pool]
    /\ macToIp = [d \in Domains |-> [m \in Macs |-> NoIp]]
    /\ secret = [d \in Domains |-> NoMac]
    /\ dom = [c \in Clients |-> Away]
    /\ leaving = [c \in Clients |-> Away]
    /\ holds = [c \in Clients |-> NoIp]
    /\ pending = [c \in Clients |-> 0]
    /\ retries = [c \in Clients |-> 0]
    /\ nextTx = [c \in Clients |-> 1]
    /\ reqTimer = [c \in Clients |-> FALSE]
    /\ retryTimer = [c \in Clients |-> FALSE]
    /\ releasing = [c \in Clients |-> FALSE]
    /\ requests = [c \in Clients |-> {}]
    /\ offers = [c \in Clients |-> {}]

-----------------------------------------------------------------------------
(* The pool. *)

(* The address AllocateIp returns: the one the MAC already has, else the   *)
(* first free one, else none.                                              *)
Granted(d, m) ==
    IF macToIp[d][m] # NoIp THEN macToIp[d][m]
    ELSE IF available[d] # <<>> THEN Head(available[d])
    ELSE NoIp

AllocateIp(d, m) ==
    IF macToIp[d][m] = NoIp /\ available[d] # <<>>
    THEN /\ available' = [available EXCEPT ![d] = Tail(@)]
         /\ macToIp' = [macToIp EXCEPT ![d][m] = Head(available[d])]
    ELSE UNCHANGED poolVars

(* Mutant: the address is freed, the entry of the map stays. *)
ReleaseIpKeepingEntry(d, m) ==
    /\ available' = IF macToIp[d][m] # NoIp
                    THEN [available EXCEPT ![d] = Append(@, macToIp[d][m])]
                    ELSE available
    /\ UNCHANGED macToIp

(* Mutant: the entry goes, the address does not come back. *)
ReleaseIpLosingAddress(d, m) ==
    /\ macToIp' = [macToIp EXCEPT ![d][m] = NoIp]
    /\ UNCHANGED available

ReleaseIp(d, m) ==
    IF macToIp[d][m] # NoIp
    THEN /\ available' = [available EXCEPT ![d] = Append(@, macToIp[d][m])]
         /\ macToIp' = [macToIp EXCEPT ![d][m] = NoIp]
    ELSE UNCHANGED poolVars

(* A gateway derives its one shared secret from the first request that     *)
(* carries a public key, whoever sent it.                                  *)
DeriveSecret(d, m) ==
    secret' = IF secret[d] = NoMac THEN [secret EXCEPT ![d] = m] ELSE secret

-----------------------------------------------------------------------------
(* The gateway's handlers. *)

(* IP_REQUEST of a terminal.  A terminal sends its public key only once it *)
(* has a secret of its own.  The frame may be heard again.                 *)
HearRequest(c, tx) ==
    /\ dom[c] # Away /\ ~releasing[c] /\ tx \in requests[c]
    /\ IF KeyedWith[c] # NoMac THEN DeriveSecret(dom[c], c) ELSE UNCHANGED secret
    /\ AllocateIp(dom[c], c)
    /\ LET ip == Granted(dom[c], c)
           offer == [dom |-> dom[c], ip |-> ip, tx |-> tx, signer |-> secret'[dom[c]]]
       IN offers' = IF ip = NoIp THEN offers
                    ELSE [offers EXCEPT ![c] = @ \union {offer}]
    /\ \/ UNCHANGED requests
       \/ requests' = [requests EXCEPT ![c] = @ \ {tx}]
    /\ UNCHANGED <<clientVars, releasing>>

(* IP_REQUEST that a STA interface sent to an access point on the channel  *)
(* of the gateway: it is served like any other, its offer fits nobody.     *)
OverhearStaRequest(d, m) ==
    /\ DeriveSecret(d, m)
    /\ AllocateIp(d, m)
    /\ UNCHANGED <<clientVars, frameVars>>

(* IP_RELEASE: only the MAC counts, the IP field is not read. *)
HearRelease(c) ==
    /\ dom[c] # Away /\ releasing[c]
    /\ ReleaseIp(dom[c], c)
    /\ \/ UNCHANGED releasing
       \/ releasing' = [releasing EXCEPT ![c] = FALSE]
    /\ UNCHANGED <<secret, clientVars, requests, offers>>

-----------------------------------------------------------------------------
(* The terminal. *)

(* Mutant: the pending transaction survives the change of domain. *)
AccessKeepingTransaction(c, d) ==
    /\ leaving[c] = Away
    /\ IF d = dom[c]
       THEN UNCHANGED <<dom, holds, releasing, requests>>
       ELSE /\ dom' = [dom EXCEPT ![c] = d]
            /\ releasing' = [releasing EXCEPT ![c] = holds[c] # NoIp]
            /\ requests' = [requests EXCEPT ![c] = {}]
            /\ holds' = [holds EXCEPT ![c] = NoIp]
    /\ retries' = [retries EXCEPT ![c] = 0]
    /\ reqTimer' = [reqTimer EXCEPT ![c] = TRUE]
    /\ retryTimer' = [retryTimer EXCEPT ![c] = TRUE]
    /\ UNCHANGED <<poolVars, secret, leaving, pending, nextTx, offers>>

(* ExecuteSwitch to the Ad-Hoc network of domain d.  Both radios are tuned *)
(* to d first, so the IP_RELEASE goes out on d's channel.                  *)
Access(c, d) ==
    /\ leaving[c] = Away
    /\ IF d = dom[c]
       THEN UNCHANGED <<dom, holds, pending, releasing, requests>>
       ELSE /\ dom' = [dom EXCEPT ![c] = d]
            /\ releasing' = [releasing EXCEPT ![c] = holds[c] # NoIp]
            /\ requests' = [requests EXCEPT ![c] = {}]
            /\ holds' = [holds EXCEPT ![c] = NoIp]
            /\ pending' = [pending EXCEPT ![c] = 0]
    /\ retries' = [retries EXCEPT ![c] = 0]
    /\ reqTimer' = [reqTimer EXCEPT ![c] = TRUE]
    /\ retryTimer' = [retryTimer EXCEPT ![c] = TRUE]
    /\ UNCHANGED <<poolVars, secret, leaving, nextTx, offers>>

(* ExecuteSwitch to an access point: with an address, a soft handover      *)
(* begins.  No lease is released.                                          *)
Leave(c) ==
    /\ dom[c] # Away
    /\ dom' = [dom EXCEPT ![c] = Away]
    /\ leaving' = [leaving EXCEPT ![c] = IF holds[c] # NoIp THEN dom[c] ELSE Away]
    /\ pending' = [pending EXCEPT ![c] = 0]
    /\ retries' = [retries EXCEPT ![c] = 0]
    /\ reqTimer' = [reqTimer EXCEPT ![c] = FALSE]
    /\ retryTimer' = [retryTimer EXCEPT ![c] = FALSE]
    /\ releasing' = [releasing EXCEPT ![c] = FALSE]
    /\ requests' = [requests EXCEPT ![c] = {}]
    /\ UNCHANGED <<poolVars, secret, holds, nextTx, offers>>

(* The access point grants an address, or the terminal gives up on it.     *)
CommitHandover(c) ==
    /\ leaving[c] # Away
    /\ leaving' = [leaving EXCEPT ![c] = Away]
    /\ holds' = [holds EXCEPT ![c] = NoIp]
    /\ UNCHANGED <<poolVars, secret, dom, pending, retries, nextTx, timerVars, frameVars>>

AbortHandover(c) ==
    /\ leaving[c] # Away
    /\ dom' = [dom EXCEPT ![c] = leaving[c]]
    /\ leaving' = [leaving EXCEPT ![c] = Away]
    /\ UNCHANGED <<poolVars, secret, holds, pending, retries, nextTx, timerVars, frameVars>>

(* The request RequestAdhocIp sends when n retries have been made: a new   *)
(* TXID for the first one or when none is pending, else the same again.    *)
SendRequest(c, n) ==
    LET fresh == n = 0 \/ pending[c] = 0
        tx == IF fresh THEN nextTx[c] ELSE pending[c]
    IN /\ tx <= MaxTx[c]
       /\ pending' = [pending EXCEPT ![c] = tx]
       /\ nextTx' = IF fresh THEN [nextTx EXCEPT ![c] = @ + 1] ELSE nextTx
       /\ requests' = [requests EXCEPT ![c] = @ \union {tx}]

RequestAdhocIp(c) ==
    /\ reqTimer[c]
    /\ reqTimer' = [reqTimer EXCEPT ![c] = FALSE]
    /\ IF holds[c] = NoIp THEN SendRequest(c, retries[c])
       ELSE UNCHANGED <<pending, nextTx, requests>>
    /\ UNCHANGED <<poolVars, secret, dom, leaving, holds, retries, retryTimer, releasing, offers>>

(* Mutant: one retry too many. *)
RetriesExceeded(c) == retries[c] > MaxRetries

RetriesExhausted(c) == retries[c] >= MaxRetries

(* RetryAdhocIp: up to MaxRetries more requests, then FallbackAndRescan. *)
RetryAdhocIp(c) ==
    /\ retryTimer[c]
    /\ \/ /\ holds[c] = NoIp /\ ~RetriesExhausted(c)
          /\ retries' = [retries EXCEPT ![c] = @ + 1]
          /\ SendRequest(c, retries[c] + 1)
          /\ UNCHANGED retryTimer
       \/ /\ holds[c] = NoIp /\ RetriesExhausted(c)
          /\ retries' = [retries EXCEPT ![c] = 0]
          /\ pending' = [pending EXCEPT ![c] = 0]
          /\ retryTimer' = [retryTimer EXCEPT ![c] = FALSE]
          /\ UNCHANGED <<nextTx, requests>>
       \/ /\ holds[c] # NoIp
          /\ retryTimer' = [retryTimer EXCEPT ![c] = FALSE]
          /\ UNCHANGED <<pending, retries, nextTx, requests>>
    /\ UNCHANGED <<poolVars, secret, dom, leaving, holds, reqTimer, releasing, offers>>

(* Mutant: any offer is expected while a transaction is pending. *)
IsAnyAdhocOffer(c, o) == pending[c] # 0

(* The pending transaction is one of the current domain, because Access    *)
(* and Leave drop it when the domain changes.                              *)
IsExpectedAdhocOffer(c, o) == pending[c] # 0 /\ o.tx = pending[c]

(* An HMAC is checked only when the terminal has a secret and the offer is *)
(* signed; it is right when both sides mean the same pair.                 *)
HmacAccepted(c, o) ==
    \/ KeyedWith[c] = NoMac
    \/ o.signer = NoMac
    \/ KeyedWith[c] = o.dom /\ o.signer = c

(* HandleAdhocIpMessage: the transaction is closed before the HMAC is      *)
(* looked at.  The frame may be heard again.                               *)
HearOffer(c, o) ==
    /\ o \in offers[c] /\ o.dom = dom[c]
    /\ IsExpectedAdhocOffer(c, o)
    /\ pending' = [pending EXCEPT ![c] = 0]
    /\ IF HmacAccepted(c, o)
       THEN /\ holds' = [holds EXCEPT ![c] = o.ip]
            /\ retries' = [retries EXCEPT ![c] = 0]
            /\ retryTimer' = [retryTimer EXCEPT ![c] = FALSE]
       ELSE UNCHANGED <<holds, retries, retryTimer>>
    /\ \/ UNCHANGED offers
       \/ offers' = [offers EXCEPT ![c] = @ \ {o}]
    /\ UNCHANGED <<poolVars, secret, dom, leaving, nextTx, reqTimer, releasing, requests>>

(* Frames that nobody hears, and offers that are heard and ignored. *)
LoseFrame(c) ==
    /\ \/ /\ releasing[c]
          /\ releasing' = [releasing EXCEPT ![c] = FALSE]
          /\ UNCHANGED <<requests, offers>>
       \/ /\ \E tx \in requests[c] : requests' = [requests EXCEPT ![c] = @ \ {tx}]
          /\ UNCHANGED <<releasing, offers>>
       \/ /\ \E o \in offers[c] : offers' = [offers EXCEPT ![c] = @ \ {o}]
          /\ UNCHANGED <<releasing, requests>>
    /\ UNCHANGED <<poolVars, secret, clientVars>>

Next ==
    \/ \E c \in Clients :
          \/ \E d \in Domains : Access(c, d)
          \/ Leave(c)
          \/ CommitHandover(c)
          \/ AbortHandover(c)
          \/ RequestAdhocIp(c)
          \/ RetryAdhocIp(c)
          \/ \E tx \in requests[c] : HearRequest(c, tx)
          \/ HearRelease(c)
          \/ \E o \in offers[c] : HearOffer(c, o)
          \/ LoseFrame(c)
    \/ \E d \in Domains, m \in StaMacs : OverhearStaRequest(d, m)

Spec == Init /\ [][Next]_vars

-----------------------------------------------------------------------------
(* The variables hold values of their types. *)
TypeOK ==
    /\ available \in [Domains -> Seq(Addresses)]
    /\ macToIp \in [Domains -> [Macs -> Addresses \union {NoIp}]]
    /\ secret \in [Domains -> Macs \union {NoMac}]
    /\ dom \in [Clients -> Domains \union {Away}]
    /\ leaving \in [Clients -> Domains \union {Away}]
    /\ holds \in [Clients -> Addresses \union {NoIp}]
    /\ pending \in [Clients -> Nat]
    /\ retries \in [Clients -> 0..MaxRetries]
    /\ nextTx \in [Clients -> Nat]
    /\ reqTimer \in [Clients -> BOOLEAN]
    /\ retryTimer \in [Clients -> BOOLEAN]
    /\ releasing \in [Clients -> BOOLEAN]
    /\ requests \in [Clients -> SUBSET Nat]
    /\ offers \in [Clients -> SUBSET Offers]

Free(d)   == {available[d][i] : i \in DOMAIN available[d]}
Leased(d) == {macToIp[d][m] : m \in Macs} \ {NoIp}

(* Every address of a gateway's pool is in exactly one place: once in the  *)
(* free list or with exactly one MAC (AllocateIp, ReleaseIp).              *)
PoolPartition ==
    \A d \in Domains :
        /\ \A i, j \in DOMAIN available[d] : available[d][i] = available[d][j] => i = j
        /\ \A m, n \in Macs :
              macToIp[d][m] = macToIp[d][n] => m = n \/ macToIp[d][m] = NoIp
        /\ Free(d) \intersect Leased(d) = {}
        /\ Free(d) \union Leased(d) = Addresses

(* The domain whose gateway granted the address of a terminal. *)
Granter(c) == IF leaving[c] # Away THEN leaving[c] ELSE dom[c]

(* An address that a terminal has configured from an offer is still leased *)
(* to it by the gateway that granted it, whatever frames were lost, heard  *)
(* twice or heard late, and through a handover that may be aborted: no     *)
(* IP_RELEASE of an earlier access and no stale IP_OFFER comes between     *)
(* (IsExpectedAdhocOffer, ExecuteSwitch, AbortHandover).                   *)
HolderIsLeased ==
    \A c \in Clients :
        holds[c] # NoIp => Granter(c) # Away /\ macToIp[Granter(c)][c] = holds[c]

(* The strengthening under which HolderIsLeased is inductive.  While an    *)
(* IP_RELEASE waits in its queue a terminal has no address; an IP_OFFER    *)
(* that its terminal would still accept names the address leased to the    *)
(* terminal in the domain where it is, and no IP_RELEASE can overtake it;  *)
(* a handover that leaves has the lease and no transaction (NextTxId,      *)
(* ExecuteSwitch, the order of the MAC queue).                             *)
ReleaseComesFirst == \A c \in Clients : releasing[c] => holds[c] = NoIp

AcceptableOfferIsLeased ==
    \A c \in Clients : \A o \in offers[c] :
        IsExpectedAdhocOffer(c, o) =>
            o.dom = dom[c] /\ ~releasing[c] /\ macToIp[o.dom][c] = o.ip

LeavingKeepsTheLease ==
    \A c \in Clients :
        leaving[c] # Away => dom[c] = Away /\ holds[c] # NoIp /\ pending[c] = 0

TxIdsAreUsedOnce ==
    \A c \in Clients :
        /\ pending[c] < nextTx[c]
        /\ \A tx \in requests[c] : tx < nextTx[c]
        /\ \A o \in offers[c] : o.tx < nextTx[c]

LeaseInv ==
    /\ HolderIsLeased /\ ReleaseComesFirst /\ AcceptableOfferIsLeased
    /\ LeavingKeepsTheLease /\ TxIdsAreUsedOnce

(* A MAC gets no address only when every address of the pool is leased to  *)
(* another one: leases that nobody releases cost a gateway one address per *)
(* terminal that ever came by, however often it leaves, comes back, asks   *)
(* again or gives up (AllocateIp, ExecuteSwitch).                          *)
RefusedOnlyWhenFull ==
    \A d \in Domains, m \in Macs :
        Granted(d, m) = NoIp =>
            Cardinality({n \in Macs \ {m} : macToIp[d][n] # NoIp}) = Len(Pool)

(* What a terminal uses: its address, at the gateway that granted it.      *)
NoUse == [dom |-> Away, ip |-> NoIp]
InUse(c) == IF holds[c] = NoIp THEN NoUse ELSE [dom |-> Granter(c), ip |-> holds[c]]
Contract == INSTANCE AddressContract WITH
                lease <- macToIp, use <- [c \in Clients |-> InUse(c)]

(* The gateways and terminals keep the contract of an address service: the *)
(* map is the leases, and what a terminal uses is its address at the       *)
(* gateway that granted it - whatever frames are lost, repeated or late    *)
(* (AllocateIp, ReleaseIp, HandleAdhocIpMessage, ExecuteSwitch).           *)
ContractKept == Contract!Spec

(* Two terminals never have the same address of one gateway. *)
NoTwoHolders ==
    \A c, e \in Clients :
        c # e /\ Granter(c) = Granter(e) => holds[c] # holds[e] \/ holds[c] = NoIp
=============================================================================

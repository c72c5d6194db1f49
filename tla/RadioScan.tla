------------------------------- MODULE RadioScan -------------------------------
(***************************************************************************)
(* The two radios of a terminal (BlindConnectApp) and the timers that tune *)
(* them: the STA radio hops over the channels while the terminal looks for *)
(* its first network and rescans them periodically afterwards; the Ad-Hoc  *)
(* radio of a terminal joined through an access point leaves its domain    *)
(* periodically to listen in the discovery domain.  Switches, fallbacks    *)
(* and aborted handovers interrupt them at any time.                       *)
(*                                                                         *)
(* Channels are positions in m_channels.  A timer is the number of ticks   *)
(* until it fires, or Off; a radio that is busy puts its handler off by a  *)
(* tick.  delayed, aborted, hopped, visited and scanned are history        *)
(* variables.                                                              *)
(***************************************************************************)
EXTENDS Integers, FiniteSets

CONSTANTS
    Domains, ChannelOf,  \* m_domainProfiles: the access point's channel
    Discovery,           \* the domain of m_adhocDiscoverySsid
    NChannels,           \* m_channels.size()
    HopTime,             \* DwellTime, the time on a channel while hopping
    RescanPeriod, RescanTime, RestoreTime,  \* 5 s, 200 ms per channel, 50 ms
    ScanPeriod, ListenTime,                 \* 1.5 s and 1.2 s
    Dwell,               \* the 8 s between voluntary switches
    None, Off

Channels == 0..(NChannels - 1)

ASSUME DomainsAssumption ==
    /\ NChannels \in Nat \ {0}
    /\ ChannelOf \in [Domains -> Channels] /\ Discovery \in Domains
    /\ None \notin Domains
ASSUME TimesAssumption ==
    /\ HopTime \in Nat \ {0} /\ RescanTime \in Nat \ {0} /\ RestoreTime \in Nat \ {0}
    /\ RescanPeriod \in Nat /\ RestoreTime < RescanPeriod
    /\ ScanPeriod \in Nat \ {0} /\ ListenTime \in Nat \ {0}
    /\ Dwell \in Nat /\ RescanPeriod + (NChannels - 1) * RescanTime < Dwell
    /\ Off \notin Int

Types == {"AP", "ADHOC"}

VARIABLES
    type,      \* m_currentNetType
    dom,       \* m_currentDomainId
    joined,    \* m_currentHops is not 99
    prev,      \* m_previousContext: type and domain, while m_handoverInProgress
    since,     \* ticks since m_lastSwitchTime, up to Dwell
    home,      \* m_apChannelNum
    sta,       \* channel of the STA radio
    idx,       \* m_currentChIdx
    adhoc,     \* domain that the Ad-Hoc radio is tuned to
    timer,     \* m_hopEvent, m_rescanEvent, m_adhocScanEvent, m_adhocRestoreEvent
    restores,  \* the DoApRescanRestore calls, which no handle refers to
    count,     \* m_rescanChCount
    visited,   \* history: channels of the present rescan
    hopped,    \* history: the STA radio has hopped since the rescan was scheduled
    delayed,   \* history: the rescan was put off since the last switch
    scanned,   \* history: a rescan was completed since the last switch
    aborted    \* history: a handover was aborted since the last switch

context == <<type, dom, joined, prev>>
history == <<visited, hopped, delayed, scanned, aborted>>
vars == <<context, since, home, sta, idx, adhoc, timer, restores, count, history>>

-----------------------------------------------------------------------------
(* m_channels is used round robin; the mutant forgets to wrap around.      *)
NextIdxUnwrapped == idx + 1
NextIdx == (idx + 1) % NChannels

(* SwitchToNextChannel, started by a timer or by a fallback.               *)
SwitchToNextChannel(timers) ==
    \/ /\ timer' = [timers EXCEPT !.hop = 1]
       /\ UNCHANGED <<sta, idx, hopped>>
    \/ /\ sta' = idx
       /\ idx' = NextIdx
       /\ timer' = [timers EXCEPT !.hop = HopTime]
       /\ hopped' = TRUE

Hop ==
    /\ timer.hop = 0
    /\ SwitchToNextChannel(timer)
    /\ UNCHANGED <<context, since, home, adhoc, restores, count,
                   visited, delayed, scanned, aborted>>

(* ScheduleApRescan; the mutant forgets the channel count.                 *)
RescanKeepingCount == UNCHANGED count /\ visited' = {} /\ hopped' = FALSE
ResetRescan == count' = 0 /\ visited' = {} /\ hopped' = FALSE

(* DoApRescanChannel: the next channel, and after the last one the restore *)
(* and the next rescan - forgotten by the mutants.  A domain has been      *)
(* joined, for good, before the first rescan.                              *)
LastStepOnly(timers) == timers
RescanAgain(timers) == [timers EXCEPT !.rescan = RescanPeriod]
NoRestore == restores
AddRestore == restores \union {RestoreTime}
OneChannelTooMany == count + 1 <= NChannels  \* a mutant
MoreChannels == count + 1 < NChannels
Rescan ==
    /\ timer.rescan = 0
    /\ \/ /\ timer' = [timer EXCEPT !.rescan = 1]
          /\ delayed' = TRUE
          /\ UNCHANGED <<sta, idx, restores, count, visited, hopped, scanned, aborted>>
       \/ /\ idx' = NextIdx
          /\ sta' = idx'
          /\ IF MoreChannels
             THEN /\ count' = count + 1 /\ visited' = visited \union {idx'}
                  /\ timer' = [timer EXCEPT !.rescan = RescanTime]
                  /\ UNCHANGED <<restores, hopped, scanned>>
             ELSE /\ ResetRescan
                  /\ restores' = AddRestore
                  /\ timer' = RescanAgain([timer EXCEPT !.rescan = Off])
                  /\ scanned' = TRUE
          /\ UNCHANGED <<delayed, aborted>>
    /\ UNCHANGED <<context, since, home, adhoc>>

(* DoApRescanRestore.                                                      *)
Restore ==
    /\ 0 \in restores
    /\ \/ restores' = (restores \ {0}) \union {1} /\ UNCHANGED sta
       \/ restores' = restores \ {0} /\ sta' = home
    /\ UNCHANGED <<context, since, home, idx, adhoc, timer, count, history>>

-----------------------------------------------------------------------------
(* DoAdhocDiscoveryScan.                                                   *)
Scan ==
    /\ timer.scan = 0
    /\ \/ /\ type # "AP"
          /\ timer' = [timer EXCEPT !.scan = Off] /\ UNCHANGED adhoc
       \/ /\ type = "AP"
          /\ timer' = [timer EXCEPT !.scan = 1] /\ UNCHANGED adhoc
       \/ /\ type = "AP"
          /\ adhoc' = Discovery
          /\ timer' = [timer EXCEPT !.scan = Off, !.listen = ListenTime]
    /\ UNCHANGED <<context, since, home, sta, idx, restores, count, history>>

(* RestoreAdhocDomainChannel, which schedules the next scan - forgotten by *)
(* the mutant.                                                             *)
ListenOnce == [timer EXCEPT !.listen = Off]
ListenAgain == [timer EXCEPT !.listen = Off, !.scan = ScanPeriod]
RestoreAdhoc ==
    /\ timer.listen = 0
    /\ \/ /\ type # "AP"
          /\ timer' = [timer EXCEPT !.listen = Off] /\ UNCHANGED adhoc
       \/ /\ type = "AP"
          /\ timer' = [timer EXCEPT !.listen = 1] /\ UNCHANGED adhoc
       \/ /\ type = "AP"
          /\ adhoc' = dom
          /\ timer' = ListenAgain
    /\ UNCHANGED <<context, since, home, sta, idx, restores, count, history>>

-----------------------------------------------------------------------------
(* ExecuteSwitch: both radios are tuned to the target's domain; the timers *)
(* are cancelled and set as its type needs - hopping, only by an access to *)
(* an access point.  It is decided in no handover.                         *)
NoContext == [type |-> "AP", dom |-> None]
handover == prev # NoContext
BeginHandover == prev' = [type |-> type, dom |-> dom]
HoppingAfter(t) == IF t = "AP" THEN Off ELSE timer.hop
ExecuteSwitch(t, d) ==
    /\ since > 0 /\ ~handover
    /\ \/ joined /\ t # type /\ d # dom /\ BeginHandover
       \/ UNCHANGED prev
    /\ type' = t /\ dom' = d /\ joined' = TRUE /\ since' = 0
    /\ home' = ChannelOf[d] /\ sta' = ChannelOf[d] /\ adhoc' = d
    /\ timer' = [hop |-> HoppingAfter(t), rescan |-> RescanPeriod,
                 scan |-> IF t = "AP" THEN ScanPeriod ELSE Off, listen |-> Off]
    /\ ResetRescan
    /\ delayed' = FALSE /\ scanned' = FALSE /\ aborted' = FALSE
    /\ UNCHANGED <<idx, restores>>

CommitHandover ==
    /\ handover /\ joined
    /\ prev' = NoContext
    /\ UNCHANGED <<type, dom, joined, since, home, sta, idx, adhoc, timer, restores,
                   count, history>>

(* AbortHandover leaves radios and timers as they are.                     *)
AbortHandover ==
    /\ handover /\ joined
    /\ prev' = NoContext
    /\ type' = prev.type /\ dom' = prev.dom
    /\ aborted' = TRUE
    /\ UNCHANGED <<joined, since, home, sta, idx, adhoc, timer, restores, count,
                   visited, hopped, delayed, scanned>>

(* FallbackAndRescan: the timers go on, and hopping unless it does.        *)
FallbackAndRescan ==
    /\ joined
    /\ joined' = FALSE /\ type' = "AP"
    /\ IF timer.hop = Off
       THEN SwitchToNextChannel(timer)
       ELSE UNCHANGED <<timer, sta, idx, hopped>>
    /\ UNCHANGED <<dom, prev, since, home, adhoc, restores, count,
                   visited, delayed, scanned, aborted>>

Due == 0 \in {timer.hop, timer.rescan, timer.scan, timer.listen} \union restores
Sooner(t) == IF t = Off THEN Off ELSE t - 1
Tick ==
    /\ ~Due
    /\ timer' = [hop |-> Sooner(timer.hop), rescan |-> Sooner(timer.rescan),
                 scan |-> Sooner(timer.scan), listen |-> Sooner(timer.listen)]
    /\ restores' = {r - 1 : r \in restores}
    /\ since' = IF since < Dwell THEN since + 1 ELSE since
    /\ UNCHANGED <<context, home, sta, idx, adhoc, count, history>>

-----------------------------------------------------------------------------
(* StartApplication, after its first hop.                                  *)
Init ==
    /\ type = "AP" /\ dom = None /\ joined = FALSE
    /\ prev = NoContext
    /\ since = 0
    /\ home = 0 /\ sta = 0 /\ idx = 1 % NChannels /\ adhoc \in Domains
    /\ timer = [hop |-> HopTime, rescan |-> Off, scan |-> Off, listen |-> Off]
    /\ restores = {} /\ count = 0
    /\ visited = {} /\ hopped = FALSE
    /\ delayed = FALSE /\ scanned = FALSE /\ aborted = FALSE

Switching == \E t \in Types, d \in Domains : ExecuteSwitch(t, d)

Next ==
    \/ Hop \/ Rescan \/ Restore \/ Scan \/ RestoreAdhoc
    \/ Switching \/ CommitHandover \/ AbortHandover \/ FallbackAndRescan
    \/ Tick

Spec == Init /\ [][Next]_vars

(* The simulator runs the events and time passes; a radio is not busy at   *)
(* every attempt of the same handler.                                      *)
FairSpec ==
    /\ Spec
    /\ WF_vars(Hop \/ Rescan \/ Restore \/ Scan \/ RestoreAdhoc \/ Tick)
    /\ SF_vars(Rescan /\ idx' # idx)
    /\ SF_vars(Scan /\ timer'.listen = ListenTime)
    /\ SF_vars(RestoreAdhoc /\ timer'.scan = ScanPeriod)

-----------------------------------------------------------------------------
Timer(max) == {Off} \union 0..max

(* Every variable has its type.                                            *)
TypeOK ==
    /\ type \in Types /\ dom \in Domains \union {None}
    /\ joined \in BOOLEAN
    /\ prev \in [type : Types, dom : Domains \union {None}]
    /\ since \in 0..Dwell
    /\ home \in Channels /\ sta \in Channels /\ idx \in Channels
    /\ adhoc \in Domains
    /\ timer \in [hop : Timer(HopTime), rescan : Timer(RescanPeriod + RescanTime),
                  scan : Timer(ScanPeriod), listen : Timer(ListenTime)]
    /\ restores \subseteq 0..RestoreTime
    /\ count \in Channels
    /\ visited \subseteq Channels
    /\ hopped \in BOOLEAN /\ delayed \in BOOLEAN
    /\ scanned \in BOOLEAN /\ aborted \in BOOLEAN

(* A terminal joined through an access point keeps its STA radio on the    *)
(* channel of that access point whenever it is not rescanning or about to  *)
(* come back, and does not hop: no timer of an earlier network, with or    *)
(* without a handle, takes the radio away (ExecuteSwitch,                  *)
(* DoApRescanRestore).  After an aborted handover the channel is still     *)
(* that of the candidate.                                                  *)
HomeBetweenScans ==
    type = "AP" /\ joined =>
        /\ timer.hop = Off
        /\ count = 0 /\ restores = {} => sta = home
        /\ ~aborted => home = ChannelOf[dom]

(* The Ad-Hoc radio of such a terminal is either in its own domain with    *)
(* the next scan to come, or in the discovery domain with the return to    *)
(* come - never away for good, never with two of these timers, whatever    *)
(* switches and fallbacks come between (DoAdhocDiscoveryScan,              *)
(* RestoreAdhocDomainChannel).                                             *)
AwayOnlyToListen ==
    type = "AP" /\ dom # None /\ ~aborted /\ joined =>
        \/ adhoc = dom /\ timer.scan # Off /\ timer.listen = Off
        \/ adhoc = Discovery /\ timer.scan = Off /\ timer.listen # Off

(* A rescan that no hop disturbs looks at a new channel with every step,   *)
(* although hopping and rescanning share m_currentChIdx and a switch may   *)
(* begin another rescan at any point of it (DoApRescanChannel).            *)
NoChannelTwice == ~hopped => Cardinality(visited) = count

(* Every channel is rescanned before the dwell time lets the terminal      *)
(* leave the network voluntarily, if no frame held the radio up            *)
(* (ScheduleApRescan, EvaluateAndSwitch).                                  *)
ScannedBeforeLeaving ==
    dom # None /\ ~delayed /\ since = Dwell => scanned

(* A domain has been joined whenever one is needed; nobody hops who is, or *)
(* was before the handover, joined through an access point; the radio is   *)
(* at home, on the channel of the domain, when no timer tunes it.          *)
RadiosAtHome ==
    /\ joined => dom # None
    /\ handover => prev.dom # None
    /\ dom = None => timer.rescan = Off /\ timer.scan = Off /\ timer.listen = Off
    /\ joined /\ (type = "AP" \/ handover) => timer.hop = Off
    /\ joined /\ timer.hop = Off /\ count = 0 /\ restores = {} => sta = home
    /\ dom # None /\ ~aborted => home = ChannelOf[dom]

(* The channels visited are the last ones, back from the present index.    *)
StepsBack(i, c) == IF c <= i THEN i - c ELSE i - c + NChannels
VisitedAreLast ==
    ~hopped => /\ visited = {c \in Channels : StepsBack(idx, c) < count}
               /\ Cardinality(visited) = count

(* What is left of the rescan ends before the dwell time.                  *)
RescanIsOnTime ==
    dom # None /\ ~delayed /\ ~scanned =>
        /\ timer.rescan # Off
        /\ since + timer.rescan + (NChannels - 1 - count) * RescanTime
             <= RescanPeriod + (NChannels - 1) * RescanTime

(* The inductive invariant.                                                *)
ScanInv ==
    /\ TypeOK
    /\ RadiosAtHome
    /\ AwayOnlyToListen
    /\ VisitedAreLast
    /\ RescanIsOnTime

(* A terminal that has joined a network and stays rescans the channels     *)
(* again and again, and one joined through an access point listens for     *)
(* Ad-Hoc networks again and again, unless a handover was aborted, which   *)
(* may leave it without a discovery timer.                                 *)
RescansGoOn == <>[](dom # None) => []<>(count = NChannels - 1) \/ []<>(since = 0)
DiscoveryGoesOn ==
    <>[](type = "AP" /\ joined /\ ~aborted) =>
        \/ []<>(since = 0)
        \/ []<>(adhoc = Discovery) /\ []<>(adhoc = dom)
=============================================================================

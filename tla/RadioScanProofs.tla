---------------------------- MODULE RadioScanProofs ----------------------------
(***************************************************************************)
(* Proofs about RadioScan, for any domains, any number of channels and any *)
(* times in which a rescan fits into the dwell time.                       *)
(***************************************************************************)
EXTENDS RadioScan, FiniteSetTheorems, TLAPS

LEMMA OffIsNoNumber == \A t \in Int : t # Off
  BY TimesAssumption

Timers == [hop : Timer(HopTime), rescan : Timer(RescanPeriod + RescanTime),
           scan : Timer(ScanPeriod), listen : Timer(ListenTime)]

(* The next channel index, without the modulus.                            *)
LEMMA NextChannel ==
    ASSUME idx \in Channels
    PROVE  /\ NextIdx = IF idx + 1 = NChannels THEN 0 ELSE idx + 1
           /\ NextIdx \in Channels
<1>1. NChannels \in Nat \ {0} /\ idx \in 0..(NChannels - 1)
  BY DomainsAssumption DEF Channels
<1>2. CASE idx + 1 = NChannels
  <2>1. NChannels % NChannels = 0
    BY <1>1
  <2> QED
    BY <1>1, <1>2, <2>1 DEF NextIdx, Channels
<1>3. CASE idx + 1 # NChannels
  <2>1. idx + 1 \in 0..(NChannels - 1)
    BY <1>1, <1>3
  <2>2. (idx + 1) % NChannels = idx + 1
    BY <1>1, <2>1
  <2> QED
    BY <1>1, <1>3, <2>1, <2>2 DEF NextIdx, Channels
<1> QED
  BY <1>2, <1>3

(* The time that the remaining channels of a rescan take.                  *)
LEMMA TimeLeft ==
    ASSUME NEW n \in Channels
    PROVE  /\ (NChannels - 1 - n) * RescanTime \in Nat
           /\ n + 1 < NChannels =>
                (NChannels - 1 - (n + 1)) * RescanTime + RescanTime
                  = (NChannels - 1 - n) * RescanTime
<1>1. NChannels \in Nat \ {0} /\ n \in 0..(NChannels - 1) /\ RescanTime \in Nat
  BY DomainsAssumption, TimesAssumption DEF Channels
<1>2. \A x, y \in Nat : x * y \in Nat
  OBVIOUS
<1>3. NChannels - 1 - n \in Nat
  BY <1>1
<1>4. \A x, y \in Int : (x - 1) * y + y = x * y
  OBVIOUS
<1>5. NChannels - 1 - (n + 1) = (NChannels - 1 - n) - 1
  BY <1>1
<1> QED
  BY <1>1, <1>2, <1>3, <1>4, <1>5

-----------------------------------------------------------------------------
LEMMA InitScan == Init => ScanInv
<1> SUFFICES ASSUME Init PROVE ScanInv
  OBVIOUS
<1>1. /\ NChannels \in Nat \ {0} /\ HopTime \in Nat \ {0} /\ 0 \in Channels
      /\ None \notin Domains
  BY DomainsAssumption, TimesAssumption DEF Channels
<1>2. 1 % NChannels \in Channels
  BY <1>1 DEF Channels
<1>3. timer \in Timers
  BY <1>1 DEF Init, Timers, Timer
<1>4. TypeOK
  <2>1. prev \in [type : Types, dom : Domains \union {None}] /\ type \in Types
    BY DEF Init, NoContext, Types
  <2>2. since \in 0..Dwell
    BY TimesAssumption DEF Init
  <2> QED
    BY <1>1, <1>2, <1>3, <2>1, <2>2 DEF Init, TypeOK, Timers
<1>5. RadiosAtHome
  BY <1>1 DEF Init, RadiosAtHome, handover
<1>6. AwayOnlyToListen
  BY DEF Init, AwayOnlyToListen
<1>7. VisitedAreLast
  <2>1. \A c \in Channels : ~(StepsBack(idx, c) < count)
    BY <1>1, <1>2 DEF Init, StepsBack, Channels
  <2>2. Cardinality({}) = 0
    BY FS_EmptySet
  <2> QED
    BY <2>1, <2>2 DEF Init, VisitedAreLast
<1>8. RescanIsOnTime
  BY DEF Init, RescanIsOnTime
<1> QED
  BY <1>4, <1>5, <1>6, <1>7, <1>8 DEF ScanInv

-----------------------------------------------------------------------------
(* What SwitchToNextChannel does, whoever calls it.                        *)
LEMMA SwitchingChannels ==
    ASSUME TypeOK, SwitchToNextChannel(timer)
    PROVE  /\ sta' \in Channels /\ idx' \in Channels /\ hopped' \in BOOLEAN
           /\ timer' = [timer EXCEPT !.hop = timer'.hop]
           /\ timer'.hop \in 0..HopTime
           /\ ~hopped' => ~hopped /\ idx' = idx
<1>1. HopTime \in Nat \ {0} /\ timer \in Timers
  BY TimesAssumption DEF TypeOK, Timers
<1>2. CASE timer' = [timer EXCEPT !.hop = 1] /\ UNCHANGED <<sta, idx, hopped>>
  BY <1>1, <1>2 DEF TypeOK, Timers
<1>3. CASE /\ sta' = idx /\ idx' = NextIdx /\ hopped' = TRUE
           /\ timer' = [timer EXCEPT !.hop = HopTime]
  BY <1>1, <1>3, NextChannel DEF TypeOK, Timers
<1> QED
  BY <1>2, <1>3 DEF SwitchToNextChannel

(* A step of the hopping timer: hop stays on and nothing else moves.       *)
LEMMA HopInv ==
    ASSUME ScanInv, Hop
    PROVE  ScanInv'
<1>1. /\ TypeOK /\ RadiosAtHome /\ AwayOnlyToListen /\ VisitedAreLast /\ RescanIsOnTime
  BY DEF ScanInv
<1>2. /\ timer.hop = 0
      /\ UNCHANGED <<type, dom, joined, prev, since, home, adhoc, restores, count,
                     visited, delayed, scanned, aborted>>
  BY DEF Hop, context
<1>3. /\ sta' \in Channels /\ idx' \in Channels /\ hopped' \in BOOLEAN
      /\ timer' = [timer EXCEPT !.hop = timer'.hop]
      /\ timer'.hop \in 0..HopTime
      /\ ~hopped' => ~hopped /\ idx' = idx
  BY <1>1, SwitchingChannels DEF Hop
<1>4. timer \in Timers
  BY <1>1 DEF TypeOK, Timers
<1>5. /\ timer' \in Timers
      /\ timer'.rescan = timer.rescan /\ timer'.scan = timer.scan
      /\ timer'.listen = timer.listen
  <2>1. HopTime \in Nat
    BY TimesAssumption
  <2> QED
    BY <1>3, <1>4, <2>1 DEF Timers, Timer
<1>6. timer.hop # Off
  BY <1>2, OffIsNoNumber
<1>7. TypeOK'
  BY <1>1, <1>2, <1>3, <1>5 DEF TypeOK, Timers
<1>8. RadiosAtHome'
  <2>1. ~(joined /\ (type = "AP" \/ handover))
    BY <1>1, <1>6 DEF RadiosAtHome
  <2>2. timer'.hop # Off
    <3>1. timer'.hop \in Int
      BY <1>3, TimesAssumption
    <3> QED
      BY <3>1, OffIsNoNumber
  <2> QED
    BY <1>1, <1>2, <1>5, <2>1, <2>2 DEF RadiosAtHome, handover
<1>9. AwayOnlyToListen'
  BY <1>1, <1>2, <1>5 DEF AwayOnlyToListen
<1>10. VisitedAreLast'
  BY <1>1, <1>2, <1>3 DEF VisitedAreLast, StepsBack
<1>11. RescanIsOnTime'
  BY <1>1, <1>2, <1>5 DEF RescanIsOnTime
<1> QED
  BY <1>7, <1>8, <1>9, <1>10, <1>11 DEF ScanInv

(* A rescan step that finds the radio free visits a channel that it has not *)
(* visited: the one ahead is NChannels - 1 steps back.                     *)
LEMMA VisitNext ==
    ASSUME TypeOK, VisitedAreLast, MoreChannels, ~hopped, idx' = NextIdx
    PROVE  /\ visited \union {idx'} = {c \in Channels : StepsBack(idx', c) < count + 1}
           /\ Cardinality(visited \union {idx'}) = count + 1
<1>1. /\ NChannels \in Nat \ {0} /\ idx \in 0..(NChannels - 1)
      /\ count \in 0..(NChannels - 1) /\ count + 1 < NChannels
  BY DomainsAssumption DEF TypeOK, MoreChannels, Channels
<1>2. /\ idx' = IF idx + 1 = NChannels THEN 0 ELSE idx + 1
      /\ idx' \in Channels
  BY NextChannel DEF TypeOK
<1>3. visited = {c \in Channels : StepsBack(idx, c) < count} /\ Cardinality(visited) = count
  BY DEF VisitedAreLast
<1>4. StepsBack(idx, idx') = NChannels - 1 /\ StepsBack(idx', idx') = 0
  BY <1>1, <1>2 DEF StepsBack
<1>5. \A c \in Channels : c # idx' => StepsBack(idx', c) = StepsBack(idx, c) + 1
  BY <1>1, <1>2 DEF StepsBack, Channels
<1>6. \A c \in Channels : StepsBack(idx, c) \in Int
  BY <1>1 DEF StepsBack, Channels
<1>7. idx' \notin visited
  BY <1>1, <1>3, <1>4
<1>8. \A c \in Channels : c \in visited \union {idx'} <=> StepsBack(idx', c) < count + 1
  <2> TAKE c \in Channels
  <2>1. CASE c = idx'
    BY <1>1, <1>4, <2>1
  <2>2. CASE c # idx'
    BY <1>1, <1>3, <1>5, <1>6, <2>2
  <2> QED
    BY <2>1, <2>2
<1>9. IsFiniteSet(visited)
  <2>1. visited \subseteq 0..(NChannels - 1)
    BY DEF TypeOK, Channels
  <2>2. IsFiniteSet(0..(NChannels - 1))
    BY <1>1, FS_Interval
  <2> QED
    BY <2>1, <2>2, FS_Subset
<1>10. Cardinality(visited \union {idx'}) = count + 1
  BY <1>3, <1>7, <1>9, FS_AddElement
<1>11. visited \subseteq Channels
  BY DEF TypeOK
<1> QED
  BY <1>2, <1>8, <1>10, <1>11

LEMMA BackIsNatural == \A i, c \in Channels : StepsBack(i, c) \in Nat
  BY DomainsAssumption DEF StepsBack, Channels

(* What ResetRescan leaves: nothing visited, and all channels to go.       *)
LEMMA ResetVisited ==
    ASSUME idx' \in Channels, ResetRescan
    PROVE  /\ count' = 0 /\ visited' = {} /\ hopped' = FALSE
           /\ count' \in Channels
           /\ VisitedAreLast'
<1>1. NChannels \in Nat \ {0} /\ idx' \in 0..(NChannels - 1)
  BY DomainsAssumption DEF Channels
<1>2. count' = 0 /\ visited' = {} /\ hopped' = FALSE
  BY DEF ResetRescan
<1>3. \A c \in Channels : ~(StepsBack(idx', c) < 0)
  BY BackIsNatural
<1>4. Cardinality({}) = 0
  BY FS_EmptySet
<1>5. VisitedAreLast'
  BY <1>2, <1>3, <1>4 DEF VisitedAreLast
<1> QED
  BY <1>1, <1>2, <1>5 DEF Channels

LEMMA RescanInv ==
    ASSUME ScanInv, Rescan
    PROVE  ScanInv'
<1>1. /\ TypeOK /\ RadiosAtHome /\ AwayOnlyToListen /\ VisitedAreLast /\ RescanIsOnTime
  BY DEF ScanInv
<1>2. /\ timer.rescan = 0
      /\ UNCHANGED <<type, dom, joined, prev, since, home, adhoc>>
  BY DEF Rescan, context
<1>3. /\ timer \in Timers /\ timer.rescan # Off
      /\ HopTime \in Nat \ {0} /\ RescanTime \in Nat \ {0} /\ RestoreTime \in Nat \ {0}
      /\ RescanPeriod \in Nat
  BY <1>1, <1>2, TimesAssumption, OffIsNoNumber DEF TypeOK, Timers
<1>4. CASE /\ timer' = [timer EXCEPT !.rescan = 1]
           /\ delayed' = TRUE
           /\ UNCHANGED <<sta, idx, restores, count, visited, hopped, scanned, aborted>>
  <2>1. /\ timer' \in Timers /\ timer'.rescan = 1 /\ timer'.hop = timer.hop
        /\ timer'.scan = timer.scan /\ timer'.listen = timer.listen
    BY <1>3, <1>4 DEF Timers, Timer
  <2>2. TypeOK'
    BY <1>1, <1>2, <1>4, <2>1 DEF TypeOK, Timers
  <2>3. RadiosAtHome'
    BY <1>1, <1>2, <1>3, <1>4, <2>1 DEF RadiosAtHome, handover
  <2>4. AwayOnlyToListen'
    BY <1>1, <1>2, <1>4, <2>1 DEF AwayOnlyToListen
  <2>5. VisitedAreLast'
    BY <1>1, <1>4 DEF VisitedAreLast, StepsBack
  <2>6. RescanIsOnTime'
    BY <1>4 DEF RescanIsOnTime
  <2> QED
    BY <2>2, <2>3, <2>4, <2>5, <2>6 DEF ScanInv
<1>5. CASE /\ idx' = NextIdx /\ sta' = idx'
           /\ MoreChannels
           /\ count' = count + 1 /\ visited' = visited \union {idx'}
           /\ timer' = [timer EXCEPT !.rescan = RescanTime]
           /\ UNCHANGED <<restores, hopped, scanned, delayed, aborted>>
  <2>1. /\ timer' \in Timers /\ timer'.rescan = RescanTime /\ timer'.hop = timer.hop
        /\ timer'.scan = timer.scan /\ timer'.listen = timer.listen
    BY <1>3, <1>5 DEF Timers, Timer
  <2>2. idx' \in Channels
    BY <1>1, <1>5, NextChannel DEF TypeOK
  <2>3. count \in Channels /\ count' \in Channels /\ count' # 0 /\ count + 1 < NChannels
    BY <1>1, <1>5, DomainsAssumption DEF TypeOK, Channels, MoreChannels
  <2>4. TypeOK'
    BY <1>1, <1>2, <1>5, <2>1, <2>2, <2>3 DEF TypeOK, Timers
  <2>5. RadiosAtHome'
    BY <1>1, <1>2, <1>3, <1>5, <2>1, <2>3 DEF RadiosAtHome, handover
  <2>6. AwayOnlyToListen'
    BY <1>1, <1>2, <1>5, <2>1 DEF AwayOnlyToListen
  <2>7. VisitedAreLast'
    BY <1>1, <1>5, VisitNext DEF VisitedAreLast
  <2>8. RescanIsOnTime'
    <3> SUFFICES ASSUME dom # None, ~delayed, ~scanned
                 PROVE  /\ RescanTime # Off
                        /\ since + RescanTime + (NChannels - 1 - (count + 1)) * RescanTime
                             <= RescanPeriod + (NChannels - 1) * RescanTime
      BY <1>2, <1>5, <2>1 DEF RescanIsOnTime
    <3> DEFINE Left == (NChannels - 1 - count) * RescanTime
               LeftAfter == (NChannels - 1 - (count + 1)) * RescanTime
               Bound == RescanPeriod + (NChannels - 1) * RescanTime
    <3>1. since + 0 + Left <= Bound
      BY <1>1, <1>2 DEF RescanIsOnTime
    <3>2. Left \in Nat /\ LeftAfter + RescanTime = Left
      BY <2>3, TimeLeft
    <3>3. LeftAfter \in Nat
      BY <2>3, <1>5, TimeLeft
    <3>4. since \in Int
      BY <1>1, TimesAssumption DEF TypeOK
    <3>5. RescanTime # Off
      BY <1>3, OffIsNoNumber
    <3> HIDE DEF Left, LeftAfter, Bound
    <3>6. since + RescanTime + LeftAfter = since + 0 + Left
      BY <1>3, <3>2, <3>3, <3>4
    <3> QED
      BY <3>1, <3>5, <3>6 DEF Left, LeftAfter, Bound
  <2> QED
    BY <2>4, <2>5, <2>6, <2>7, <2>8 DEF ScanInv
<1>6. CASE /\ idx' = NextIdx /\ sta' = idx'
           /\ ResetRescan
           /\ restores' = AddRestore
           /\ timer' = RescanAgain([timer EXCEPT !.rescan = Off])
           /\ scanned' = TRUE
           /\ UNCHANGED <<delayed, aborted>>
  <2>1. /\ timer' \in Timers /\ timer'.rescan = RescanPeriod /\ timer'.hop = timer.hop
        /\ timer'.scan = timer.scan /\ timer'.listen = timer.listen
    <3> DEFINE stopped == [timer EXCEPT !.rescan = Off]
    <3>1. /\ stopped \in Timers /\ stopped.hop = timer.hop
          /\ stopped.scan = timer.scan /\ stopped.listen = timer.listen
      BY <1>3 DEF Timers, Timer
    <3>2. timer' = [stopped EXCEPT !.rescan = RescanPeriod]
      BY <1>6 DEF RescanAgain
    <3> HIDE DEF stopped
    <3> QED
      BY <1>3, <3>1, <3>2 DEF Timers, Timer
  <2>2. idx' \in Channels
    BY <1>1, <1>6, NextChannel DEF TypeOK
  <2>3. /\ count' = 0 /\ visited' = {} /\ hopped' = FALSE
        /\ count' \in Channels /\ VisitedAreLast'
    BY <1>6, <2>2, ResetVisited
  <2>4. restores' \subseteq 0..RestoreTime /\ restores' # {}
    BY <1>1, <1>3, <1>6 DEF TypeOK, AddRestore
  <2>5. TypeOK'
    BY <1>1, <1>2, <1>6, <2>1, <2>2, <2>3, <2>4 DEF TypeOK, Timers
  <2>6. RadiosAtHome'
    BY <1>1, <1>2, <1>3, <1>6, <2>1, <2>4 DEF RadiosAtHome, handover
  <2>7. AwayOnlyToListen'
    BY <1>1, <1>2, <1>6, <2>1 DEF AwayOnlyToListen
  <2>8. RescanIsOnTime'
    BY <1>6 DEF RescanIsOnTime
  <2> QED
    BY <2>3, <2>5, <2>6, <2>7, <2>8 DEF ScanInv
<1> QED
  BY <1>4, <1>5, <1>6 DEF Rescan

(* The restore puts the radio back home.                                   *)
LEMMA RestoreInv ==
    ASSUME ScanInv, Restore
    PROVE  ScanInv'
<1>1. /\ TypeOK /\ RadiosAtHome /\ AwayOnlyToListen /\ VisitedAreLast /\ RescanIsOnTime
  BY DEF ScanInv
<1>2. /\ 0 \in restores
      /\ UNCHANGED <<type, dom, joined, prev, since, home, idx, adhoc, timer, count,
                     visited, hopped, delayed, scanned, aborted>>
  BY DEF Restore, context, history
<1>3. \/ restores' = (restores \ {0}) \union {1} /\ sta' = sta
      \/ restores' = restores \ {0} /\ sta' = home
  BY DEF Restore
<1>4. TypeOK'
  <2>1. 1 \in 0..RestoreTime
    BY TimesAssumption
  <2>2. restores' \subseteq 0..RestoreTime
    BY <1>1, <1>3, <2>1 DEF TypeOK
  <2> QED
    BY <1>1, <1>2, <1>3, <2>2 DEF TypeOK
<1>5. RadiosAtHome'
  BY <1>1, <1>2, <1>3 DEF RadiosAtHome, handover
<1>6. AwayOnlyToListen'
  BY <1>1, <1>2 DEF AwayOnlyToListen
<1>7. VisitedAreLast'
  BY <1>1, <1>2 DEF VisitedAreLast, StepsBack
<1>8. RescanIsOnTime'
  BY <1>1, <1>2 DEF RescanIsOnTime
<1> QED
  BY <1>4, <1>5, <1>6, <1>7, <1>8 DEF ScanInv

-----------------------------------------------------------------------------
(* The two steps of the discovery scan move the Ad-Hoc radio and its two   *)
(* timers only.                                                            *)
LEMMA DiscoveryFrame ==
    ASSUME ScanInv,
           UNCHANGED <<type, dom, joined, prev, since, home, sta, idx, restores, count,
                       visited, hopped, delayed, scanned, aborted>>,
           timer' \in Timers, adhoc' \in Domains,
           timer'.hop = timer.hop, timer'.rescan = timer.rescan,
           dom = None => timer'.scan = Off /\ timer'.listen = Off,
           AwayOnlyToListen'
    PROVE  ScanInv'
<1>1. /\ TypeOK /\ RadiosAtHome /\ VisitedAreLast /\ RescanIsOnTime
  BY DEF ScanInv
<1>2. TypeOK'
  BY <1>1 DEF TypeOK, Timers
<1>3. RadiosAtHome'
  BY <1>1 DEF RadiosAtHome, handover
<1>4. VisitedAreLast'
  BY <1>1 DEF VisitedAreLast, StepsBack
<1>5. RescanIsOnTime'
  BY <1>1 DEF RescanIsOnTime
<1> QED
  BY <1>2, <1>3, <1>4, <1>5 DEF ScanInv

LEMMA ScanStepInv ==
    ASSUME ScanInv, Scan
    PROVE  ScanInv'
<1>1. TypeOK /\ RadiosAtHome /\ AwayOnlyToListen
  BY DEF ScanInv
<1>2. /\ timer.scan = 0
      /\ UNCHANGED <<type, dom, joined, prev, since, home, sta, idx, restores, count,
                     visited, hopped, delayed, scanned, aborted>>
  BY DEF Scan, context, history
<1>3. /\ timer \in Timers /\ adhoc \in Domains /\ Discovery \in Domains
      /\ ScanPeriod \in Nat \ {0} /\ ListenTime \in Nat \ {0}
  BY <1>1, TimesAssumption, DomainsAssumption DEF TypeOK, Timers
<1>4. timer.scan # Off /\ dom # None /\ ListenTime # Off /\ 1 # Off
  BY <1>1, <1>2, <1>3, OffIsNoNumber DEF RadiosAtHome
<1>5. CASE type # "AP" /\ timer' = [timer EXCEPT !.scan = Off] /\ adhoc' = adhoc
  <2>1. /\ timer' \in Timers
        /\ timer'.hop = timer.hop /\ timer'.rescan = timer.rescan
    BY <1>3, <1>5 DEF Timers, Timer
  <2>2. AwayOnlyToListen'
    BY <1>2, <1>5 DEF AwayOnlyToListen
  <2> QED
    BY <1>2, <1>3, <1>4, <1>5, <2>1, <2>2, DiscoveryFrame
<1>6. CASE type = "AP" /\ timer' = [timer EXCEPT !.scan = 1] /\ adhoc' = adhoc
  <2>1. /\ timer' \in Timers
        /\ timer'.hop = timer.hop /\ timer'.rescan = timer.rescan
        /\ timer'.scan = 1 /\ timer'.listen = timer.listen
    BY <1>3, <1>6 DEF Timers, Timer
  <2>2. AwayOnlyToListen'
    BY <1>1, <1>2, <1>4, <1>6, <2>1 DEF AwayOnlyToListen
  <2> QED
    BY <1>2, <1>3, <1>4, <1>6, <2>1, <2>2, DiscoveryFrame
<1>7. CASE /\ type = "AP" /\ adhoc' = Discovery
           /\ timer' = [timer EXCEPT !.scan = Off, !.listen = ListenTime]
  <2>1. /\ timer' \in Timers
        /\ timer'.hop = timer.hop /\ timer'.rescan = timer.rescan
        /\ timer'.scan = Off /\ timer'.listen = ListenTime
    <3> DEFINE idle == [timer EXCEPT !.scan = Off]
    <3>1. /\ idle \in Timers /\ idle.hop = timer.hop
          /\ idle.rescan = timer.rescan /\ idle.scan = Off
      BY <1>3 DEF Timers, Timer
    <3>2. timer' = [idle EXCEPT !.listen = ListenTime]
      BY <1>7
    <3> HIDE DEF idle
    <3> QED
      BY <1>3, <3>1, <3>2 DEF Timers, Timer
  <2>2. AwayOnlyToListen'
    BY <1>2, <1>4, <1>7, <2>1 DEF AwayOnlyToListen
  <2> QED
    BY <1>2, <1>3, <1>4, <1>7, <2>1, <2>2, DiscoveryFrame
<1> QED
  BY <1>5, <1>6, <1>7 DEF Scan

LEMMA RestoreAdhocInv ==
    ASSUME ScanInv, RestoreAdhoc
    PROVE  ScanInv'
<1>1. TypeOK /\ RadiosAtHome /\ AwayOnlyToListen
  BY DEF ScanInv
<1>2. /\ timer.listen = 0
      /\ UNCHANGED <<type, dom, joined, prev, since, home, sta, idx, restores, count,
                     visited, hopped, delayed, scanned, aborted>>
  BY DEF RestoreAdhoc, context, history
<1>3. /\ timer \in Timers /\ adhoc \in Domains /\ dom \in Domains \union {None}
      /\ ScanPeriod \in Nat \ {0} /\ ListenTime \in Nat \ {0}
  BY <1>1, TimesAssumption DEF TypeOK, Timers
<1>4. timer.listen # Off /\ dom # None /\ ScanPeriod # Off /\ 1 # Off
  BY <1>1, <1>2, <1>3, OffIsNoNumber DEF RadiosAtHome
<1>5. CASE type # "AP" /\ timer' = [timer EXCEPT !.listen = Off] /\ adhoc' = adhoc
  <2>1. /\ timer' \in Timers
        /\ timer'.hop = timer.hop /\ timer'.rescan = timer.rescan
    BY <1>3, <1>5 DEF Timers, Timer
  <2>2. AwayOnlyToListen'
    BY <1>2, <1>5 DEF AwayOnlyToListen
  <2> QED
    BY <1>2, <1>3, <1>4, <1>5, <2>1, <2>2, DiscoveryFrame
<1>6. CASE type = "AP" /\ timer' = [timer EXCEPT !.listen = 1] /\ adhoc' = adhoc
  <2>1. /\ timer' \in Timers
        /\ timer'.hop = timer.hop /\ timer'.rescan = timer.rescan
        /\ timer'.listen = 1 /\ timer'.scan = timer.scan
    BY <1>3, <1>6 DEF Timers, Timer
  <2>2. AwayOnlyToListen'
    BY <1>1, <1>2, <1>4, <1>6, <2>1 DEF AwayOnlyToListen
  <2> QED
    BY <1>2, <1>3, <1>4, <1>6, <2>1, <2>2, DiscoveryFrame
<1>7. CASE type = "AP" /\ adhoc' = dom /\ timer' = ListenAgain
  <2>1. /\ timer' \in Timers
        /\ timer'.hop = timer.hop /\ timer'.rescan = timer.rescan
        /\ timer'.listen = Off /\ timer'.scan = ScanPeriod
    <3> DEFINE idle == [timer EXCEPT !.listen = Off]
    <3>1. /\ idle \in Timers /\ idle.hop = timer.hop
          /\ idle.rescan = timer.rescan /\ idle.listen = Off
      BY <1>3 DEF Timers, Timer
    <3>2. timer' = [idle EXCEPT !.scan = ScanPeriod]
      BY <1>7 DEF ListenAgain
    <3> HIDE DEF idle
    <3> QED
      BY <1>3, <3>1, <3>2 DEF Timers, Timer
  <2>2. AwayOnlyToListen'
    BY <1>2, <1>4, <1>7, <2>1 DEF AwayOnlyToListen
  <2> QED
    BY <1>2, <1>3, <1>4, <1>7, <2>1, <2>2, DiscoveryFrame
<1> QED
  BY <1>5, <1>6, <1>7 DEF RestoreAdhoc

-----------------------------------------------------------------------------
(* A switch sets both radios and all timers; only a terminal joined through *)
(* an access point prepares a handover to the Ad-Hoc side, and it did not  *)
(* hop.                                                                    *)
LEMMA ExecuteSwitchInv ==
    ASSUME ScanInv, NEW t \in Types, NEW d \in Domains, ExecuteSwitch(t, d)
    PROVE  ScanInv'
<1>1. /\ TypeOK /\ RadiosAtHome /\ VisitedAreLast
  BY DEF ScanInv
<1>2. /\ ~handover
      /\ type' = t /\ dom' = d /\ joined' = TRUE /\ since' = 0
      /\ home' = ChannelOf[d] /\ sta' = ChannelOf[d] /\ adhoc' = d
      /\ timer' = [hop |-> HoppingAfter(t), rescan |-> RescanPeriod,
                   scan |-> IF t = "AP" THEN ScanPeriod ELSE Off, listen |-> Off]
      /\ ResetRescan
      /\ delayed' = FALSE /\ scanned' = FALSE /\ aborted' = FALSE
      /\ idx' = idx /\ restores' = restores
  BY DEF ExecuteSwitch
<1>3. \/ joined /\ t # type /\ prev' = [type |-> type, dom |-> dom]
      \/ prev' = NoContext
  BY <1>2 DEF ExecuteSwitch, BeginHandover, handover
<1>4. /\ RescanPeriod \in Nat /\ RescanTime \in Nat \ {0}
      /\ ScanPeriod \in Nat \ {0} /\ HopTime \in Nat
      /\ Dwell \in Nat /\ None \notin Domains
      /\ ChannelOf[d] \in Channels
      /\ NChannels \in Nat \ {0}
  BY TimesAssumption, DomainsAssumption
<1>5. ScanPeriod # Off /\ RescanPeriod # Off
  BY <1>4, OffIsNoNumber
<1>6. timer \in Timers /\ HoppingAfter(t) \in Timer(HopTime)
  BY <1>1 DEF TypeOK, Timers, Timer, HoppingAfter
<1>7. timer' \in Timers
  BY <1>2, <1>4, <1>6 DEF Timers, Timer
<1>8. /\ count' = 0 /\ visited' = {} /\ hopped' = FALSE
      /\ count' \in Channels /\ VisitedAreLast'
  BY <1>1, <1>2, ResetVisited DEF TypeOK
<1>9. TypeOK'
  <2>1. prev' \in [type : Types, dom : Domains \union {None}]
    BY <1>1, <1>3 DEF TypeOK, NoContext, Types
  <2>2. /\ type' \in Types /\ dom' \in Domains \union {None}
        /\ joined' \in BOOLEAN /\ adhoc' \in Domains
        /\ hopped' \in BOOLEAN /\ delayed' \in BOOLEAN
        /\ scanned' \in BOOLEAN /\ aborted' \in BOOLEAN
    BY <1>2, <1>8
  <2>3. since' \in 0..Dwell
    BY <1>2, <1>4
  <2>4. /\ home' \in Channels /\ sta' \in Channels /\ idx' \in Channels
        /\ restores' \subseteq 0..RestoreTime
    BY <1>1, <1>2, <1>4 DEF TypeOK
  <2>5. count' \in Channels /\ visited' \subseteq Channels
    BY <1>8
  <2> QED
    BY <1>7, <2>1, <2>2, <2>3, <2>4, <2>5 DEF TypeOK, Timers
<1>10. RadiosAtHome'
  <2>1. handover' => prev'.dom # None
    BY <1>1, <1>3 DEF RadiosAtHome, handover
  <2>2. type' = "AP" \/ handover' => timer'.hop = Off
    <3>1. CASE t = "AP"
      BY <1>2, <3>1 DEF HoppingAfter
    <3>2. CASE t # "AP"
      <4>1. handover' => joined /\ type = "AP"
        BY <1>1, <1>3, <3>2 DEF handover, Types, TypeOK
      <4>2. timer'.hop = timer.hop
        BY <1>2, <3>2 DEF HoppingAfter
      <4> QED
        BY <1>1, <1>2, <3>2, <4>1, <4>2 DEF RadiosAtHome
    <3> QED
      BY <3>1, <3>2
  <2> QED
    BY <1>2, <1>4, <2>1, <2>2 DEF RadiosAtHome
<1>11. AwayOnlyToListen'
  BY <1>2, <1>5 DEF AwayOnlyToListen
<1>12. RescanIsOnTime'
  <2>1. timer'.rescan = RescanPeriod /\ since' = 0 /\ count' = 0
    BY <1>2, <1>8
  <2>2. \A x \in Nat : 0 + RescanPeriod + x <= RescanPeriod + x
    BY <1>4
  <2>3. 0 \in Channels /\ (NChannels - 1 - 0) * RescanTime \in Nat
    BY <1>4, TimeLeft DEF Channels
  <2>4. NChannels - 1 - 0 = NChannels - 1
    BY <1>4
  <2> QED
    BY <1>5, <2>1, <2>2, <2>3, <2>4 DEF RescanIsOnTime
<1> QED
  BY <1>8, <1>9, <1>10, <1>11, <1>12 DEF ScanInv

LEMMA CommitInv ==
    ASSUME ScanInv, CommitHandover
    PROVE  ScanInv'
<1>1. /\ TypeOK /\ RadiosAtHome /\ AwayOnlyToListen /\ VisitedAreLast /\ RescanIsOnTime
  BY DEF ScanInv
<1>2. /\ handover /\ prev' = NoContext
      /\ UNCHANGED <<type, dom, joined, since, home, sta, idx, adhoc, timer, restores,
                     count, visited, hopped, delayed, scanned, aborted>>
  BY DEF CommitHandover, history
<1>3. TypeOK'
  <2>1. prev' \in [type : Types, dom : Domains \union {None}]
    BY <1>2 DEF NoContext, Types
  <2> QED
    BY <1>1, <1>2, <2>1 DEF TypeOK
<1>4. RadiosAtHome'
  BY <1>1, <1>2 DEF RadiosAtHome, handover
<1>5. AwayOnlyToListen'
  BY <1>1, <1>2 DEF AwayOnlyToListen
<1>6. VisitedAreLast'
  BY <1>1, <1>2 DEF VisitedAreLast, StepsBack
<1>7. RescanIsOnTime'
  BY <1>1, <1>2 DEF RescanIsOnTime
<1> QED
  BY <1>3, <1>4, <1>5, <1>6, <1>7 DEF ScanInv

(* An abort changes the context under radios and timers that stay: nobody  *)
(* hops during a handover, so that nobody does after it.                   *)
LEMMA AbortInv ==
    ASSUME ScanInv, AbortHandover
    PROVE  ScanInv'
<1>1. /\ TypeOK /\ RadiosAtHome /\ AwayOnlyToListen /\ VisitedAreLast /\ RescanIsOnTime
  BY DEF ScanInv
<1>2. /\ handover /\ joined /\ prev' = NoContext
      /\ type' = prev.type /\ dom' = prev.dom /\ aborted' = TRUE
      /\ UNCHANGED <<joined, since, home, sta, idx, adhoc, timer, restores, count,
                     visited, hopped, delayed, scanned>>
  BY DEF AbortHandover
<1>3. dom # None /\ dom' # None
  BY <1>1, <1>2 DEF RadiosAtHome
<1>4. TypeOK'
  <2>1. /\ prev' \in [type : Types, dom : Domains \union {None}]
        /\ type' \in Types /\ dom' \in Domains \union {None}
    BY <1>1, <1>2 DEF TypeOK, NoContext, Types
  <2> QED
    BY <1>1, <1>2, <2>1 DEF TypeOK
<1>5. RadiosAtHome'
  BY <1>1, <1>2, <1>3 DEF RadiosAtHome, handover
<1>6. AwayOnlyToListen'
  BY <1>2 DEF AwayOnlyToListen
<1>7. VisitedAreLast'
  BY <1>1, <1>2 DEF VisitedAreLast, StepsBack
<1>8. RescanIsOnTime'
  BY <1>1, <1>2, <1>3 DEF RescanIsOnTime
<1> QED
  BY <1>4, <1>5, <1>6, <1>7, <1>8 DEF ScanInv

LEMMA FallbackInv ==
    ASSUME ScanInv, FallbackAndRescan
    PROVE  ScanInv'
<1>1. /\ TypeOK /\ RadiosAtHome /\ VisitedAreLast /\ RescanIsOnTime
  BY DEF ScanInv
<1>2. /\ joined /\ joined' = FALSE /\ type' = "AP"
      /\ UNCHANGED <<dom, prev, since, home, adhoc, restores, count,
                     visited, delayed, scanned, aborted>>
  BY DEF FallbackAndRescan
<1>3. timer \in Timers /\ HopTime \in Nat
  BY <1>1, TimesAssumption DEF TypeOK, Timers
<1>4. /\ sta' \in Channels /\ idx' \in Channels /\ hopped' \in BOOLEAN
      /\ ~hopped' => ~hopped /\ idx' = idx
      /\ timer' \in Timers
      /\ timer'.rescan = timer.rescan /\ timer'.scan = timer.scan
      /\ timer'.listen = timer.listen
  <2>1. CASE timer.hop = Off
    <3>1. /\ sta' \in Channels /\ idx' \in Channels /\ hopped' \in BOOLEAN
          /\ timer' = [timer EXCEPT !.hop = timer'.hop]
          /\ timer'.hop \in 0..HopTime
          /\ ~hopped' => ~hopped /\ idx' = idx
      BY <1>1, <2>1, SwitchingChannels DEF FallbackAndRescan
    <3> QED
      BY <1>3, <3>1 DEF Timers, Timer
  <2>2. CASE timer.hop # Off
    <3>1. timer' = timer /\ sta' = sta /\ idx' = idx /\ hopped' = hopped
      BY <2>2 DEF FallbackAndRescan
    <3> QED
      BY <1>1, <1>3, <3>1 DEF TypeOK
  <2> QED
    BY <2>1, <2>2
<1>5. TypeOK'
  BY <1>1, <1>2, <1>4 DEF TypeOK, Timers, Types
<1>6. RadiosAtHome'
  BY <1>1, <1>2, <1>4 DEF RadiosAtHome, handover
<1>7. AwayOnlyToListen'
  BY <1>2 DEF AwayOnlyToListen
<1>8. VisitedAreLast'
  BY <1>1, <1>2, <1>4 DEF VisitedAreLast, StepsBack
<1>9. RescanIsOnTime'
  BY <1>1, <1>2, <1>4 DEF RescanIsOnTime
<1> QED
  BY <1>5, <1>6, <1>7, <1>8, <1>9 DEF ScanInv

(* Time: what is left of a rescan shrinks as the time since the switch     *)
(* grows.                                                                  *)
LEMMA SoonerTimer ==
    ASSUME NEW max \in Nat, NEW t \in Timer(max), t # 0
    PROVE  /\ Sooner(t) \in Timer(max)
           /\ Sooner(t) = Off <=> t = Off
           /\ t # Off => Sooner(t) = t - 1 /\ t \in 1..max
  BY OffIsNoNumber DEF Timer, Sooner

LEMMA TickInv ==
    ASSUME ScanInv, Tick
    PROVE  ScanInv'
<1>1. /\ TypeOK /\ RadiosAtHome /\ AwayOnlyToListen /\ VisitedAreLast /\ RescanIsOnTime
  BY DEF ScanInv
<1>2. /\ timer.hop # 0 /\ timer.rescan # 0 /\ timer.scan # 0 /\ timer.listen # 0
      /\ 0 \notin restores
      /\ timer' = [hop |-> Sooner(timer.hop), rescan |-> Sooner(timer.rescan),
                   scan |-> Sooner(timer.scan), listen |-> Sooner(timer.listen)]
      /\ restores' = {r - 1 : r \in restores}
      /\ since' = IF since < Dwell THEN since + 1 ELSE since
      /\ UNCHANGED <<type, dom, joined, prev, home, sta, idx, adhoc, count,
                     visited, hopped, delayed, scanned, aborted>>
  BY DEF Tick, Due, context, history
<1>3. /\ timer \in Timers
      /\ HopTime \in Nat /\ RescanPeriod + RescanTime \in Nat /\ ScanPeriod \in Nat
      /\ ListenTime \in Nat /\ RestoreTime \in Nat /\ Dwell \in Nat
  BY <1>1, TimesAssumption DEF TypeOK, Timers
<1>4. /\ timer.hop \in Timer(HopTime) /\ timer.rescan \in Timer(RescanPeriod + RescanTime)
      /\ timer.scan \in Timer(ScanPeriod) /\ timer.listen \in Timer(ListenTime)
  BY <1>3 DEF Timers
<1>5. /\ timer'.hop = Sooner(timer.hop) /\ timer'.rescan = Sooner(timer.rescan)
      /\ timer'.scan = Sooner(timer.scan) /\ timer'.listen = Sooner(timer.listen)
  BY <1>2
<1>6. /\ timer'.hop \in Timer(HopTime) /\ timer'.rescan \in Timer(RescanPeriod + RescanTime)
      /\ timer'.scan \in Timer(ScanPeriod) /\ timer'.listen \in Timer(ListenTime)
      /\ timer'.hop = Off <=> timer.hop = Off
      /\ timer'.rescan = Off <=> timer.rescan = Off
      /\ timer'.scan = Off <=> timer.scan = Off
      /\ timer'.listen = Off <=> timer.listen = Off
  BY <1>2, <1>3, <1>4, <1>5, SoonerTimer
<1>7. timer' \in Timers
  BY <1>2, <1>5, <1>6 DEF Timers
<1>8. TypeOK'
  <2>1. since' \in 0..Dwell
    BY <1>1, <1>2, <1>3 DEF TypeOK
  <2>2. restores' \subseteq 0..RestoreTime
    <3>1. \A r \in restores : r \in 1..RestoreTime
      BY <1>1, <1>2, <1>3 DEF TypeOK
    <3> QED
      BY <1>2, <1>3, <3>1
  <2> QED
    BY <1>1, <1>2, <1>7, <2>1, <2>2 DEF TypeOK, Timers
<1>9. RadiosAtHome'
  BY <1>1, <1>2, <1>6 DEF RadiosAtHome, handover
<1>10. AwayOnlyToListen'
  BY <1>1, <1>2, <1>6 DEF AwayOnlyToListen
<1>11. VisitedAreLast'
  BY <1>1, <1>2 DEF VisitedAreLast, StepsBack
<1>12. RescanIsOnTime'
  <2> SUFFICES ASSUME dom # None, ~delayed, ~scanned
               PROVE  /\ timer'.rescan # Off
                      /\ since' + timer'.rescan + (NChannels - 1 - count) * RescanTime
                           <= RescanPeriod + (NChannels - 1) * RescanTime
    BY <1>2 DEF RescanIsOnTime
  <2> DEFINE Left == (NChannels - 1 - count) * RescanTime
             Bound == RescanPeriod + (NChannels - 1) * RescanTime
  <2>1. timer.rescan # Off /\ since + timer.rescan + Left <= Bound
    BY <1>1 DEF RescanIsOnTime
  <2>2. timer.rescan \in 1..(RescanPeriod + RescanTime) /\ timer'.rescan = timer.rescan - 1
    BY <1>2, <1>3, <1>4, <1>5, <2>1, SoonerTimer
  <2>3. Left \in Nat
    BY <1>1, TimeLeft DEF TypeOK
  <2>4. Bound \in Int
    <3>1. 0 \in Channels /\ NChannels - 1 - 0 = NChannels - 1
      BY DomainsAssumption DEF Channels
    <3>2. (NChannels - 1) * RescanTime \in Nat
      BY <3>1, TimeLeft
    <3> QED
      BY <3>2, TimesAssumption
  <2>5. since \in Nat /\ since' <= since + 1 /\ since' \in Nat
    BY <1>1, <1>2, <1>3 DEF TypeOK
  <2> HIDE DEF Left, Bound
  <2>6. since' + timer'.rescan + Left <= Bound
    BY <1>3, <2>1, <2>2, <2>3, <2>4, <2>5
  <2> QED
    BY <1>6, <2>1, <2>6 DEF Left, Bound
<1> QED
  BY <1>8, <1>9, <1>10, <1>11, <1>12 DEF ScanInv

-----------------------------------------------------------------------------
LEMMA NextInv ==
    ASSUME ScanInv, [Next]_vars
    PROVE  ScanInv'
<1>1. CASE UNCHANGED vars
  <2>1. UNCHANGED <<type, dom, joined, prev, since, home, sta, idx, adhoc, timer, restores,
                    count, visited, hopped, delayed, scanned, aborted>>
    BY <1>1 DEF vars, context, history
  <2>2. TypeOK'
    BY <2>1 DEF ScanInv, TypeOK
  <2>3. RadiosAtHome' /\ AwayOnlyToListen' /\ RescanIsOnTime'
    BY <2>1 DEF ScanInv, RadiosAtHome, handover, AwayOnlyToListen, RescanIsOnTime
  <2>4. VisitedAreLast'
    BY <2>1 DEF ScanInv, VisitedAreLast, StepsBack
  <2> QED
    BY <2>2, <2>3, <2>4 DEF ScanInv
<1>2. CASE Hop
  BY <1>2, HopInv
<1>3. CASE Rescan
  BY <1>3, RescanInv
<1>4. CASE Restore
  BY <1>4, RestoreInv
<1>5. CASE Scan
  BY <1>5, ScanStepInv
<1>6. CASE RestoreAdhoc
  BY <1>6, RestoreAdhocInv
<1>7. ASSUME NEW t \in Types, NEW d \in Domains, ExecuteSwitch(t, d)
      PROVE  ScanInv'
  BY <1>7, ExecuteSwitchInv
<1>8. CASE CommitHandover
  BY <1>8, CommitInv
<1>9. CASE AbortHandover
  BY <1>9, AbortInv
<1>10. CASE FallbackAndRescan
  BY <1>10, FallbackInv
<1>11. CASE Tick
  BY <1>11, TickInv
<1> QED
  BY <1>1, <1>2, <1>3, <1>4, <1>5, <1>6, <1>7, <1>8, <1>9, <1>10, <1>11 DEF Next, Switching

(* The inductive invariant holds for every number of channels and all      *)
(* times.                                                                  *)
THEOREM ScanInvariant == Spec => []ScanInv
<1>1. Init => ScanInv
  BY InitScan
<1>2. ScanInv /\ [Next]_vars => ScanInv'
  BY NextInv
<1> QED
  BY <1>1, <1>2, PTL DEF Spec

(* The radios' variables keep their types; no timer exceeds its period.    *)
THEOREM TypeCorrect == Spec => []TypeOK
<1>1. ScanInv => TypeOK
  BY DEF ScanInv
<1> QED
  BY <1>1, ScanInvariant, PTL

(* No timer of an earlier network takes the STA radio away from an access  *)
(* point.                                                                  *)
THEOREM StaComesHome == Spec => []HomeBetweenScans
<1>1. ScanInv => HomeBetweenScans
  BY DEF ScanInv, RadiosAtHome, HomeBetweenScans
<1> QED
  BY <1>1, ScanInvariant, PTL

(* The Ad-Hoc radio is at home with a scan to come, or away with the       *)
(* return to come.                                                         *)
THEOREM AdhocComesHome == Spec => []AwayOnlyToListen
<1>1. ScanInv => AwayOnlyToListen
  BY DEF ScanInv
<1> QED
  BY <1>1, ScanInvariant, PTL

(* A rescan that no hop disturbs visits as many channels as it has steps.  *)
THEOREM RescanSeesNewChannels == Spec => []NoChannelTwice
<1>1. ScanInv => NoChannelTwice
  BY DEF ScanInv, VisitedAreLast, NoChannelTwice
<1> QED
  BY <1>1, ScanInvariant, PTL

(* A rescan that no busy radio delays is complete before the dwell time    *)
(* ends.                                                                   *)
THEOREM RescanBeatsDwell == Spec => []ScannedBeforeLeaving
<1>1. ScanInv => ScannedBeforeLeaving
  <2> SUFFICES ASSUME ScanInv, dom # None, ~delayed, since = Dwell, ~scanned
               PROVE  FALSE
    BY DEF ScannedBeforeLeaving
  <2> DEFINE Left == (NChannels - 1 - count) * RescanTime
             Bound == RescanPeriod + (NChannels - 1) * RescanTime
  <2>1. timer.rescan # Off /\ Dwell + timer.rescan + Left <= Bound
    BY DEF ScanInv, RescanIsOnTime
  <2>2. Left \in Nat
    BY TimeLeft DEF ScanInv, TypeOK
  <2>3. timer.rescan \in Nat
    BY <2>1, TimesAssumption DEF ScanInv, TypeOK, Timer
  <2>4. Bound < Dwell /\ Dwell \in Nat
    BY TimesAssumption
  <2>5. Bound \in Int
    <3>1. 0 \in Channels /\ NChannels - 1 - 0 = NChannels - 1
      BY DomainsAssumption DEF Channels
    <3>2. (NChannels - 1) * RescanTime \in Nat
      BY <3>1, TimeLeft
    <3> QED
      BY <3>2, TimesAssumption
  <2> HIDE DEF Left, Bound
  <2> QED
    BY <2>1, <2>2, <2>3, <2>4, <2>5
<1> QED
  BY <1>1, ScanInvariant, PTL
=============================================================================

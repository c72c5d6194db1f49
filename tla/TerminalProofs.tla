---------------------------- MODULE TerminalProofs ----------------------------
(***************************************************************************)
(* The terminal's engine, for any registered domains, any retry limit and  *)
(* any number of frames on the air: its variables keep their types, and a  *)
(* terminal that waits for an address retries; and, where no domain has    *)
(* both an access point and an Ad-Hoc network to join and a busy radio is  *)
(* free before the next evaluation, it keeps its invariants, its handovers *)
(* have a deadline and it implements SoftHandover.                         *)
(***************************************************************************)
EXTENDS Terminal, TLAPS

-----------------------------------------------------------------------------
(* Types. *)

(* The data types, with their definitions used once. *)
LEMMA DomainsAreNumbers == Domains \subseteq Nat \ {0} /\ 0 \notin Domains
  BY DomainsAssumption

LEMMA ZeroIsACount == 0 \in 0..MaxRetries
  BY BoundsAssumption

LEMMA AddressTypes ==
    /\ \A i \in Interfaces, d \in Domains :
          /\ Leased(i, d) \in Addresses /\ Fixed(i, d) \in Addresses
          /\ Leased(i, d) # NoAddr /\ Fixed(i, d) # NoAddr
    /\ NoAddr \notin Addresses
    /\ \A i \in Interfaces : Other(i) \in Interfaces /\ Other(i) # i
  BY DomainsAreNumbers DEF Leased, Fixed, Addresses, NoAddr, Interfaces, Other

LEMMA RouteTypes ==
    ASSUME NEW r \in Routes \union {NoRoute}, NEW a \in Addresses \union {NoAddr}
    PROVE  RouteVia(r, a) \in Routes \union {NoRoute}
  BY DEF RouteVia, Routes, Addresses

LEMMA ActivatedTypes ==
    ASSUME NEW c \in Contexts, NEW i \in Interfaces, NEW a \in Addresses \union {NoAddr}
    PROVE  /\ Activated(c, i, a) \in Contexts
           /\ Activated(c, i, a).plane = i
           /\ Activated(c, i, a).ip = IF a = NoAddr THEN c.ip ELSE a
           /\ Activated(c, i, a).dom = c.dom /\ Activated(c, i, a).type = c.type
           /\ Activated(c, i, a).net = c.net /\ Activated(c, i, a).attached = c.attached
  <1> DEFINE ip == IF a = NoAddr THEN c.ip ELSE a
  <1>1. ip \in Addresses \union {NoAddr}
    BY DEF Contexts
  <1>2. Activated(c, i, a) = [c EXCEPT !.plane = i, !.ip = ip]
    BY DEF Activated
  <1> HIDE DEF ip
  <1>3. Activated(c, i, a) \in Contexts
    BY <1>1, <1>2 DEF Contexts
  <1>4. /\ Activated(c, i, a).plane = i /\ Activated(c, i, a).ip = ip
        /\ Activated(c, i, a).dom = c.dom /\ Activated(c, i, a).type = c.type
        /\ Activated(c, i, a).net = c.net /\ Activated(c, i, a).attached = c.attached
    BY <1>1, <1>2 DEF Contexts
  <1> QED
    BY <1>3, <1>4 DEF ip

LEMMA SentTypes ==
    ASSUME NEW f \in Frames, air \subseteq Frames
    PROVE  Sent(f) \subseteq Frames /\ Sent(f) \subseteq air \union {f} /\ air \subseteq Sent(f)
  BY DEF Sent

LEMMA CandidateTypes ==
    ASSUME NEW n \in Candidates
    PROVE  /\ n \in Networks /\ n.dom \in Domains /\ n.dom # 0 /\ n.type \in Interfaces
           /\ n.dom \in DomainsOf(n.type) /\ n = [type |-> n.type, dom |-> n.dom]
  BY DomainsAreNumbers DEF Candidates, Networks

TypeInv == TypeOK /\ ScheduleInv

LEMMA SwitchTypes ==
    ASSUME TypeInv, NEW n \in Candidates, ExecuteSwitch(n), deferred' \subseteq Candidates
    PROVE  TypeInv'
  <1> USE DEF TypeInv, TypeOK
  <1> DEFINE standby == Fixed(Other(n.type), n.dom)
  <1>1. /\ n \in Networks /\ n.dom \in Domains /\ n.dom # 0 /\ n.type \in Interfaces
        /\ Other(n.type) \in Interfaces
        /\ standby \in Addresses
    BY CandidateTypes, AddressTypes
  <1>2. /\ Entered(n) \in Contexts
        /\ Entered(n).dom = n.dom
    BY <1>1 DEF Entered, Contexts
  <1>3. KeptAddresses(n) \in [Interfaces -> Addresses \union {NoAddr}]
    BY DEF KeptAddresses
  <1>4. cur' \in Contexts /\ cur'.dom = n.dom
    <2>1. CASE handover'
      BY <1>2, <2>1 DEF ExecuteSwitch
    <2>2. CASE ~handover'
      <3> DEFINE a == KeptAddresses(n)[n.type]
      <3>1. a \in Addresses \union {NoAddr}
        BY <1>1, <1>3
      <3>2. cur' = Activated(Entered(n), n.type, a)
        BY <2>2 DEF ExecuteSwitch
      <3> HIDE DEF a
      <3> QED
        BY <1>1, <1>2, <3>1, <3>2, ActivatedTypes
    <2> QED
      BY <2>1, <2>2
  <1>5. /\ handover' \in BOOLEAN /\ prev' \in Contexts
        /\ handover' => prev'.dom # 0
    BY DEF ExecuteSwitch, BeginHandover, CanSoftHandover, ScheduleInv, Contexts
  <1>6. addr' \in [Interfaces -> Addresses \union {NoAddr}]
    BY <1>1, <1>3 DEF ExecuteSwitch
  <1>7. route' \in Routes \union {NoRoute}
    BY <1>1, RouteTypes DEF ExecuteSwitch
  <1>8. air' \subseteq Frames
    <2>1. cur.ip # NoAddr =>
             [kind |-> "release", dom |-> n.dom, addr |-> cur.ip] \in Frames
      BY <1>1 DEF Contexts, Frames
    <2> QED
      BY <2>1, SentTypes DEF ExecuteSwitch, ReleaseOldAddress
  <1>9. /\ pending' \in [Interfaces -> Pendings \union {NoPending}]
        /\ count' \in [Interfaces -> 0..MaxRetries]
    BY BoundsAssumption DEF ExecuteSwitch
  <1>10. /\ reqTimer' \in [Interfaces -> BOOLEAN] /\ retryTimer' \in [Interfaces -> BOOLEAN]
         /\ bcast' \in BOOLEAN /\ UNCHANGED <<stray, grace>>
    BY DEF ExecuteSwitch
  <1>11. /\ radio' \in [Interfaces -> Domains \union {0}]
         /\ \A i \in Interfaces : radio'[i] = n.dom
    BY <1>1 DEF ExecuteSwitch
  <1>12. scan' \in {"off", "due", "listening"} /\ (scan' # "off" => DiscoveryDomain # 0)
    BY DEF ExecuteSwitch
  <1> QED
    BY <1>1, <1>4, <1>5, <1>6, <1>7, <1>8, <1>9, <1>10, <1>11, <1>12 DEF ScheduleInv

LEMMA AbortTypes ==
    ASSUME TypeInv, handover, AbortHandover
    PROVE  /\ cur' \in Contexts /\ cur'.dom # 0 /\ handover' = FALSE
           /\ route' \in Routes \union {NoRoute}
           /\ reqTimer' \in [Interfaces -> BOOLEAN]
           /\ retryTimer' \in [Interfaces -> BOOLEAN]
           /\ UNCHANGED <<pending, count, bcast>>
  <1> DEFINE a == addr[prev.plane]
  <1>1. prev \in Contexts /\ prev.plane \in Interfaces /\ a \in Addresses \union {NoAddr}
    BY DEF TypeInv, TypeOK, Contexts
  <1>2. cur' = Activated(prev, prev.plane, a) /\ route' = RouteVia(route, a)
    BY DEF AbortHandover
  <1>3. prev.dom # 0 /\ route \in Routes \union {NoRoute}
    BY DEF TypeInv, TypeOK, ScheduleInv
  <1> HIDE DEF a
  <1>4. cur' \in Contexts /\ cur'.dom # 0 /\ route' \in Routes \union {NoRoute}
    BY <1>1, <1>2, <1>3, ActivatedTypes, RouteTypes
  <1> QED
    BY <1>4 DEF AbortHandover

LEMMA FallbackTypes ==
    ASSUME TypeInv, FallbackAndRescan
    PROVE  /\ cur' \in Contexts /\ cur'.dom = cur.dom /\ cur'.ip = NoAddr
           /\ retryTimer' \in [Interfaces -> BOOLEAN]
           /\ count' \in [Interfaces -> 0..MaxRetries]
           /\ pending' \in [Interfaces -> Pendings \union {NoPending}]
           /\ bcast' \in BOOLEAN
           /\ UNCHANGED <<handover, route, reqTimer>>
  <1>1. cur' = [cur EXCEPT !.type = "AP", !.net = NoNet, !.attached = FALSE, !.ip = NoAddr]
    BY DEF FallbackAndRescan
  <1>2. cur' \in Contexts /\ cur'.dom = cur.dom /\ cur'.ip = NoAddr
    BY <1>1 DEF TypeInv, TypeOK, Contexts, Interfaces
  <1>3. /\ retryTimer' \in [Interfaces -> BOOLEAN]
        /\ count' \in [Interfaces -> 0..MaxRetries]
        /\ pending' \in [Interfaces -> Pendings \union {NoPending}]
        /\ bcast' \in BOOLEAN
    BY ZeroIsACount DEF FallbackAndRescan
  <1> QED
    BY <1>2, <1>3 DEF FallbackAndRescan

(* The commit of a handover, or of an access outside one, by interface i.  *)
LEMMA CommitTypes ==
    ASSUME TypeInv, cur.dom # 0, NEW i \in Interfaces, NEW a \in Addresses, CommitHandover(i, a)
    PROVE  /\ cur' \in Contexts /\ cur'.dom = cur.dom
           /\ addr' \in [Interfaces -> Addresses \union {NoAddr}]
           /\ route' \in Routes \union {NoRoute}
           /\ handover' = FALSE /\ grace' = TRUE
  <1>1. cur \in Contexts /\ cur.dom \in Domains /\ route \in Routes \union {NoRoute}
    BY DEF TypeInv, TypeOK, Contexts
  <1>2. Fixed(Other(i), cur.dom) \in Addresses /\ Other(i) \in Interfaces
    BY <1>1, AddressTypes
  <1>3. cur' = Activated(cur, i, a) /\ route' = RouteVia(route, a)
    BY DEF CommitHandover
  <1>4. cur' \in Contexts /\ cur'.dom = cur.dom /\ route' \in Routes \union {NoRoute}
    BY <1>1, <1>3, ActivatedTypes, RouteTypes
  <1> QED
    BY <1>2, <1>4 DEF CommitHandover, TypeInv, TypeOK

LEMMA TransactionTypes ==
    ASSUME TypeInv, cur.dom # 0, NEW i \in Interfaces, NEW tx \in 1..(MaxFrames + 3),
           pending' = [pending EXCEPT ![i] = [tx |-> tx, dom |-> cur.dom]]
    PROVE  /\ pending' \in [Interfaces -> Pendings \union {NoPending}]
           /\ \A d \in Domains :
                 [kind |-> "request", iface |-> i, dom |-> d, tx |-> tx] \in Frames
  <1>1. tx \in Nat /\ cur.dom \in Domains
    BY BoundsAssumption DEF TypeInv, TypeOK, Contexts
  <1>2. [tx |-> tx, dom |-> cur.dom] \in Pendings
    BY <1>1 DEF Pendings
  <1>3. pending' \in [Interfaces -> Pendings \union {NoPending}]
    BY <1>2 DEF TypeInv, TypeOK
  <1> QED
    BY <1>1, <1>3 DEF Frames

LEMMA RequestStaTypes ==
    ASSUME TypeInv, cur.dom # 0, NEW n \in Nat, NEW named \in BOOLEAN, RequestStaIp(n, named)
    PROVE  /\ pending' \in [Interfaces -> Pendings \union {NoPending}]
           /\ reqTimer' \in [Interfaces -> BOOLEAN]
           /\ stray' \in BOOLEAN
           /\ air' \subseteq Frames
  <1> USE DEF TypeInv, TypeOK
  <1>1. CASE /\ addr["AP"] # NoAddr
             /\ reqTimer' = [reqTimer EXCEPT !["AP"] = named]
             /\ UNCHANGED <<pending, stray, air>>
    BY <1>1
  <1>2. CASE /\ reqTimer' = [reqTimer EXCEPT !["AP"] = TRUE]
             /\ stray' = (stray \/ named)
             /\ UNCHANGED <<pending, air>>
    BY <1>2
  <1>3. ASSUME NEW tx \in 1..(MaxFrames + 3), cur.net.type = "AP",
               pending' = [pending EXCEPT !["AP"] = [tx |-> tx, dom |-> cur.dom]],
               air' = IF radio["AP"] = cur.net.dom
                       THEN Sent([kind |-> "request", iface |-> "AP",
                                  dom |-> cur.net.dom, tx |-> tx])
                       ELSE air,
               reqTimer' = [reqTimer EXCEPT !["AP"] = named], UNCHANGED stray
        PROVE  /\ pending' \in [Interfaces -> Pendings \union {NoPending}]
               /\ reqTimer' \in [Interfaces -> BOOLEAN]
               /\ stray' \in BOOLEAN
               /\ air' \subseteq Frames
    <2> DEFINE f == [kind |-> "request", iface |-> "AP", dom |-> cur.net.dom, tx |-> tx]
    <2>1. cur.net.dom \in Domains
      BY <1>3 DEF Contexts, Networks, NoNet, DefaultNet
    <2>2. "AP" \in Interfaces
      BY DEF Interfaces
    <2>3. pending' \in [Interfaces -> Pendings \union {NoPending}] /\ f \in Frames
      BY <1>3, <2>1, <2>2, TransactionTypes
    <2> HIDE DEF f
    <2>4. air' = IF radio["AP"] = cur.net.dom THEN Sent(f) ELSE air
      BY <1>3 DEF f
    <2> QED
      BY <1>3, <2>3, <2>4, SentTypes
  <1> QED
    BY <1>1, <1>2, <1>3 DEF RequestStaIp

LEMMA RequestAdhocTypes ==
    ASSUME TypeInv, cur.dom # 0, NEW n \in Nat, RequestAdhocIp(n)
    PROVE  /\ pending' \in [Interfaces -> Pendings \union {NoPending}]
           /\ air' \subseteq Frames
  <1>1. CASE addr["ADHOC"] # NoAddr
    BY <1>1 DEF RequestAdhocIp, TypeInv, TypeOK
  <1>2. CASE addr["ADHOC"] = NoAddr
    <2>1. PICK tx \in 1..(MaxFrames + 3) :
             /\ pending' = [pending EXCEPT !["ADHOC"] = [tx |-> tx, dom |-> cur.dom]]
             /\ air' = Sent([kind |-> "request", iface |-> "ADHOC",
                             dom |-> radio["ADHOC"], tx |-> tx])
      BY <1>2 DEF RequestAdhocIp
    <2> DEFINE f == [kind |-> "request", iface |-> "ADHOC", dom |-> radio["ADHOC"], tx |-> tx]
    <2>2. "ADHOC" \in Interfaces /\ radio["ADHOC"] \in Domains
      BY DEF Interfaces, TypeInv, TypeOK, ScheduleInv
    <2>3. pending' \in [Interfaces -> Pendings \union {NoPending}] /\ f \in Frames
      BY <2>1, <2>2, TransactionTypes
    <2> HIDE DEF f
    <2>4. air' = Sent(f)
      BY <2>1 DEF f
    <2> QED
      BY <2>3, <2>4, SentTypes DEF TypeInv, TypeOK
  <1> QED
    BY <1>1, <1>2

LEMMA TerminalTypeInit == Init => TypeInv
  <1>1. Unattached \in Contexts /\ Unattached.dom = 0 /\ Unattached.ip = NoAddr
    BY DEF Unattached, Contexts, Interfaces
  <1> QED
    BY <1>1, ZeroIsACount DEF Init, TypeInv, TypeOK, ScheduleInv

LEMMA TerminalTypeStep == TypeInv /\ [Next]_vars => TypeInv'
  <1> SUFFICES ASSUME TypeInv, [Next]_vars PROVE TypeInv'
    OBVIOUS
  <1> USE DEF TypeInv, TypeOK
  <1>0. /\ "AP" \in Interfaces /\ "ADHOC" \in Interfaces
        /\ \A i \in Interfaces : count[i] \in Nat /\ i \in {"AP", "ADHOC"}
        /\ \A i \in Interfaces : reqTimer[i] \in BOOLEAN
    BY BoundsAssumption DEF Interfaces
  <1>d. cur.dom \in Domains \union {0} /\ 0 \notin Domains
    BY DomainsAreNumbers DEF Contexts
  <1>1. ASSUME NEW n \in Candidates, EvaluateAndSwitch(n) PROVE TypeInv'
    <2>1. CASE ExecuteSwitch(n) /\ UNCHANGED deferred
      BY <2>1, SwitchTypes
    <2>2. CASE deferred' = deferred \union {n} /\
               UNCHANGED <<cur, prev, handover, route, addr, pending, count, timers,
                           bcast, radio, scan, air>>
      BY <2>2 DEF timers, ScheduleInv
    <2> QED
      BY <1>1, <2>1, <2>2 DEF EvaluateAndSwitch
  <1>2. ASSUME NEW n \in Candidates, DeferredSwitch(n) PROVE TypeInv'
    <2>1. ExecuteSwitch(n) /\ deferred' \subseteq Candidates
      BY <1>2 DEF DeferredSwitch
    <2> QED
      BY <2>1, SwitchTypes
  <1>3. CASE StaRequestTimer
    <2>1. cur.dom # 0
      BY <1>0, <1>3 DEF StaRequestTimer, ScheduleInv
    <2>2. RequestStaIp(count["AP"], FALSE) /\ count["AP"] \in Nat
      BY <1>0, <1>3 DEF StaRequestTimer
    <2>3. /\ pending' \in [Interfaces -> Pendings \union {NoPending}]
          /\ reqTimer' \in [Interfaces -> BOOLEAN] /\ stray' \in BOOLEAN /\ air' \subseteq Frames
      BY <2>1, <2>2, RequestStaTypes
    <2> QED
      BY <1>3, <2>1, <2>3 DEF StaRequestTimer, ScheduleInv
  <1>4. CASE StrayStaRequest
    <2>1. cur.dom # 0
      BY <1>4 DEF StrayStaRequest, ScheduleInv
    <2>2. CASE RequestStaIp(count["AP"], reqTimer["AP"])
      <3>1. /\ pending' \in [Interfaces -> Pendings \union {NoPending}]
            /\ reqTimer' \in [Interfaces -> BOOLEAN] /\ stray' \in BOOLEAN /\ air' \subseteq Frames
        BY <1>0, <2>1, <2>2, RequestStaTypes
      <3> QED
        BY <1>4, <2>1, <3>1 DEF StrayStaRequest, ScheduleInv
    <2>3. CASE stray' = FALSE /\ UNCHANGED <<pending, reqTimer, air>>
      BY <1>4, <2>1, <2>3 DEF StrayStaRequest, ScheduleInv
    <2> QED
      BY <1>4, <2>2, <2>3 DEF StrayStaRequest
  <1>5. CASE AdhocRequestTimer
    <2>1. cur.dom # 0
      BY <1>0, <1>5 DEF AdhocRequestTimer, ScheduleInv
    <2>2. pending' \in [Interfaces -> Pendings \union {NoPending}] /\ air' \subseteq Frames
      BY <1>0, <1>5, <2>1, RequestAdhocTypes DEF AdhocRequestTimer
    <2> QED
      BY <1>5, <2>1, <2>2 DEF AdhocRequestTimer, ScheduleInv
  <1>6. ASSUME NEW i \in Interfaces, RetryDone(i) PROVE TypeInv'
    BY <1>6 DEF RetryDone, ScheduleInv
  <1>7. CASE RetryStaIp
    <2>1. cur.dom # 0
      BY <1>0, <1>7 DEF RetryStaIp, ScheduleInv
    <2>2. count' \in [Interfaces -> 0..MaxRetries] /\ count["AP"] + 1 \in Nat
      BY <1>0, <1>7, BoundsAssumption DEF RetryStaIp, RetriesExhausted
    <2>3. /\ pending' \in [Interfaces -> Pendings \union {NoPending}]
          /\ reqTimer' \in [Interfaces -> BOOLEAN] /\ stray' \in BOOLEAN /\ air' \subseteq Frames
      BY <1>0, <1>7, <2>1, <2>2, RequestStaTypes DEF RetryStaIp
    <2> QED
      BY <1>7, <2>1, <2>2, <2>3 DEF RetryStaIp, ScheduleInv
  <1>8. CASE RetryAdhocIp
    <2>1. cur.dom # 0
      BY <1>0, <1>8 DEF RetryAdhocIp, ScheduleInv
    <2>2. count' \in [Interfaces -> 0..MaxRetries] /\ count["ADHOC"] + 1 \in Nat
      BY <1>0, <1>8, BoundsAssumption DEF RetryAdhocIp, RetriesExhausted
    <2>3. pending' \in [Interfaces -> Pendings \union {NoPending}] /\ air' \subseteq Frames
      BY <1>8, <2>1, <2>2, RequestAdhocTypes DEF RetryAdhocIp
    <2> QED
      BY <1>8, <2>1, <2>2, <2>3 DEF RetryAdhocIp, ScheduleInv
  <1>9. CASE GiveUpStaIp
    <2>1. cur.dom # 0
      BY <1>0, <1>9 DEF GiveUpStaIp, ScheduleInv
    <2>2. CASE handover /\ AbortHandover
      BY <1>9, <2>1, <2>2, AbortTypes DEF GiveUpStaIp, ScheduleInv
    <2>3. CASE FallbackAndRescan
      BY <1>9, <2>1, <2>3, FallbackTypes DEF GiveUpStaIp, ScheduleInv
    <2> QED
      BY <1>9, <2>2, <2>3 DEF GiveUpStaIp
  <1>10. CASE GiveUpAdhocIp
    <2>1. cur.dom # 0
      BY <1>0, <1>10 DEF GiveUpAdhocIp, ScheduleInv
    <2>2. CASE handover /\ AbortHandover
      BY <1>10, <2>1, <2>2, AbortTypes DEF GiveUpAdhocIp, ScheduleInv
    <2>3. CASE FallbackAndRescan
      BY <1>10, <2>1, <2>3, FallbackTypes DEF GiveUpAdhocIp, ScheduleInv
    <2>4. CASE /\ retryTimer' = [retryTimer EXCEPT !["ADHOC"] = FALSE]
               /\ UNCHANGED <<cur, handover, route, pending, count, reqTimer, bcast>>
      BY <1>10, <2>1, <2>4 DEF GiveUpAdhocIp, ScheduleInv
    <2> QED
      BY <1>10, <2>2, <2>3, <2>4 DEF GiveUpAdhocIp
  <1>11. ASSUME NEW f \in air, Answer(f) PROVE TypeInv'
    <2>1. [f EXCEPT !.kind = "offer"] \in Frames
      BY <1>11 DEF Answer, Frames
    <2>2. air' \subseteq Frames
      BY <1>11, <2>1, SentTypes DEF Answer
    <2> QED
      BY <1>11, <2>2 DEF Answer, timers, ScheduleInv
  <1>12. ASSUME NEW f \in air, LoseFrame(f) PROVE TypeInv'
    BY <1>12 DEF LoseFrame, timers, ScheduleInv
  <1>13. ASSUME NEW f \in air, HearStaOffer(f) PROVE TypeInv'
    <2> DEFINE a == Leased("AP", f.dom)
    <2>1. cur.dom # 0 /\ cur.dom \in Domains
      BY <1>0, <1>d, <1>13, DomainsAreNumbers DEF HearStaOffer, IsExpectedOffer, Pendings, NoPending
    <2>2. f.dom \in Domains
      BY <1>13 DEF HearStaOffer, Frames
    <2>3. a \in Addresses
      BY <1>0, <2>2, AddressTypes
    <2> HIDE DEF a
    <2>4. /\ pending' \in [Interfaces -> Pendings \union {NoPending}]
          /\ retryTimer' \in [Interfaces -> BOOLEAN]
          /\ count' \in [Interfaces -> 0..MaxRetries]
          /\ air' \subseteq Frames
      BY <1>13, ZeroIsACount DEF HearStaOffer
    <2>5. CASE handover /\ CommitHandover("AP", a)
      <3>1. /\ cur' \in Contexts /\ cur'.dom = cur.dom
            /\ addr' \in [Interfaces -> Addresses \union {NoAddr}]
            /\ route' \in Routes \union {NoRoute}
            /\ handover' = FALSE /\ grace' = TRUE
        BY <1>0, <2>1, <2>3, <2>5, CommitTypes
      <3> QED
        BY <1>13, <2>1, <2>4, <3>1 DEF HearStaOffer, ScheduleInv
    <2>6. CASE /\ cur' = [cur EXCEPT !.ip = a]
               /\ addr' = [addr EXCEPT !["AP"] = a]
               /\ route' = RouteVia(route, a)
               /\ UNCHANGED <<handover, grace>>
      <3>1. /\ cur' \in Contexts /\ cur'.dom = cur.dom
            /\ addr' \in [Interfaces -> Addresses \union {NoAddr}]
            /\ route' \in Routes \union {NoRoute}
        BY <2>3, <2>6, RouteTypes DEF Contexts
      <3> QED
        BY <1>13, <2>1, <2>4, <2>6, <3>1 DEF HearStaOffer, ScheduleInv
    <2> QED
      BY <1>13, <2>5, <2>6 DEF HearStaOffer, a
  <1>14. ASSUME NEW f \in air, HearAdhocOffer(f) PROVE TypeInv'
    <2> DEFINE a == Leased("ADHOC", f.dom)
               committed == [cur EXCEPT !.type = "ADHOC", !.net = DefaultNet,
                                        !.attached = TRUE, !.ip = a]
    <2>1. cur.dom # 0 /\ cur.dom \in Domains
      BY <1>0, <1>d, <1>14, DomainsAreNumbers DEF HearAdhocOffer, IsExpectedOffer, Pendings, NoPending
    <2>2. f.dom \in Domains
      BY <1>14 DEF HearAdhocOffer, Frames
    <2>3. a \in Addresses
      BY <1>0, <2>2, AddressTypes
    <2> HIDE DEF a
    <2>3a. committed \in Contexts /\ committed.dom = cur.dom
      BY <1>0, <2>3 DEF Contexts
    <2> HIDE DEF committed
    <2>4. /\ pending' \in [Interfaces -> Pendings \union {NoPending}]
          /\ air' \subseteq Frames
          /\ UNCHANGED <<prev, reqTimer, stray, bcast, radio, scan, deferred>>
      BY <1>14 DEF HearAdhocOffer
    <2>5. CASE UNCHANGED <<cur, handover, route, addr, count, retryTimer, grace>>
      BY <2>1, <2>4, <2>5 DEF ScheduleInv
    <2>6. CASE /\ retryTimer' = [retryTimer EXCEPT !["ADHOC"] = FALSE]
               /\ count' = [count EXCEPT !["ADHOC"] = 0]
               /\ handover /\ CommitHandover("ADHOC", a)
      <3>1. /\ cur' \in Contexts /\ cur'.dom = cur.dom
            /\ addr' \in [Interfaces -> Addresses \union {NoAddr}]
            /\ route' \in Routes \union {NoRoute}
            /\ handover' = FALSE /\ grace' = TRUE
        BY <1>0, <2>1, <2>3, <2>6, CommitTypes
      <3> QED
        <4>1. /\ retryTimer' \in [Interfaces -> BOOLEAN]
              /\ count' \in [Interfaces -> 0..MaxRetries]
          BY <2>6, ZeroIsACount
        <4> QED
          BY <2>1, <2>4, <3>1, <4>1 DEF ScheduleInv
    <2>7. CASE /\ retryTimer' = [retryTimer EXCEPT !["ADHOC"] = FALSE]
               /\ count' = [count EXCEPT !["ADHOC"] = 0]
               /\ cur' = IF cur.plane = "ADHOC"
                         THEN Activated(committed, "ADHOC", addr["ADHOC"])
                         ELSE cur
               /\ addr' = [addr EXCEPT !["ADHOC"] = a]
               /\ route' = RouteVia(route, a)
               /\ UNCHANGED <<handover, grace>>
      <3>1. cur' \in Contexts /\ cur'.dom = cur.dom
        BY <1>0, <2>3a, <2>7, ActivatedTypes
      <3>2. /\ addr' \in [Interfaces -> Addresses \union {NoAddr}]
            /\ route' \in Routes \union {NoRoute}
        BY <2>3, <2>7, RouteTypes
      <3> QED
        BY <2>1, <2>4, <2>7, <3>1, <3>2, BoundsAssumption DEF ScheduleInv
    <2> QED
      BY <1>14, <2>5, <2>6, <2>7 DEF HearAdhocOffer, a, committed
  <1>15. CASE FinishOldPathGrace
    BY <1>15 DEF FinishOldPathGrace, ScheduleInv
  <1>16. CASE DoAdhocDiscoveryScan
    BY <1>0, <1>16, DomainsAssumption DEF DoAdhocDiscoveryScan, timers, ScheduleInv
  <1>17. CASE RestoreAdhocDomainChannel
    BY <1>0, <1>d, <1>17 DEF RestoreAdhocDomainChannel, timers, ScheduleInv
  <1>18. CASE UNCHANGED vars
    BY <1>18 DEF vars, timers, ScheduleInv
  <1> QED
    BY <1>1, <1>2, <1>3, <1>4, <1>5, <1>6, <1>7, <1>8, <1>9, <1>10, <1>11, <1>12, <1>13,
       <1>14, <1>15, <1>16, <1>17, <1>18 DEF Next

(* The terminal's variables hold values of their types in every reachable  *)
(* state; in particular no retry count passes its limit, and no frame,     *)
(* transaction or address names a domain before the first switch.          *)
THEOREM TerminalTypeCorrect == Spec => []TypeOK
  <1>1. TypeInv => TypeOK
    BY DEF TypeInv
  <1> QED
    BY <1>1, TerminalTypeInit, TerminalTypeStep, PTL DEF Spec

-----------------------------------------------------------------------------
(* What holds whatever networks a domain has and however long a radio is   *)
(* busy: a terminal that has joined a network and waits for its address    *)
(* carries its data there and retries, and a handover begins from an       *)
(* address in use, so that giving it up leaves the terminal with one.      *)

Waiting == cur.attached /\ ~handover /\ cur.ip = NoAddr

WaitingInv ==
    /\ handover => prev.ip # NoAddr
    /\ Waiting => /\ retryTimer[cur.type] /\ addr[cur.type] = NoAddr
                  /\ cur.plane = cur.type

LEMMA SwitchKeepsWaiting ==
    ASSUME TypeInv, WaitingInv, NEW n \in Candidates, ExecuteSwitch(n)
    PROVE  WaitingInv'
  <1> DEFINE a == KeptAddresses(n)[n.type]
  <1>1. /\ n.type \in Interfaces /\ Other(n.type) # n.type
        /\ a \in Addresses \union {NoAddr}
        /\ Entered(n) \in Contexts /\ Entered(n).type = n.type
    BY CandidateTypes, AddressTypes DEF KeptAddresses, Entered, TypeInv, TypeOK, Contexts
  <1>2. handover' => prev'.ip # NoAddr
    BY DEF ExecuteSwitch, BeginHandover, CanSoftHandover, WaitingInv
  <1>3. CASE ~handover'
    <2>1. /\ cur' = Activated(Entered(n), n.type, a)
          /\ addr' = [KeptAddresses(n) EXCEPT ![Other(n.type)] = Fixed(Other(n.type), n.dom)]
          /\ retryTimer' = [i \in Interfaces |-> i = n.type]
      BY <1>3 DEF ExecuteSwitch
    <2>2. addr'[n.type] = a /\ retryTimer'[n.type]
      BY <1>1, <2>1 DEF KeptAddresses
    <2> HIDE DEF a
    <2>3. /\ cur'.type = n.type /\ cur'.plane = n.type
          /\ a # NoAddr => cur'.ip # NoAddr
      BY <1>1, <2>1, ActivatedTypes
    <2> QED
      BY <1>2, <2>2, <2>3 DEF WaitingInv, Waiting
  <1> QED
    BY <1>2, <1>3 DEF WaitingInv, Waiting

(* Giving a handover up, by whichever interface.                           *)
LEMMA AbortKeepsWaiting ==
    ASSUME TypeInv, WaitingInv, handover, AbortHandover
    PROVE  WaitingInv'
  <1> DEFINE a == addr[prev.plane]
  <1>1. prev \in Contexts /\ prev.plane \in Interfaces /\ a \in Addresses \union {NoAddr}
    BY DEF TypeInv, TypeOK, Contexts
  <1>2. cur' = Activated(prev, prev.plane, a) /\ handover' = FALSE /\ prev.ip # NoAddr
    BY DEF AbortHandover, WaitingInv
  <1> HIDE DEF a
  <1>3. cur'.ip # NoAddr
    BY <1>1, <1>2, ActivatedTypes
  <1> QED
    BY <1>2, <1>3 DEF WaitingInv, Waiting

LEMMA FallbackKeepsWaiting ==
    ASSUME TypeInv, WaitingInv, FallbackAndRescan, UNCHANGED prev
    PROVE  WaitingInv'
  <1>1. ~cur'.attached /\ UNCHANGED handover
    BY DEF FallbackAndRescan, TypeInv, TypeOK, Contexts
  <1> QED
    BY <1>1 DEF WaitingInv, Waiting

(* An address that arrives, in a handover or not, ends the wait.           *)
LEMMA CommitKeepsWaiting ==
    ASSUME TypeInv, NEW i \in Interfaces, NEW a \in Addresses, CommitHandover(i, a)
    PROVE  WaitingInv'
  <1>1. cur \in Contexts /\ a # NoAddr
    BY AddressTypes DEF TypeInv, TypeOK
  <1>2. cur'.ip # NoAddr /\ handover' = FALSE
    BY <1>1, ActivatedTypes DEF CommitHandover
  <1> QED
    BY <1>2 DEF WaitingInv, Waiting

LEMMA WaitingStep == TypeInv /\ WaitingInv /\ [Next]_vars => WaitingInv'
  <1> SUFFICES ASSUME TypeInv, WaitingInv, [Next]_vars PROVE WaitingInv'
    OBVIOUS
  <1>0. /\ cur \in Contexts /\ cur.type \in Interfaces /\ cur.plane \in Interfaces
        /\ addr \in [Interfaces -> Addresses \union {NoAddr}]
        /\ retryTimer \in [Interfaces -> BOOLEAN]
        /\ "AP" \in Interfaces /\ "ADHOC" \in Interfaces
        /\ air \subseteq Frames
    BY DEF TypeInv, TypeOK, Contexts, Interfaces
  <1>1. ASSUME UNCHANGED <<cur, prev, handover, addr, retryTimer>> PROVE WaitingInv'
    BY <1>1 DEF WaitingInv, Waiting
  <1>2. ASSUME NEW n \in Candidates, EvaluateAndSwitch(n) \/ DeferredSwitch(n)
        PROVE  WaitingInv'
    <2>1. \/ ExecuteSwitch(n)
          \/ UNCHANGED <<cur, prev, handover, addr, retryTimer>>
      BY <1>2 DEF EvaluateAndSwitch, DeferredSwitch, timers
    <2> QED
      BY <1>1, <2>1, SwitchKeepsWaiting
  <1>3. CASE StaRequestTimer \/ StrayStaRequest \/ AdhocRequestTimer \/ RetryStaIp \/ RetryAdhocIp
    BY <1>1, <1>3 DEF StaRequestTimer, StrayStaRequest, AdhocRequestTimer, RetryStaIp,
                      RetryAdhocIp
  <1>4. ASSUME NEW i \in Interfaces, RetryDone(i) PROVE WaitingInv'
    BY <1>0, <1>4 DEF RetryDone, WaitingInv, Waiting
  <1>5. CASE GiveUpStaIp
    <2>1. UNCHANGED prev /\ ((handover /\ AbortHandover) \/ FallbackAndRescan)
      BY <1>5 DEF GiveUpStaIp
    <2> QED
      BY <2>1, AbortKeepsWaiting, FallbackKeepsWaiting
  <1>6. CASE GiveUpAdhocIp
    <2>1. CASE handover /\ AbortHandover
      BY <2>1, AbortKeepsWaiting
    <2>2. CASE FallbackAndRescan
      BY <1>6, <2>2, FallbackKeepsWaiting DEF GiveUpAdhocIp
    <2>3. CASE /\ cur.plane # "ADHOC"
               /\ retryTimer' = [retryTimer EXCEPT !["ADHOC"] = FALSE]
               /\ UNCHANGED <<cur, handover>>
      BY <1>0, <1>6, <2>3 DEF GiveUpAdhocIp, WaitingInv, Waiting
    <2> QED
      BY <1>6, <2>1, <2>2, <2>3 DEF GiveUpAdhocIp
  <1>7. ASSUME NEW f \in air, HearStaOffer(f) PROVE WaitingInv'
    <2> DEFINE a == Leased("AP", f.dom)
    <2>1. a \in Addresses /\ a # NoAddr
      BY <1>0, <1>7, AddressTypes DEF HearStaOffer, Frames
    <2> HIDE DEF a
    <2>2. CASE handover /\ CommitHandover("AP", a)
      BY <1>0, <2>1, <2>2, CommitKeepsWaiting
    <2>3. CASE cur' = [cur EXCEPT !.ip = a] /\ ~handover /\ UNCHANGED handover
      <3>1. cur'.ip # NoAddr
        BY <1>0, <2>1, <2>3 DEF Contexts
      <3> QED
        BY <2>3, <3>1 DEF WaitingInv, Waiting
    <2> QED
      BY <1>7, <2>2, <2>3 DEF HearStaOffer, a
  <1>8. ASSUME NEW f \in air, HearAdhocOffer(f) PROVE WaitingInv'
    <2> DEFINE a == Leased("ADHOC", f.dom)
               committed == [cur EXCEPT !.type = "ADHOC", !.net = DefaultNet,
                                        !.attached = TRUE, !.ip = a]
    <2>1. a \in Addresses /\ a # NoAddr
      BY <1>0, <1>8, AddressTypes DEF HearAdhocOffer, Frames
    <2> HIDE DEF a
    <2>2. CASE UNCHANGED <<cur, handover, addr, retryTimer>>
      BY <1>1, <1>8, <2>2 DEF HearAdhocOffer
    <2>3. CASE handover /\ CommitHandover("ADHOC", a)
      BY <1>0, <2>1, <2>3, CommitKeepsWaiting
    <2>4. CASE /\ ~handover /\ UNCHANGED handover
               /\ retryTimer' = [retryTimer EXCEPT !["ADHOC"] = FALSE]
               /\ addr' = [addr EXCEPT !["ADHOC"] = a]
               /\ cur' = IF cur.plane = "ADHOC"
                         THEN Activated(committed, "ADHOC", addr["ADHOC"])
                         ELSE cur
      <3>1. CASE cur.plane = "ADHOC"
        <4>1. committed \in Contexts /\ committed.ip = a
          BY <1>0, <2>1 DEF Contexts
        <4> HIDE DEF committed
        <4>2. cur'.ip # NoAddr
          BY <1>0, <2>1, <2>4, <3>1, <4>1, ActivatedTypes
        <4> QED
          BY <2>4, <4>2 DEF WaitingInv, Waiting
      <3>2. CASE cur.plane # "ADHOC"
        <4>1. UNCHANGED cur
          BY <2>4, <3>2
        <4>2. \A i \in Interfaces \ {"ADHOC"} :
                 addr'[i] = addr[i] /\ retryTimer'[i] = retryTimer[i]
          BY <1>0, <2>4
        <4> QED
          BY <1>0, <2>4, <3>2, <4>1, <4>2 DEF WaitingInv, Waiting
      <3> QED
        BY <3>1, <3>2
    <2> QED
      BY <1>8, <2>2, <2>3, <2>4 DEF HearAdhocOffer, a, committed
  <1>9. ASSUME NEW f \in air, Answer(f) \/ LoseFrame(f) PROVE WaitingInv'
    BY <1>1, <1>9 DEF Answer, LoseFrame, timers
  <1>10. CASE FinishOldPathGrace \/ DoAdhocDiscoveryScan \/ RestoreAdhocDomainChannel
    BY <1>1, <1>10 DEF FinishOldPathGrace, DoAdhocDiscoveryScan, RestoreAdhocDomainChannel,
                       timers
  <1>11. CASE UNCHANGED vars
    BY <1>1, <1>11 DEF vars, timers
  <1> QED
    BY <1>2, <1>3, <1>4, <1>5, <1>6, <1>7, <1>8, <1>9, <1>10, <1>11 DEF Next

LEMMA WaitingInit == Init => WaitingInv
  BY DEF Init, WaitingInv, Waiting, Unattached

(* A terminal that joined a network and has no address has its retry timer *)
(* running: none of the five places that cancel it strands the terminal,   *)
(* whatever networks its domains have and however long a radio is busy     *)
(* (ExecuteSwitch, RetryStaIp, RetryAdhocIp, HandleAdhocIpMessage).        *)
THEOREM JoinedAlwaysRetries == Spec => []JoinedWithoutAddressRetries
  <1>1. TypeInv /\ WaitingInv => JoinedWithoutAddressRetries
    BY DEF WaitingInv, Waiting, JoinedWithoutAddressRetries
  <1>2. TypeInv /\ WaitingInv /\ [Next]_vars => (TypeInv /\ WaitingInv)'
    BY TerminalTypeStep, WaitingStep
  <1> QED
    BY <1>1, <1>2, TerminalTypeInit, WaitingInit, PTL DEF Spec

-----------------------------------------------------------------------------
(* The engine's invariants, where no domain has both networks and a busy   *)
(* radio is soon free.                                                     *)

Inv == TypeInv /\ EngineInv

LEMMA InterfaceOfDomain ==
    ASSUME DisjointAccess
    PROVE  /\ Interfaces = {"AP", "ADHOC"} /\ "AP" # "ADHOC"
           /\ DomainsOf("AP") = ApDomains /\ DomainsOf("ADHOC") = AdhocDomains
           /\ \A i \in Interfaces : DomainsOf(i) \subseteq Domains /\ 0 \notin DomainsOf(i)
           /\ \A i, j \in Interfaces :
                 \A d : d \in DomainsOf(i) /\ d \in DomainsOf(j) => i = j
           /\ \A i, j \in Interfaces : j # i => j = Other(i)
           /\ Other("AP") = "ADHOC" /\ Other("ADHOC") = "AP"
  <1>1. Interfaces = {"AP", "ADHOC"} /\ "AP" # "ADHOC"
    BY DEF Interfaces
  <1>2. DomainsOf("AP") = ApDomains /\ DomainsOf("ADHOC") = AdhocDomains
    BY DEF DomainsOf
  <1>3. Other("AP") = "ADHOC" /\ Other("ADHOC") = "AP"
    BY DEF Other
  <1>4. ApDomains \subseteq Domains /\ AdhocDomains \subseteq Domains /\ 0 \notin Domains
    BY DomainsAssumption
  <1> QED
    BY <1>1, <1>2, <1>3, <1>4 DEF DisjointAccess

(* Outside a handover the data plane is where the terminal is attached.    *)
LEMMA PlaneOfContext ==
    ASSUME DisjointAccess, Inv, ~handover
    PROVE  /\ cur.attached => cur.plane = cur.type /\ cur.dom # 0
           /\ cur.ip # NoAddr => cur.attached /\ cur.ip = addr[cur.plane] /\ cur.ip.dom = cur.dom
  <1>1. cur.type \in Interfaces /\ cur.plane \in Interfaces
    BY DEF Inv, TypeInv, TypeOK, Contexts
  <1> QED
    BY <1>1, InterfaceOfDomain DEF Inv, EngineInv, ContextInv

LEMMA SwitchKeepsInv ==
    ASSUME DisjointAccess, Inv, ~handover, NEW n \in Candidates, ExecuteSwitch(n),
           deferred' = {}, TypeInv'
    PROVE  Inv'
  <1> DEFINE standby == Fixed(Other(n.type), n.dom)
  <1>n. /\ n.dom \in Domains /\ n.dom # 0 /\ n.type \in Interfaces /\ Other(n.type) \in Interfaces
        /\ n.dom \in DomainsOf(n.type) /\ n = [type |-> n.type, dom |-> n.dom]
        /\ standby \in Addresses /\ standby # NoAddr
        /\ Other(n.type) # n.type
    BY CandidateTypes, AddressTypes
  <1>t. TypeOK
    BY DEF Inv, TypeInv
  <1>c. cur.type \in Interfaces /\ cur.plane \in Interfaces
    BY <1>t DEF TypeOK, Contexts
  <1>a. addr \in [Interfaces -> Addresses \union {NoAddr}]
    BY <1>t DEF TypeOK
  <1>1. /\ \A i \in Interfaces : retryTimer'[i] = (i = n.type) /\ radio'[i] = n.dom
        /\ n.type = "ADHOC" => scan' = "off"
        /\ pending' = IF n.dom # cur.dom THEN [i \in Interfaces |-> NoPending] ELSE pending
        /\ handover' = CanSoftHandover(n)
        /\ CanSoftHandover(n) => prev' = cur
    BY DEF ExecuteSwitch, BeginHandover, CanSoftHandover
  <1>2. \A f \in air' : f.kind = "release" \/ f \in air
    <2>1. \A r : Sent(r) \subseteq air \union {r}
      BY DEF Sent
    <2>2. air' = air \/ \E r : r.kind = "release" /\ air' = Sent(r)
      BY DEF ExecuteSwitch, ReleaseOldAddress
    <2> QED
      BY <2>1, <2>2
  <1>3. /\ Entered(n).dom = n.dom /\ Entered(n).type = n.type /\ Entered(n).net = n
        /\ Entered(n).attached = TRUE /\ Entered(n).plane = cur.plane
        /\ Entered(n).ip = IF HardSwitch(n) THEN NoAddr ELSE cur.ip
        /\ Entered(n) \in Contexts
    BY <1>n, <1>t, CandidateTypes DEF Entered, TypeOK, Contexts
  <1>4. \A f \in air' :
           f.kind # "release" /\ f.iface = "ADHOC" /\ f.tx # 0
             /\ f.tx = pending'["ADHOC"].tx => f.dom = pending'["ADHOC"].dom
    <2>1. CASE n.dom # cur.dom
      BY <1>1, <2>1 DEF NoPending, Interfaces
    <2>2. CASE n.dom = cur.dom
      BY <1>1, <1>2, <2>2 DEF Inv, EngineInv, RequestsInv
    <2> QED
      BY <2>1, <2>2
  <1>5. CASE CanSoftHandover(n)
    <2>1. /\ handover' = TRUE /\ cur' = Entered(n) /\ prev' = cur
          /\ addr'[n.type] = NoAddr /\ addr'[Other(n.type)] = addr[Other(n.type)]
      BY <1>1, <1>5, <1>n DEF ExecuteSwitch, KeptAddresses, HardSwitch
    <2>2. /\ cur.attached /\ cur.plane = cur.type /\ cur.ip = addr[cur.plane]
          /\ cur.ip.dom = cur.dom /\ cur.ip # NoAddr /\ cur.dom # n.dom /\ cur.dom # 0
          /\ cur.type = Other(n.type) /\ cur.dom \in DomainsOf(cur.type)
      BY <1>5, <1>c, <1>n, PlaneOfContext, InterfaceOfDomain
         DEF CanSoftHandover, Inv, EngineInv, ContextInv
    <2>3. ~HardSwitch(n) /\ cur'.ip = cur.ip
      BY <1>3, <1>5, <2>1 DEF HardSwitch
    <2>4. \A i \in Interfaces : pending'[i] = NoPending
      BY <1>1, <2>2
    <2>5. DeferredInv'
      BY DEF DeferredInv
    <2>6. ContextInv'
      BY <1>3, <1>n, <2>1 DEF ContextInv, JoinedWithoutAddressRetries
    <2>7. HandoverIsDriven'
      BY <1>1, <1>3, <1>n, <2>1, <2>2 DEF HandoverIsDriven
    <2>8. PreparingInv'
      BY <1>3, <1>n, <2>1, <2>2, <2>3, <2>4, <2>7
         DEF PreparingInv, NoPending, Inv, EngineInv, ContextInv
    <2>9. RequestsInv'
      <3>1. /\ \A i \in Interfaces : pending'[i].tx = 0
            /\ n.type = "ADHOC" => n.dom \in AdhocDomains
            /\ n.type # "ADHOC" => addr'["ADHOC"] # NoAddr
        BY <1>n, <2>1, <2>2, <2>4, InterfaceOfDomain DEF NoPending
      <3> QED
        BY <1>1, <1>3, <1>4, <2>1, <3>1, InterfaceOfDomain DEF RequestsInv
    <2> QED
      BY <2>5, <2>6, <2>8, <2>9 DEF Inv, EngineInv, TypeInv
  <1>6. CASE ~CanSoftHandover(n)
    <2> DEFINE a == KeptAddresses(n)[n.type]
    <2>0. a \in Addresses \union {NoAddr} /\ a = IF n.dom # cur.dom THEN NoAddr ELSE addr[n.type]
      BY <1>6, <1>a, <1>n DEF KeptAddresses, HardSwitch
    <2>1. /\ handover' = FALSE /\ cur' = Activated(Entered(n), n.type, a)
          /\ addr'[n.type] = a /\ addr'[Other(n.type)] = standby
      <3>1. KeptAddresses(n) \in [Interfaces -> Addresses \union {NoAddr}]
        BY <1>a DEF KeptAddresses
      <3>2. handover' = FALSE
        BY <1>1, <1>6
      <3>3. /\ cur' = Activated(Entered(n), n.type, a)
            /\ addr' = [KeptAddresses(n) EXCEPT ![Other(n.type)] = standby]
        BY <3>2 DEF ExecuteSwitch, standby
      <3> QED
        BY <1>n, <3>1, <3>2, <3>3
    <2> HIDE DEF a
    <2>2. /\ cur'.dom = n.dom /\ cur'.type = n.type /\ cur'.net = n
          /\ cur'.attached = TRUE /\ cur'.plane = n.type
          /\ cur'.ip = IF a = NoAddr THEN Entered(n).ip ELSE a
      BY <1>3, <1>n, <2>0, <2>1, ActivatedTypes
    <2>3. n.dom = cur.dom => cur.plane = n.type
      BY <1>c, <1>n, InterfaceOfDomain DEF Inv, EngineInv, ContextInv
    <2>4. cur'.ip = a
      <3>1. CASE n.dom # cur.dom
        BY <1>3, <1>6, <2>2, <3>1 DEF HardSwitch
      <3>2. CASE n.dom = cur.dom
        <4>1. cur.ip = NoAddr \/ cur.ip = addr[n.type]
          BY <2>3, <3>2, PlaneOfContext
        <4> QED
          BY <1>3, <2>0, <2>2, <3>2, <4>1 DEF HardSwitch
      <3> QED
        BY <3>1, <3>2
    <2>5. a # NoAddr => a.dom = n.dom
      BY <1>n, <2>0, <2>3 DEF Inv, EngineInv, ContextInv
    <2>6. DeferredInv' /\ PreparingInv'
      BY <2>1 DEF DeferredInv, PreparingInv
    <2>7. ContextInv'
      BY <1>1, <1>n, <2>1, <2>2, <2>4, <2>5 DEF ContextInv, JoinedWithoutAddressRetries
    <2>8. \A i \in Interfaces : pending'[i].tx # 0 /\ pending'[i].dom = n.dom =>
             n.dom \in DomainsOf(i) /\ addr'[i] = NoAddr
      <3>1. CASE n.dom # cur.dom
        BY <1>1, <3>1 DEF NoPending
      <3>2. CASE n.dom = cur.dom
        <4> SUFFICES ASSUME NEW i \in Interfaces, pending[i].tx # 0, pending[i].dom = n.dom
                     PROVE  n.dom \in DomainsOf(i) /\ addr'[i] = NoAddr
          BY <1>1, <3>2
        <4>1. n.dom \in DomainsOf(i) /\ addr[i] = NoAddr
          BY <3>2 DEF Inv, EngineInv, RequestsInv
        <4>2. i = n.type
          BY <1>n, <4>1, InterfaceOfDomain
        <4> QED
          BY <2>0, <2>1, <3>2, <4>1, <4>2
      <3> QED
        BY <3>1, <3>2
    <2>9. RequestsInv'
      <3>1. /\ n.type = "ADHOC" => n.dom \in AdhocDomains
            /\ n.type # "ADHOC" => addr'["ADHOC"] # NoAddr
        BY <1>n, <2>1, InterfaceOfDomain
      <3> QED
        BY <1>1, <1>4, <2>2, <2>8, <3>1, InterfaceOfDomain DEF RequestsInv
    <2> QED
      BY <2>6, <2>7, <2>9 DEF Inv, EngineInv, TypeInv
  <1> QED
    BY <1>5, <1>6

LEMMA AbortKeepsInv ==
    ASSUME DisjointAccess, Inv, handover, AbortHandover, TypeInv',
           UNCHANGED <<addr, radio, scan, deferred, air>>
    PROVE  Inv'
  <1> DEFINE a == addr[prev.plane]
  <1>t. /\ cur.type \in Interfaces /\ cur.plane \in Interfaces /\ prev \in Contexts
        /\ prev.plane \in Interfaces /\ prev.type \in Interfaces
        /\ a \in Addresses \union {NoAddr}
    BY DEF Inv, TypeInv, TypeOK, Contexts
  <1>1. /\ a = prev.ip /\ a # NoAddr /\ a.dom = prev.dom
        /\ prev.attached /\ prev.type = prev.plane /\ prev.dom # cur.dom
        /\ prev.dom \in DomainsOf(prev.type)
        /\ \/ prev.net = [type |-> prev.type, dom |-> prev.dom]
           \/ prev.net = DefaultNet /\ prev.type = "ADHOC"
        /\ cur.plane = prev.plane /\ cur.type # cur.plane
        /\ pending[cur.plane] = NoPending
        /\ pending[cur.type].tx # 0 => pending[cur.type].dom = cur.dom
    BY DEF Inv, EngineInv, PreparingInv, HandoverIsDriven
  <1>2. /\ handover' = FALSE /\ cur' = Activated(prev, prev.plane, a)
        /\ \A i \in Interfaces : ~reqTimer'[i] /\ ~retryTimer'[i]
        /\ UNCHANGED pending
    BY DEF AbortHandover
  <1> HIDE DEF a
  <1>3. /\ cur'.dom = prev.dom /\ cur'.type = prev.type /\ cur'.net = prev.net
        /\ cur'.attached = prev.attached /\ cur'.plane = prev.plane /\ cur'.ip = a
    <2>1. prev \in Contexts /\ prev.plane \in Interfaces /\ a \in Addresses \union {NoAddr}
      BY <1>t
    <2>2. /\ cur'.dom = prev.dom /\ cur'.type = prev.type /\ cur'.net = prev.net
          /\ cur'.attached = prev.attached /\ cur'.plane = prev.plane
          /\ cur'.ip = IF a = NoAddr THEN prev.ip ELSE a
      BY <1>2, <2>1, ActivatedTypes
    <2> QED
      BY <1>1, <2>2
  <1>4. DeferredInv' /\ PreparingInv'
    BY <1>2 DEF DeferredInv, PreparingInv, Inv, EngineInv
  <1>5. ContextInv'
    BY <1>1, <1>2, <1>3 DEF ContextInv, JoinedWithoutAddressRetries, a
  <1>6. \A i \in Interfaces : ~(pending[i].tx # 0 /\ pending[i].dom = prev.dom)
    BY <1>t, <1>1, InterfaceOfDomain DEF NoPending
  <1>7. RequestsInv'
    BY <1>2, <1>3, <1>6, InterfaceOfDomain DEF RequestsInv, Inv, EngineInv
  <1> QED
    BY <1>4, <1>5, <1>7 DEF Inv, EngineInv, TypeInv

LEMMA FallbackKeepsInv ==
    ASSUME DisjointAccess, Inv, ~handover, FallbackAndRescan, TypeInv',
           UNCHANGED <<addr, radio, scan, deferred, air>>
    PROVE  Inv'
  <1>1. /\ cur'.attached = FALSE /\ cur'.ip = NoAddr /\ cur'.net = NoNet
        /\ cur'.dom = cur.dom /\ cur'.plane = cur.plane
    BY DEF FallbackAndRescan, Inv, TypeInv, TypeOK, Contexts
  <1>2. /\ \A i \in Interfaces : ~retryTimer'[i] /\ pending'[i].tx = 0
        /\ UNCHANGED <<handover, reqTimer>>
    BY DEF FallbackAndRescan, NoPending
  <1>3. DeferredInv' /\ PreparingInv'
    BY <1>2 DEF DeferredInv, PreparingInv, Inv, EngineInv
  <1>4. ContextInv'
    BY <1>1, <1>2 DEF ContextInv, JoinedWithoutAddressRetries, Inv, EngineInv
  <1>5. RequestsInv'
    BY <1>1, <1>2, InterfaceOfDomain DEF RequestsInv, Inv, EngineInv
  <1> QED
    BY <1>3, <1>4, <1>5 DEF Inv, EngineInv, TypeInv

LEMMA RequestStaKeepsInv ==
    ASSUME DisjointAccess, Inv, NEW n \in Nat, NEW named \in BOOLEAN,
           RequestStaIp(n, named), TypeInv',
           UNCHANGED <<cur, prev, handover, addr, retryTimer, radio, scan, deferred>>
    PROVE  Inv'
  <1>t. /\ cur.type \in Interfaces /\ cur.plane \in Interfaces
        /\ reqTimer \in [Interfaces -> BOOLEAN]
        /\ pending \in [Interfaces -> Pendings \union {NoPending}]
    BY DEF Inv, TypeInv, TypeOK, Contexts
  <1>1. /\ reqTimer'["ADHOC"] = reqTimer["ADHOC"]
        /\ pending'["ADHOC"] = pending["ADHOC"]
        /\ \A f \in air' : f \in air \/ f.iface = "AP"
        /\ \/ UNCHANGED pending
           \/ addr["AP"] = NoAddr /\ cur.net.type = "AP" /\ pending'["AP"].dom = cur.dom
    <2>1. \A f, g : g \in Sent(f) => g \in air \/ g = f
      BY DEF Sent
    <2>2. \/ UNCHANGED <<pending, air>>
          \/ \E tx \in 1..(MaxFrames + 3) :
                /\ addr["AP"] = NoAddr /\ cur.net.type = "AP"
                /\ pending' = [pending EXCEPT !["AP"] = [tx |-> tx, dom |-> cur.dom]]
                /\ \/ UNCHANGED air
                   \/ \E f : f.iface = "AP" /\ air' = Sent(f)
      BY DEF RequestStaIp
    <2>3. reqTimer'["ADHOC"] = reqTimer["ADHOC"]
      BY <1>t DEF RequestStaIp, Interfaces
    <2>4. \A f \in air' : f \in air \/ f.iface = "AP"
      BY <2>1, <2>2
    <2>5. /\ pending'["ADHOC"] = pending["ADHOC"]
          /\ \/ UNCHANGED pending
             \/ addr["AP"] = NoAddr /\ cur.net.type = "AP" /\ pending'["AP"].dom = cur.dom
      BY <1>t, <2>2 DEF Interfaces
    <2> QED
      BY <2>3, <2>4, <2>5
  <1>2. cur.net.type = "AP" => cur.attached /\ cur.type = "AP" /\ cur.dom \in DomainsOf("AP")
    BY DEF Inv, EngineInv, ContextInv, NoNet, DefaultNet
  <1>3. DeferredInv' /\ ContextInv'
    BY DEF DeferredInv, ContextInv, JoinedWithoutAddressRetries, Inv, EngineInv
  <1>4. PreparingInv'
    <2> SUFFICES ASSUME handover PROVE PreparingInv'
      BY DEF PreparingInv
    <2>1. PreparingInv /\ HandoverIsDriven /\ cur.type # prev.plane /\ cur.plane = prev.plane
      BY DEF Inv, EngineInv, PreparingInv, HandoverIsDriven
    <2>2. pending'[cur.plane] = pending[cur.plane]
      BY <1>t, <1>1, <1>2, <2>1, InterfaceOfDomain
    <2>3. pending'[cur.type].tx # 0 => pending'[cur.type].dom = cur.dom
      BY <1>t, <1>1, <2>1, InterfaceOfDomain DEF PreparingInv
    <2>4. HandoverIsDriven'
      BY <2>1 DEF HandoverIsDriven
    <2> QED
      BY <2>1, <2>2, <2>3, <2>4 DEF PreparingInv
  <1>5. RequestsInv'
    <2>1. \A i \in Interfaces : pending'[i].tx # 0 /\ pending'[i].dom = cur.dom =>
             cur.dom \in DomainsOf(i) /\ addr[i] = NoAddr
      BY <1>1, <1>2, InterfaceOfDomain DEF Inv, EngineInv, RequestsInv
    <2> QED
      BY <1>1, <2>1 DEF Inv, EngineInv, RequestsInv
  <1> QED
    BY <1>3, <1>4, <1>5 DEF Inv, EngineInv, TypeInv

LEMMA RequestAdhocKeepsInv ==
    ASSUME DisjointAccess, Inv, NEW n \in Nat,
           RequestAdhocIp(n), reqTimer["ADHOC"] \/ retryTimer["ADHOC"], TypeInv',
           reqTimer'["ADHOC"] => reqTimer["ADHOC"],
           UNCHANGED <<cur, prev, handover, addr, retryTimer, radio, scan, deferred>>
    PROVE  Inv'
  <1>t. /\ cur.type \in Interfaces /\ cur.plane \in Interfaces
        /\ pending \in [Interfaces -> Pendings \union {NoPending}]
    BY DEF Inv, TypeInv, TypeOK, Contexts
  <1>1. DeferredInv' /\ ContextInv'
    BY DEF DeferredInv, ContextInv, JoinedWithoutAddressRetries, Inv, EngineInv
  <1>2. CASE addr["ADHOC"] # NoAddr
    <2>1. UNCHANGED <<pending, air>>
      BY <1>2 DEF RequestAdhocIp
    <2>2. PreparingInv' /\ RequestsInv'
      BY <1>2, <2>1 DEF Inv, EngineInv, PreparingInv, HandoverIsDriven, RequestsInv
    <2> QED
      BY <1>1, <2>2 DEF Inv, EngineInv, TypeInv
  <1>3. CASE addr["ADHOC"] = NoAddr
    <2>1. PICK tx \in 1..(MaxFrames + 3) :
             /\ Transaction("ADHOC", n, tx)
             /\ pending' = [pending EXCEPT !["ADHOC"] = [tx |-> tx, dom |-> cur.dom]]
             /\ air' = Sent([kind |-> "request", iface |-> "ADHOC",
                             dom |-> radio["ADHOC"], tx |-> tx])
      BY <1>3 DEF RequestAdhocIp
    <2>2. cur.dom \in AdhocDomains /\ radio["ADHOC"] = cur.dom /\ scan = "off"
      BY <1>3 DEF Inv, EngineInv, RequestsInv
    <2>3. /\ pending'["AP"] = pending["AP"]
          /\ pending'["ADHOC"].dom = cur.dom /\ pending'["ADHOC"].tx = tx
      BY <1>t, <2>1 DEF Interfaces
    <2>4. PreparingInv'
      <3> SUFFICES ASSUME handover PROVE PreparingInv'
        BY DEF PreparingInv
      <3>1. /\ PreparingInv /\ HandoverIsDriven /\ cur.type # cur.plane
            /\ addr[cur.plane] # NoAddr
        BY DEF Inv, EngineInv, PreparingInv, HandoverIsDriven
      <3>2. cur.plane = "AP" /\ cur.type = "ADHOC"
        BY <1>t, <1>3, <3>1, InterfaceOfDomain
      <3>3. HandoverIsDriven'
        BY <3>1 DEF HandoverIsDriven
      <3> QED
        BY <2>3, <3>1, <3>2, <3>3 DEF PreparingInv
    <2>5. \A i \in Interfaces : pending'[i].tx # 0 /\ pending'[i].dom = cur.dom =>
             cur.dom \in DomainsOf(i) /\ addr[i] = NoAddr
      BY <1>3, <2>2, <2>3, InterfaceOfDomain DEF Inv, EngineInv, RequestsInv
    <2>6. \A f \in air' :
             f.kind # "release" /\ f.iface = "ADHOC" /\ f.tx # 0 /\ f.tx = tx => f.dom = cur.dom
      <3> DEFINE g == [kind |-> "request", iface |-> "ADHOC", dom |-> radio["ADHOC"], tx |-> tx]
      <3>1. \A f \in air' : f \in air \/ f = g
        BY <2>1 DEF Sent
      <3>2. g.dom = cur.dom
        BY <2>2
      <3>3. CASE IsNextTxId(tx)
        <4>1. \A f \in air : f.kind # "release" => f.tx # tx
          BY <3>3 DEF IsNextTxId, TxInUse
        <4> QED
          BY <3>1, <3>2, <4>1
      <3>4. CASE tx = pending["ADHOC"].tx /\ pending["ADHOC"].dom = cur.dom
        <4>1. \A f \in air :
                 f.kind # "release" /\ f.iface = "ADHOC" /\ f.tx # 0 /\ f.tx = tx
                   => f.dom = cur.dom
          BY <3>4 DEF Inv, EngineInv, RequestsInv
        <4> QED
          BY <3>1, <3>2, <4>1
      <3> QED
        BY <2>1, <3>3, <3>4 DEF Transaction
    <2>7. RequestsInv'
      BY <2>2, <2>3, <2>5, <2>6 DEF RequestsInv
    <2> QED
      BY <1>1, <2>4, <2>7 DEF Inv, EngineInv, TypeInv
  <1> QED
    BY <1>2, <1>3

(* An offer of the old path's interface is never expected in a handover.   *)
LEMMA ExpectedInHandover ==
    ASSUME DisjointAccess, Inv, handover, NEW i \in Interfaces, pending[i].tx # 0
    PROVE  cur.type = i /\ cur.plane = Other(i) /\ pending[Other(i)] = NoPending
  <1>1. cur.type \in Interfaces /\ cur.plane \in Interfaces
    BY DEF Inv, TypeInv, TypeOK, Contexts
  <1>2. cur.type # cur.plane /\ pending[cur.plane] = NoPending
    BY DEF Inv, EngineInv, PreparingInv, HandoverIsDriven
  <1>3. i # cur.plane
    BY <1>2 DEF NoPending
  <1> QED
    BY <1>1, <1>2, <1>3, InterfaceOfDomain

LEMMA CommitKeepsInv ==
    ASSUME DisjointAccess, Inv, handover, NEW i \in Interfaces, NEW a \in Addresses,
           a.dom = cur.dom, pending[i].tx # 0, CommitHandover(i, a), TypeInv',
           pending' = [pending EXCEPT ![i] = NoPending],
           air' \subseteq air,
           UNCHANGED <<reqTimer, radio, scan, deferred>>
    PROVE  Inv'
  <1>t. /\ cur \in Contexts /\ a # NoAddr /\ cur.dom # 0
        /\ addr \in [Interfaces -> Addresses \union {NoAddr}]
        /\ pending \in [Interfaces -> Pendings \union {NoPending}]
    BY AddressTypes DEF Inv, TypeInv, TypeOK, EngineInv, ScheduleInv
  <1>f. Other(i) \in Interfaces /\ Other(i) # i /\ Fixed(Other(i), cur.dom) # NoAddr
    BY <1>t, AddressTypes DEF Contexts
  <1>1. cur.type = i /\ cur.plane = Other(i) /\ pending[Other(i)] = NoPending
    BY ExpectedInHandover
  <1>2. /\ cur'.dom = cur.dom /\ cur'.type = i /\ cur'.net = cur.net
        /\ cur'.attached = cur.attached /\ cur'.plane = i /\ cur'.ip = a
    <2>1. cur' = Activated(cur, i, a)
      BY DEF CommitHandover
    <2> QED
      BY <1>t, <1>1, <2>1, ActivatedTypes
  <1>3. /\ handover' = FALSE /\ addr'[i] = a /\ addr'[Other(i)] # NoAddr
        /\ \A j \in Interfaces : addr'[j] # NoAddr /\ pending'[j] = NoPending
    BY <1>t, <1>f, <1>1, InterfaceOfDomain DEF CommitHandover
  <1>4. DeferredInv' /\ PreparingInv'
    BY <1>3 DEF DeferredInv, PreparingInv, Inv, EngineInv
  <1>5. ContextInv'
    BY <1>1, <1>2, <1>3, <1>t DEF ContextInv, JoinedWithoutAddressRetries, Inv, EngineInv,
                                  PreparingInv, HandoverIsDriven
  <1>6. RequestsInv'
    BY <1>3, InterfaceOfDomain DEF RequestsInv, NoPending
  <1> QED
    BY <1>4, <1>5, <1>6 DEF Inv, EngineInv, TypeInv

LEMMA EngineInit == Init => Inv
  <1> SUFFICES ASSUME Init PROVE Inv
    OBVIOUS
  <1>1. TypeInv
    BY TerminalTypeInit
  <1>2. /\ cur.attached = FALSE /\ cur.net = NoNet /\ cur.ip = NoAddr /\ cur.dom = 0
        /\ handover = FALSE /\ deferred = {} /\ air = {}
        /\ \A i \in Interfaces : pending[i].tx = 0 /\ ~reqTimer[i] /\ ~retryTimer[i]
    BY DEF Init, Unattached, NoPending
  <1>3. DeferredInv /\ PreparingInv /\ ContextInv
    BY <1>2 DEF DeferredInv, PreparingInv, ContextInv, JoinedWithoutAddressRetries
  <1>4. RequestsInv
    BY <1>2 DEF RequestsInv, Interfaces
  <1> QED
    BY <1>1, <1>3, <1>4 DEF Inv, EngineInv, TypeInv

LEMMA EngineStep ==
    ASSUME DisjointAccess, RadioMayStall = FALSE
    PROVE  Inv /\ [Next]_vars => Inv'
  <1> SUFFICES ASSUME Inv, [Next]_vars PROVE Inv'
    OBVIOUS
  <1>t. TypeInv' /\ TypeInv /\ TypeOK
    BY TerminalTypeStep DEF Inv, TypeInv
  <1>0. /\ "AP" \in Interfaces /\ "ADHOC" \in Interfaces
        /\ \A i \in Interfaces : count[i] \in Nat /\ count[i] + 1 \in Nat
        /\ \A i \in Interfaces : reqTimer[i] \in BOOLEAN
    BY <1>t, BoundsAssumption DEF Interfaces, TypeOK
  <1>1. ASSUME NEW n \in Candidates, EvaluateAndSwitch(n) PROVE Inv'
    <2>1. ~handover /\ deferred = {}
      BY <1>1 DEF EvaluateAndSwitch, MaySwitchTo
    <2>2. CASE ExecuteSwitch(n) /\ UNCHANGED deferred
      BY <1>t, <2>1, <2>2, SwitchKeepsInv
    <2>3. CASE deferred' = deferred \union {n} /\
               UNCHANGED <<cur, prev, handover, route, addr, pending, count, timers,
                           bcast, radio, scan, air>>
      <3>1. DeferredInv'
        BY <2>1, <2>3 DEF DeferredInv
      <3> QED
        BY <1>t, <2>3, <3>1 DEF timers, Inv, EngineInv, ContextInv, JoinedWithoutAddressRetries,
                           PreparingInv, HandoverIsDriven, RequestsInv, TypeInv
    <2> QED
      BY <1>1, <2>2, <2>3 DEF EvaluateAndSwitch
  <1>2. ASSUME NEW n \in Candidates, DeferredSwitch(n) PROVE Inv'
    <2>1. ~handover /\ deferred' = {}
      BY <1>2 DEF DeferredSwitch, Inv, EngineInv, DeferredInv
    <2> QED
      BY <1>2, <1>t, <2>1, SwitchKeepsInv DEF DeferredSwitch
  <1>3. CASE StaRequestTimer
    BY <1>0, <1>3, <1>t, RequestStaKeepsInv DEF StaRequestTimer
  <1>4. CASE StrayStaRequest
    <2>1. CASE RequestStaIp(count["AP"], reqTimer["AP"])
      BY <1>0, <1>4, <1>t, <2>1, RequestStaKeepsInv DEF StrayStaRequest
    <2>2. CASE UNCHANGED <<pending, reqTimer, air>>
      BY <1>4, <1>t, <2>2 DEF StrayStaRequest, Inv, EngineInv, DeferredInv, ContextInv,
             JoinedWithoutAddressRetries, PreparingInv, HandoverIsDriven, RequestsInv, TypeInv
    <2> QED
      BY <1>4, <2>1, <2>2 DEF StrayStaRequest
  <1>5. CASE AdhocRequestTimer
    <2>1. RequestAdhocIp(count["ADHOC"]) /\ reqTimer["ADHOC"]
      BY <1>5 DEF AdhocRequestTimer
    <2>2. UNCHANGED <<cur, prev, handover, addr, retryTimer, radio, scan, deferred>>
      BY <1>5 DEF AdhocRequestTimer
    <2> QED
      BY <1>0, <1>t, <2>1, <2>2, RequestAdhocKeepsInv
  <1>6. ASSUME NEW i \in Interfaces, RetryDone(i) PROVE Inv'
    <2>1. /\ addr[i] # NoAddr
          /\ \A j \in Interfaces : retryTimer'[j] = (j # i /\ retryTimer[j])
          /\ UNCHANGED <<cur, prev, handover, addr, pending, reqTimer, radio, scan, deferred, air>>
      BY <1>6, <1>t DEF RetryDone, TypeOK
    <2>2. cur.type \in Interfaces
      BY <1>t DEF TypeOK, Contexts
    <2>3. DeferredInv'
      BY <2>1 DEF DeferredInv, Inv, EngineInv
    <2>4. ContextInv'
      BY <2>1, <2>2 DEF ContextInv, JoinedWithoutAddressRetries, Inv, EngineInv
    <2>5. PreparingInv'
      BY <2>1, <2>2 DEF PreparingInv, HandoverIsDriven, Inv, EngineInv
    <2>6. RequestsInv'
      BY <1>0, <2>1 DEF RequestsInv, Inv, EngineInv
    <2> QED
      BY <1>t, <2>3, <2>4, <2>5, <2>6 DEF Inv, EngineInv, TypeInv
  <1>7. CASE RetryStaIp
    BY <1>0, <1>7, <1>t, RequestStaKeepsInv DEF RetryStaIp
  <1>8. CASE RetryAdhocIp
    <2>1. RequestAdhocIp(count["ADHOC"] + 1) /\ retryTimer["ADHOC"]
      BY <1>8 DEF RetryAdhocIp
    <2>2. UNCHANGED <<cur, prev, handover, addr, reqTimer, retryTimer, radio, scan, deferred>>
      BY <1>8 DEF RetryAdhocIp
    <2> QED
      BY <1>0, <1>t, <2>1, <2>2, RequestAdhocKeepsInv
  <1>9. CASE GiveUpStaIp
    <2>1. CASE handover /\ AbortHandover
      BY <1>9, <1>t, <2>1, AbortKeepsInv DEF GiveUpStaIp
    <2>2. CASE ~handover /\ FallbackAndRescan
      BY <1>9, <1>t, <2>2, FallbackKeepsInv DEF GiveUpStaIp
    <2> QED
      BY <1>9, <2>1, <2>2 DEF GiveUpStaIp
  <1>10. CASE GiveUpAdhocIp
    <2>1. CASE handover /\ AbortHandover
      BY <1>10, <1>t, <2>1, AbortKeepsInv DEF GiveUpAdhocIp
    <2>2. CASE cur.plane = "ADHOC" /\ FallbackAndRescan
      <3>1. ~handover
        BY <1>10, <2>2 DEF GiveUpAdhocIp, Inv, EngineInv, PreparingInv
      <3> QED
        BY <1>10, <1>t, <2>2, <3>1, FallbackKeepsInv DEF GiveUpAdhocIp
    <2>3. CASE /\ cur.plane # "ADHOC" /\ ~handover
               /\ retryTimer' = [retryTimer EXCEPT !["ADHOC"] = FALSE]
               /\ UNCHANGED <<cur, handover, route, pending, count, reqTimer, bcast>>
      <3>1. /\ retryTimer'["AP"] = retryTimer["AP"] /\ ~retryTimer'["ADHOC"]
            /\ UNCHANGED <<addr, radio, scan, deferred, air>>
        BY <1>0, <1>10, <1>t, <2>3 DEF GiveUpAdhocIp, TypeOK
      <3>2. cur.attached => cur.type = "AP"
        BY <1>t, <2>3, PlaneOfContext, InterfaceOfDomain DEF TypeOK, Contexts
      <3>3. DeferredInv' /\ PreparingInv'
        BY <2>3, <3>1 DEF DeferredInv, PreparingInv, Inv, EngineInv
      <3>4. ContextInv'
        BY <2>3, <3>1, <3>2 DEF ContextInv, JoinedWithoutAddressRetries, Inv, EngineInv
      <3>5. RequestsInv'
        BY <2>3, <3>1 DEF RequestsInv, Inv, EngineInv
      <3> QED
        BY <1>t, <3>3, <3>4, <3>5 DEF Inv, EngineInv, TypeInv
    <2> QED
      BY <1>10, <2>1, <2>2, <2>3 DEF GiveUpAdhocIp
  <1>11. ASSUME air' \subseteq air \/
                  \E f \in air : f.kind = "request" /\ air' \subseteq air \union {[f EXCEPT !.kind = "offer"]},
                UNCHANGED <<cur, prev, handover, addr, pending, reqTimer, retryTimer,
                            radio, scan, deferred>>
         PROVE  Inv'
    <2>1. \A f \in air : f.kind = "request" =>
             /\ [f EXCEPT !.kind = "offer"].iface = f.iface
             /\ [f EXCEPT !.kind = "offer"].dom = f.dom
             /\ [f EXCEPT !.kind = "offer"].tx = f.tx
      BY <1>t DEF TypeOK, Frames
    <2>2. \A g \in air' : g \in air \/ \E f \in air :
             f.kind = "request" /\ g.iface = f.iface /\ g.dom = f.dom /\ g.tx = f.tx
      BY <1>11, <2>1
    <2>3. RequestsInv'
      BY <1>11, <2>2 DEF RequestsInv, Inv, EngineInv
    <2>4. DeferredInv' /\ ContextInv' /\ PreparingInv'
      BY <1>11 DEF DeferredInv, ContextInv, JoinedWithoutAddressRetries,
                   PreparingInv, HandoverIsDriven, Inv, EngineInv
    <2> QED
      BY <1>t, <2>3, <2>4 DEF Inv, EngineInv, TypeInv
  <1>12. ASSUME NEW f \in air, Answer(f) \/ LoseFrame(f) PROVE Inv'
    <2>1. \A g : Sent(g) \subseteq air \union {g}
      BY DEF Sent
    <2>2. air' \subseteq air \/
            \E g \in air : g.kind = "request" /\ air' \subseteq air \union {[g EXCEPT !.kind = "offer"]}
      BY <1>12, <2>1 DEF Answer, LoseFrame
    <2>3. UNCHANGED <<cur, prev, handover, addr, pending, reqTimer, retryTimer,
                      radio, scan, deferred>>
      BY <1>12 DEF Answer, LoseFrame, timers
    <2> QED
      BY <1>11, <2>2, <2>3
  <1>13. ASSUME NEW f \in air, HearStaOffer(f) PROVE Inv'
    <2> DEFINE a == Leased("AP", f.dom)
    <2>1. /\ pending["AP"].tx # 0 /\ pending["AP"].dom = cur.dom
          /\ cur.net = [type |-> "AP", dom |-> f.dom]
          /\ f.kind = "offer"
      BY <1>13 DEF HearStaOffer, IsExpectedOffer, VerifyStaOfferSecurity
    <2>2. cur.attached /\ cur.type = "AP" /\ f.dom = cur.dom /\ cur.dom \in DomainsOf("AP")
      BY <2>1 DEF Inv, EngineInv, ContextInv, NoNet, DefaultNet
    <2>3. f.dom \in Domains
      BY <2>2, InterfaceOfDomain, <1>0
    <2>4. a \in Addresses /\ a.dom = cur.dom /\ a # NoAddr
      BY <1>0, <2>2, <2>3, AddressTypes DEF Leased
    <2> HIDE DEF a
    <2>5. /\ pending' = [pending EXCEPT !["AP"] = NoPending]
          /\ retryTimer' = [retryTimer EXCEPT !["AP"] = FALSE]
          /\ air' \subseteq air
          /\ UNCHANGED <<prev, reqTimer, radio, scan, deferred>>
      BY <1>13 DEF HearStaOffer
    <2>6. CASE handover /\ CommitHandover("AP", a)
      BY <1>0, <1>t, <2>1, <2>4, <2>5, <2>6, CommitKeepsInv
    <2>7. CASE /\ ~handover
               /\ cur' = [cur EXCEPT !.ip = a]
               /\ addr' = [addr EXCEPT !["AP"] = a]
               /\ UNCHANGED handover
      <3>1. /\ cur'.dom = cur.dom /\ cur'.type = cur.type /\ cur'.net = cur.net
            /\ cur'.attached = cur.attached /\ cur'.plane = cur.plane /\ cur'.ip = a
        BY <1>t, <2>7 DEF TypeOK, Contexts
      <3>2. cur.plane = "AP"
        BY <2>2, <2>7, PlaneOfContext
      <3>3. /\ addr'["AP"] = a /\ addr'["ADHOC"] = addr["ADHOC"]
            /\ pending'["AP"] = NoPending /\ pending'["ADHOC"] = pending["ADHOC"]
            /\ retryTimer'["ADHOC"] = retryTimer["ADHOC"]
        BY <1>0, <1>t, <2>5, <2>7 DEF TypeOK
      <3>4. DeferredInv' /\ PreparingInv'
        BY <2>5, <2>7 DEF DeferredInv, PreparingInv, Inv, EngineInv
      <3>5. ContextInv'
        <4>1. /\ cur'.attached = TRUE /\ cur'.type = "AP" /\ cur'.plane = "AP"
              /\ cur'.dom \in DomainsOf("AP") /\ cur'.net = cur.net
              /\ cur.net = [type |-> "AP", dom |-> cur'.dom]
              /\ cur'.ip = a /\ addr'["AP"] = a /\ a.dom = cur'.dom /\ a # NoAddr
          BY <2>1, <2>2, <2>4, <3>1, <3>2, <3>3 DEF Inv, EngineInv, TypeInv, TypeOK
        <4> QED
          BY <4>1 DEF ContextInv, JoinedWithoutAddressRetries
      <3>6. RequestsInv'
        BY <2>5, <3>1, <3>3, InterfaceOfDomain DEF RequestsInv, NoPending, Inv, EngineInv
      <3> QED
        BY <1>t, <3>4, <3>5, <3>6 DEF Inv, EngineInv, TypeInv
    <2> QED
      BY <1>13, <2>6, <2>7 DEF HearStaOffer, a
  <1>14. ASSUME NEW f \in air, HearAdhocOffer(f) PROVE Inv'
    <2> DEFINE a == Leased("ADHOC", f.dom)
               committed == [cur EXCEPT !.type = "ADHOC", !.net = DefaultNet,
                                        !.attached = TRUE, !.ip = a]
    <2>1. /\ pending["ADHOC"].tx # 0 /\ pending["ADHOC"].dom = cur.dom
          /\ f.tx = pending["ADHOC"].tx /\ f.iface = "ADHOC" /\ f.kind = "offer"
      BY <1>14 DEF HearAdhocOffer, IsExpectedOffer
    <2>2. /\ f.dom = cur.dom /\ addr["ADHOC"] = NoAddr
          /\ cur.dom \in DomainsOf("ADHOC") /\ cur.dom # 0 /\ cur.dom \in Domains
      BY <1>0, <2>1, InterfaceOfDomain DEF Inv, EngineInv, RequestsInv
    <2>3. a \in Addresses /\ a.dom = cur.dom /\ a # NoAddr
      BY <1>0, <2>2, AddressTypes DEF Leased
    <2> HIDE DEF a
    <2>4. /\ pending' = [pending EXCEPT !["ADHOC"] = NoPending]
          /\ air' \subseteq air
          /\ UNCHANGED <<prev, reqTimer, radio, scan, deferred>>
      BY <1>14 DEF HearAdhocOffer
    <2>5. pending'["ADHOC"] = NoPending /\ pending'["AP"] = pending["AP"]
      BY <1>0, <1>t, <2>4 DEF TypeOK
    <2>6. CASE UNCHANGED <<cur, handover, addr, retryTimer>>
      <3>1. DeferredInv' /\ ContextInv'
        BY <2>4, <2>6 DEF DeferredInv, ContextInv, JoinedWithoutAddressRetries, Inv, EngineInv
      <3>2. PreparingInv'
        <4> SUFFICES ASSUME handover PROVE PreparingInv'
          BY <2>6 DEF PreparingInv
        <4>1. cur.type = "ADHOC" /\ cur.plane = "AP"
          BY <1>0, <2>1, ExpectedInHandover, InterfaceOfDomain
        <4> QED
          BY <2>4, <2>5, <2>6, <4>1
             DEF PreparingInv, HandoverIsDriven, NoPending, Inv, EngineInv
      <3>3. RequestsInv'
        BY <2>4, <2>5, <2>6, InterfaceOfDomain DEF RequestsInv, NoPending, Inv, EngineInv
      <3> QED
        BY <1>t, <3>1, <3>2, <3>3 DEF Inv, EngineInv, TypeInv
    <2>7. CASE handover /\ CommitHandover("ADHOC", a)
      BY <1>0, <1>t, <2>1, <2>3, <2>4, <2>7, CommitKeepsInv
    <2>8. CASE /\ ~handover
               /\ retryTimer' = [retryTimer EXCEPT !["ADHOC"] = FALSE]
               /\ cur' = IF cur.plane = "ADHOC"
                         THEN Activated(committed, "ADHOC", addr["ADHOC"])
                         ELSE cur
               /\ addr' = [addr EXCEPT !["ADHOC"] = a]
               /\ UNCHANGED handover
      <3>1. cur.plane = "ADHOC"
        <4>1. cur.plane \in Interfaces
          BY <1>t DEF TypeOK, Contexts
        <4> QED
          BY <1>0, <2>2, <2>8, <4>1, InterfaceOfDomain DEF Inv, EngineInv, ContextInv
      <3>2. /\ committed \in Contexts /\ committed.type = "ADHOC" /\ committed.dom = cur.dom
            /\ committed.net = DefaultNet /\ committed.attached = TRUE /\ committed.ip = a
        BY <1>0, <1>t, <2>3 DEF TypeOK, Contexts
      <3> HIDE DEF committed
      <3>3. /\ cur'.dom = cur.dom /\ cur'.type = "ADHOC" /\ cur'.net = DefaultNet
            /\ cur'.attached = TRUE /\ cur'.plane = "ADHOC" /\ cur'.ip = a
        BY <1>0, <2>2, <2>8, <3>1, <3>2, ActivatedTypes
      <3>4. /\ addr'["ADHOC"] = a /\ addr'["AP"] = addr["AP"]
        BY <1>0, <1>t, <2>8 DEF TypeOK
      <3>5. DeferredInv' /\ PreparingInv'
        BY <2>4, <2>8 DEF DeferredInv, PreparingInv, Inv, EngineInv
      <3>6. ContextInv'
        BY <2>2, <2>3, <3>3, <3>4 DEF ContextInv, JoinedWithoutAddressRetries
      <3>7. RequestsInv'
        BY <2>3, <2>4, <2>5, <3>3, <3>4, InterfaceOfDomain
           DEF RequestsInv, NoPending, Inv, EngineInv
      <3> QED
        BY <1>t, <3>5, <3>6, <3>7 DEF Inv, EngineInv, TypeInv
    <2> QED
      BY <1>14, <2>6, <2>7, <2>8 DEF HearAdhocOffer, a, committed
  <1>15. CASE FinishOldPathGrace
    BY <1>11, <1>15 DEF FinishOldPathGrace
  <1>16. CASE DoAdhocDiscoveryScan \/ RestoreAdhocDomainChannel
    <2>1. /\ scan # "off"
          /\ UNCHANGED <<cur, prev, handover, addr, pending, reqTimer, retryTimer, deferred, air>>
      BY <1>16 DEF DoAdhocDiscoveryScan, RestoreAdhocDomainChannel, timers
    <2>2. DeferredInv' /\ ContextInv' /\ PreparingInv'
      BY <2>1 DEF DeferredInv, ContextInv, JoinedWithoutAddressRetries,
                  PreparingInv, HandoverIsDriven, Inv, EngineInv
    <2>3. RequestsInv'
      BY <2>1 DEF RequestsInv, Inv, EngineInv
    <2> QED
      BY <1>t, <2>2, <2>3 DEF Inv, EngineInv, TypeInv
  <1>17. CASE UNCHANGED vars
    BY <1>11, <1>17 DEF vars, timers
  <1> QED
    BY <1>1, <1>2, <1>3, <1>4, <1>5, <1>6, <1>7, <1>8, <1>9, <1>10, <1>12, <1>13, <1>14,
       <1>15, <1>16, <1>17 DEF Next

(* Every part of the engine's invariant holds in every reachable state:    *)
(* schedules, contexts, handovers and transactions stay consistent         *)
(* (ExecuteSwitch, CommitHandover, AbortHandover, the retry timers).       *)
THEOREM EngineInvHolds ==
    DisjointAccess /\ RadioMayStall = FALSE => (Spec => []EngineInv)
  <1> SUFFICES ASSUME DisjointAccess, RadioMayStall = FALSE PROVE Spec => []EngineInv
    OBVIOUS
  <1>1. Inv /\ [Next]_vars => Inv'
    BY EngineStep
  <1>2. Inv => EngineInv
    BY DEF Inv
  <1> QED
    BY <1>1, <1>2, EngineInit, PTL DEF Spec

(* The address in use is that of the data plane's interface and of the     *)
(* current domain, whatever offers, commits and aborts came before         *)
(* (HandleAdhocIpMessage, CommitHandover, AbortHandover).                  *)
THEOREM AddressAlwaysMatches ==
    DisjointAccess /\ RadioMayStall = FALSE => (Spec => []AddressMatchesContext)
  <1> SUFFICES ASSUME DisjointAccess, RadioMayStall = FALSE
               PROVE  Spec => []AddressMatchesContext
    OBVIOUS
  <1>1. Inv /\ [Next]_vars => Inv'
    BY EngineStep
  <1>2. Inv => AddressMatchesContext
    BY PlaneOfContext DEF AddressMatchesContext
  <1> QED
    BY <1>1, <1>2, EngineInit, PTL DEF Spec

(* A handover in progress has the retry timer of its target running and no *)
(* fallback under it: the state machine cannot wedge between two networks. *)
THEOREM HandoverAlwaysDriven ==
    DisjointAccess /\ RadioMayStall = FALSE => (Spec => []HandoverIsDriven)
  <1> SUFFICES ASSUME DisjointAccess, RadioMayStall = FALSE
               PROVE  Spec => []HandoverIsDriven
    OBVIOUS
  <1>1. Inv /\ [Next]_vars => Inv'
    BY EngineStep
  <1>2. Inv => HandoverIsDriven
    BY DEF Inv, EngineInv, PreparingInv, HandoverIsDriven
  <1> QED
    BY <1>1, <1>2, EngineInit, PTL DEF Spec

(* What a step of a handover may do: it keeps the target and the retries   *)
(* counted, and a step that gives up ends it.                              *)
KeepsDeadline ==
    handover =>
        /\ handover' => /\ cur'.type = cur.type /\ cur'.dom = cur.dom
                        /\ count'[cur.type] >= count[cur.type]
        /\ GiveUpStaIp \/ GiveUpAdhocIp => ~handover'

LEMMA DeadlineStep ==
    ASSUME RadioMayStall = FALSE, Inv, Next
    PROVE  KeepsDeadline
  <1> SUFFICES ASSUME handover PROVE KeepsDeadline
    BY DEF KeepsDeadline
  <1>0. /\ cur.type \in Interfaces /\ count \in [Interfaces -> Nat]
        /\ cur.type # cur.plane /\ retryTimer[cur.type] /\ deferred = {}
        /\ "AP" \in Interfaces /\ "ADHOC" \in Interfaces
    BY BoundsAssumption DEF Inv, TypeInv, TypeOK, Contexts, Interfaces, EngineInv,
       PreparingInv, HandoverIsDriven, DeferredInv
  <1>1. ASSUME UNCHANGED cur, \A i \in Interfaces : count'[i] >= count[i],
               ~GiveUpStaIp, ~GiveUpAdhocIp
        PROVE  KeepsDeadline
    BY <1>0, <1>1 DEF KeepsDeadline
  <1>2. ASSUME ~handover' PROVE KeepsDeadline
    BY <1>2 DEF KeepsDeadline
  <1>3. GiveUpStaIp => ~handover'
    BY DEF GiveUpStaIp, AbortHandover
  <1>4. GiveUpAdhocIp => ~handover'
    <2>1. addr[cur.plane] # NoAddr
      BY DEF Inv, EngineInv, PreparingInv
    <2>2. GiveUpAdhocIp => cur.plane # "ADHOC"
      BY <2>1 DEF GiveUpAdhocIp
    <2> QED
      BY <2>2 DEF GiveUpAdhocIp, AbortHandover
  <1>5. CASE GiveUpStaIp \/ GiveUpAdhocIp
    BY <1>2, <1>3, <1>4, <1>5
  <1>6. ASSUME ~GiveUpStaIp, ~GiveUpAdhocIp PROVE KeepsDeadline
    <2>1. ASSUME NEW n \in Candidates, EvaluateAndSwitch(n) \/ DeferredSwitch(n) PROVE FALSE
      BY <1>0, <2>1 DEF EvaluateAndSwitch, MaySwitchTo, DeferredSwitch
    <2>2. CASE \/ StaRequestTimer \/ StrayStaRequest \/ AdhocRequestTimer
               \/ \E i \in Interfaces : RetryDone(i)
      <3>1. UNCHANGED <<cur, count>>
        BY <2>2 DEF StaRequestTimer, StrayStaRequest, AdhocRequestTimer, RetryDone
      <3> QED
        BY <1>0, <1>1, <1>6, <3>1
    <2>3. CASE RetryStaIp \/ RetryAdhocIp
      <3>1. /\ UNCHANGED cur
            /\ \E i \in Interfaces : count' = [count EXCEPT ![i] = @ + 1]
        BY <1>0, <2>3 DEF RetryStaIp, RetryAdhocIp
      <3>2. \A i \in Interfaces : count'[i] >= count[i]
        BY <1>0, <3>1
      <3> QED
        BY <1>1, <1>6, <3>1, <3>2
    <2>4. ASSUME NEW f \in air, HearStaOffer(f) PROVE KeepsDeadline
      BY <1>2, <2>4 DEF HearStaOffer, CommitHandover
    <2>5. ASSUME NEW f \in air, HearAdhocOffer(f) PROVE KeepsDeadline
      <3>1. ~handover' \/ UNCHANGED <<cur, count>>
        BY <2>5 DEF HearAdhocOffer, CommitHandover
      <3> QED
        BY <1>0, <1>1, <1>2, <1>6, <3>1
    <2>6. CASE \/ \E f \in air : Answer(f) \/ LoseFrame(f)
               \/ FinishOldPathGrace \/ DoAdhocDiscoveryScan \/ RestoreAdhocDomainChannel
      <3>1. UNCHANGED <<cur, count>>
        BY <2>6 DEF Answer, LoseFrame, FinishOldPathGrace, DoAdhocDiscoveryScan,
                    RestoreAdhocDomainChannel
      <3> QED
        BY <1>0, <1>1, <1>6, <3>1
    <2> QED
      BY <1>6, <2>1, <2>2, <2>3, <2>4, <2>5, <2>6 DEF Next
  <1> QED
    BY <1>5, <1>6

(* A handover has a deadline: no switch, offer, stray request or timer of  *)
(* the old path changes its target or takes back a retry, and giving up    *)
(* ends it; so the retry timer of the target, which always runs            *)
(* (HandoverAlwaysDriven), ends it after MaxRetries + 1 rounds at most.    *)
THEOREM HandoverKeepsDeadline ==
    DisjointAccess /\ RadioMayStall = FALSE => (Spec => HandoverHasDeadline)
  <1> SUFFICES ASSUME DisjointAccess, RadioMayStall = FALSE
               PROVE  Spec => HandoverHasDeadline
    OBVIOUS
  <1>1. Inv /\ [Next]_vars => Inv'
    BY EngineStep
  <1>2. Inv /\ [Next]_vars => [KeepsDeadline]_vars
    BY DeadlineStep
  <1> QED
    BY <1>1, <1>2, EngineInit, PTL DEF Spec, HandoverHasDeadline, KeepsDeadline

-----------------------------------------------------------------------------
(* The refinement of SoftHandover. *)

(* What a switch does to address, plane and route: it prepares a handover, *)
(* or it rebuilds the access.                                              *)
LEMMA SwitchRefines ==
    ASSUME DisjointAccess, Inv, ~handover, NEW n \in Candidates, ExecuteSwitch(n)
    PROVE  Soft!Prepare \/ Soft!Rebuild
  <1>1. handover = FALSE /\ cur \in Contexts /\ handover' = CanSoftHandover(n)
    BY DEF Inv, TypeInv, TypeOK, ExecuteSwitch, BeginHandover, CanSoftHandover
  <1>2. CASE CanSoftHandover(n)
    <2>1. cur' = Entered(n) /\ UNCHANGED route
      BY <1>1, <1>2 DEF ExecuteSwitch
    <2>2. cur'.ip = cur.ip /\ cur'.plane = cur.plane /\ cur.ip # NoAddr
      BY <1>2, <2>1 DEF Entered, HardSwitch, CanSoftHandover
    <2> QED
      BY <1>1, <1>2, <2>1, <2>2 DEF Soft!Prepare
  <1>3. CASE ~CanSoftHandover(n)
    BY <1>1, <1>3 DEF Soft!Rebuild
  <1> QED
    BY <1>2, <1>3

LEMMA CommitRefines ==
    ASSUME Inv, handover, NEW i \in Interfaces, cur.dom \in Domains,
           CommitHandover(i, Leased(i, cur.dom))
    PROVE  Soft!Commit
  <1> DEFINE a == Leased(i, cur.dom)
  <1>1. cur \in Contexts /\ a \in Addresses /\ a # NoAddr
    BY AddressTypes DEF Inv, TypeInv, TypeOK
  <1>2. a.how = "leased" /\ a.iface = i
    BY DEF Leased
  <1>3. /\ cur' = Activated(cur, i, a) /\ route' = RouteVia(route, a)
        /\ handover' = FALSE
    BY DEF CommitHandover
  <1> HIDE DEF a
  <1>4. cur'.ip = a /\ cur'.plane = i
    BY <1>1, <1>3, ActivatedTypes
  <1>5. route' = [iface |-> a.iface, dom |-> a.dom]
    BY <1>1, <1>3 DEF RouteVia
  <1> QED
    BY <1>1, <1>2, <1>3, <1>4, <1>5 DEF Soft!Commit, Soft!RouteOf

LEMMA AbortRefines ==
    ASSUME Inv, handover, AbortHandover
    PROVE  Soft!Abort
  <1> DEFINE a == addr[prev.plane]
  <1>1. prev \in Contexts /\ prev.plane \in Interfaces /\ a \in Addresses \union {NoAddr}
    BY DEF Inv, TypeInv, TypeOK, Contexts
  <1>2. /\ cur.plane = prev.plane /\ cur.ip = a /\ cur.ip # NoAddr
    BY DEF Inv, EngineInv, PreparingInv
  <1>3. /\ cur' = Activated(prev, prev.plane, a) /\ route' = RouteVia(route, a)
        /\ handover' = FALSE
    BY DEF AbortHandover
  <1> HIDE DEF a
  <1>4. cur'.ip = a /\ cur'.plane = prev.plane
    BY <1>1, <1>2, <1>3, ActivatedTypes
  <1>5. route' = [iface |-> a.iface, dom |-> a.dom]
    BY <1>2, <1>3 DEF RouteVia
  <1> QED
    BY <1>2, <1>3, <1>4, <1>5 DEF Soft!Abort, Soft!RouteOf

LEMMA StepRefines ==
    ASSUME DisjointAccess
    PROVE  Inv /\ [Next]_vars => [Soft!Next]_Soft!vars
  <1> SUFFICES ASSUME Inv, [Next]_vars
               PROVE  Soft!Next \/ UNCHANGED <<cur.ip, cur.plane, route, handover>>
    BY DEF Soft!vars
  <1> USE DEF Soft!Next
  <1>0. "AP" \in Interfaces /\ "ADHOC" \in Interfaces /\ handover \in BOOLEAN
    BY DEF Interfaces, Inv, TypeInv, TypeOK
  <1>a. ~handover /\ ~handover' /\ UNCHANGED handover => Soft!Rebuild
    BY <1>0 DEF Soft!Rebuild
  <1>1. ASSUME NEW n \in Candidates, EvaluateAndSwitch(n)
        PROVE  Soft!Next \/ UNCHANGED <<cur.ip, cur.plane, route, handover>>
    BY <1>1, SwitchRefines DEF EvaluateAndSwitch, MaySwitchTo
  <1>2. ASSUME NEW n \in Candidates, DeferredSwitch(n) PROVE Soft!Next
    <2>1. ~handover
      BY <1>2 DEF DeferredSwitch, Inv, EngineInv, DeferredInv
    <2> QED
      BY <1>2, <2>1, SwitchRefines DEF DeferredSwitch
  <1>3. CASE StaRequestTimer \/ StrayStaRequest \/ AdhocRequestTimer
               \/ RetryStaIp \/ RetryAdhocIp \/ FinishOldPathGrace
               \/ DoAdhocDiscoveryScan \/ RestoreAdhocDomainChannel \/ UNCHANGED vars
    BY <1>3 DEF StaRequestTimer, StrayStaRequest, AdhocRequestTimer, RetryStaIp, RetryAdhocIp,
                FinishOldPathGrace, DoAdhocDiscoveryScan, RestoreAdhocDomainChannel, vars
  <1>4. CASE \E i \in Interfaces : RetryDone(i)
    BY <1>4 DEF RetryDone
  <1>5. CASE GiveUpStaIp
    <2>1. CASE handover
      BY <1>5, <2>1, AbortRefines DEF GiveUpStaIp
    <2>2. CASE ~handover
      BY <1>5, <1>a, <2>2 DEF GiveUpStaIp, FallbackAndRescan
    <2> QED
      BY <2>1, <2>2
  <1>6. CASE GiveUpAdhocIp
    <2>1. CASE handover
      <3>1. cur.plane # "ADHOC"
        BY <1>6, <2>1 DEF GiveUpAdhocIp, Inv, EngineInv, PreparingInv
      <3> QED
        BY <1>6, <2>1, <3>1, AbortRefines DEF GiveUpAdhocIp
    <2>2. CASE ~handover
      BY <1>6, <1>a, <2>2 DEF GiveUpAdhocIp, FallbackAndRescan
    <2> QED
      BY <2>1, <2>2
  <1>7. ASSUME NEW f \in air, Answer(f) \/ LoseFrame(f)
        PROVE  UNCHANGED <<cur.ip, cur.plane, route, handover>>
    BY <1>7 DEF Answer, LoseFrame
  <1>8. ASSUME NEW f \in air, HearStaOffer(f) PROVE Soft!Next
    <2>1. CASE ~handover
      BY <1>8, <1>a, <2>1 DEF HearStaOffer
    <2>2. CASE handover
      <3>1. cur.net = [type |-> "AP", dom |-> f.dom]
        BY <1>8 DEF HearStaOffer, VerifyStaOfferSecurity
      <3>2. f.dom = cur.dom /\ cur.dom \in DomainsOf(cur.type) /\ cur.type \in Interfaces
        BY <3>1 DEF Inv, EngineInv, ContextInv, NoNet, DefaultNet, TypeInv, TypeOK, Contexts
      <3>3. cur.dom \in Domains
        BY <3>2, InterfaceOfDomain
      <3>4. CommitHandover("AP", Leased("AP", cur.dom))
        BY <1>8, <2>2, <3>2 DEF HearStaOffer
      <3> QED
        BY <1>0, <2>2, <3>3, <3>4, CommitRefines
    <2> QED
      BY <2>1, <2>2
  <1>9. ASSUME NEW f \in air, HearAdhocOffer(f)
        PROVE  Soft!Next \/ UNCHANGED <<cur.ip, cur.plane, route, handover>>
    <2>1. CASE ~handover
      BY <1>9, <1>a, <2>1 DEF HearAdhocOffer
    <2>2. CASE handover
      <3>1. /\ pending["ADHOC"].tx # 0 /\ pending["ADHOC"].dom = cur.dom
            /\ f.kind = "offer" /\ f.iface = "ADHOC" /\ f.tx = pending["ADHOC"].tx
        BY <1>9 DEF HearAdhocOffer, IsExpectedOffer
      <3>2. f.dom = cur.dom /\ cur.dom \in DomainsOf("ADHOC")
        BY <1>0, <3>1 DEF Inv, EngineInv, RequestsInv
      <3>3. cur.dom \in Domains
        BY <1>0, <3>2, InterfaceOfDomain
      <3>4. \/ UNCHANGED <<cur, route, handover>>
            \/ CommitHandover("ADHOC", Leased("ADHOC", cur.dom))
        BY <1>9, <2>2, <3>2 DEF HearAdhocOffer
      <3> QED
        BY <1>0, <2>2, <3>3, <3>4, CommitRefines
    <2> QED
      BY <2>1, <2>2
  <1> QED
    BY <1>1, <1>2, <1>3, <1>4, <1>5, <1>6, <1>7, <1>8, <1>9 DEF Next

(* The terminal implements SoftHandover: traffic keeps its address, its    *)
(* plane and its route through a preparation, moves all three at once at a *)
(* commit and keeps them at an abort.                                      *)
THEOREM TerminalImplementsSoftHandover ==
    DisjointAccess /\ RadioMayStall = FALSE => (Spec => ImplementsSoftHandover)
  <1> SUFFICES ASSUME DisjointAccess, RadioMayStall = FALSE
               PROVE  Spec => ImplementsSoftHandover
    OBVIOUS
  <1>1. Inv /\ [Next]_vars => Inv'
    BY EngineStep
  <1>2. Init => Soft!Init
    BY DEF Init, Soft!Init, Unattached
  <1>3. Inv /\ [Next]_vars => [Soft!Next]_Soft!vars
    BY StepRefines
  <1> QED
    BY <1>1, <1>2, <1>3, EngineInit, PTL DEF Spec, Soft!Spec, ImplementsSoftHandover

===============================================================================

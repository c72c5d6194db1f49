------------------------- MODULE AccessDecisionProofs -------------------------
(* Proofs that the handover guard tells the truth about the past, that a    *)
(* voluntary switch is earned, and that a configured terminal does not      *)
(* ping-pong, for any networks and any times.                               *)
EXTENDS AccessDecision, TLAPS

(* What the age arithmetic yields.                                         *)
LEMMA OlderType ==
    ASSUME NEW limit \in Nat, NEW age \in 0..limit
    PROVE  Older(age, limit) \in 0..limit /\ Older(age, limit) >= age
BY DEF Older, Min2

LEMMA CountType ==
    ASSUME NEW c \in 0..Required
    PROVE  Min2(c + 1, Required) \in 1..Required
BY TimesAssumption DEF Min2

LEMMA NeverType == Lifetime \in Nat /\ Expired \in Nat /\ Never \in Nat
                   /\ Lifetime < Expired /\ Expired < Never
BY TimesAssumption DEF Expired, Never

(* The time to trigger is never shorter than its lower bound.              *)
LEMMA EffectiveTttBound ==
    ASSUME NEW current \in Trends, NEW target \in Trends, NEW emergency \in BOOLEAN
    PROVE  /\ EffectiveTtt(current, target, emergency) \in Int
           /\ EffectiveTtt(current, target, emergency) >= 100 * MinTtt
<1>1. TttScale(current, target, emergency) \in Int
  BY DEF TttScale
<1>2. (Ttt * Max2(100, TttScale(current, target, emergency))) \div 10 \in Int
  BY <1>1, TimesAssumption DEF Max2
<1> DEFINE x == (Ttt * Max2(100, TttScale(current, target, emergency))) \div 10
<1> HIDE DEF x
<1>3. EffectiveTtt(current, target, emergency) = Max2(100 * MinTtt, Min2(100 * MaxTtt, x))
  BY DEF EffectiveTtt, x
<1>4. x \in Int
  BY <1>2 DEF x
<1> QED BY <1>3, <1>4, TimesAssumption DEF Max2, Min2

LEMMA TablesType ==
    ASSUME heard \in [Nets -> 0..Never], seen \in [Nets -> 0..Never]
    PROVE  /\ Update \in [Nets -> 0..Never]
           /\ Purge(Update) \in [Nets -> 0..Never]
           /\ \A n \in Candidates(Purge(Update)) : n \in Nets /\ Purge(Update)[n] <= Lifetime
<1>1. Update \in [Nets -> 0..Never]
  BY DEF Update
<1>2. Purge(Update) \in [Nets -> 0..Never]
  BY <1>1, NeverType DEF Purge
<1>3. ASSUME NEW n \in Candidates(Purge(Update)) PROVE n \in Nets /\ Purge(Update)[n] <= Lifetime
  BY <1>1, <1>3, NeverType DEF Purge, Candidates
<1> QED BY <1>1, <1>2, <1>3

LEMMA GuardTypes ==
    /\ NoGuard \in Guards
    /\ \A g \in Guards : g.net \in Nets \union {NoNet} /\ g.count \in 0..Required
                         /\ g.age \in 0..MaxTtt /\ (g.net = NoNet => g = NoGuard)
    /\ \A n \in Nets : [net |-> n, count |-> 1, age |-> 0] \in Guards
BY NetsAssumption, TimesAssumption DEF Guards, NoGuard

LEMMA SwitchTypes ==
    /\ NoSwitch \in Records /\ Earned(NoSwitch) /\ ~Settled(NoSwitch)
    /\ \A d \in Records : d.net \in Nets \union {NoNet} /\ d.voluntary \in BOOLEAN
                          /\ d.urgent \in BOOLEAN
BY NeverType, TimesAssumption DEF NoSwitch, Records, Earned, Settled

LEMMA InitInv == Init => DecisionInv
<1> SUFFICES ASSUME Init PROVE DecisionInv
  OBVIOUS
<1>1. MaxDue \in Nat
  BY TimesAssumption DEF MaxDue
<1>2. TypeOK
  <2>1. heard \in [Nets -> 0..Never] /\ seen \in [Nets -> 0..Never]
    BY NeverType DEF Init
  <2>2. due \in [0..MaxDue -> Nat]
    BY <1>1 DEF Init
  <2>3. guard \in Guards /\ streak \in Guards /\ deferred \subseteq Records
        /\ executed \in Records /\ sinceSwitch \in 0..Dwell
    BY GuardTypes, SwitchTypes, TimesAssumption DEF Init
  <2> QED BY <2>1, <2>2, <2>3 DEF Init, TypeOK
<1>3. GuardMatchesHistory /\ NetworkIsNamed
  BY NetsAssumption DEF Init, GuardMatchesHistory, NetworkIsNamed, NoGuard
<1>4. deferred = {} /\ executed = NoSwitch
  BY DEF Init
<1>5. DeferredIsEarned /\ NoPingPong
  BY <1>4, SwitchTypes DEF DeferredIsEarned, NoPingPong
<1> QED BY <1>2, <1>3, <1>5 DEF DecisionInv

(* One switch, executed now: d was earned and, when it leaves a network,   *)
(* the dwell time has passed.                                              *)
LEMMA ExecuteKeepsAccess ==
    ASSUME DecisionInv, NEW d \in Records, ExecuteSwitch(d), d.net \in Nets
    PROVE  /\ at' \in Nets \union {NoNet}
           /\ label' \in Nets \union {NoNet, OwnSsid}
           /\ ready' \in BOOLEAN /\ handover' \in BOOLEAN
           /\ prev' \in [net : Nets \union {NoNet}, label : Nets \union {NoNet, OwnSsid}]
           /\ sinceSwitch' \in 0..Dwell
           /\ executed' \in Records
           /\ NetworkIsNamed'
           /\ Earned(d) => Earned(executed')
           /\ (Settled(d) => sinceSwitch >= Dwell) => NoPingPong'
<1> USE DEF DecisionInv, TypeOK
<1>1. /\ at' = d.net /\ label' = d.net /\ sinceSwitch' = 0
      /\ executed' = [d EXCEPT !.held = sinceSwitch]
      /\ ready' = (ready /\ (d.net = at \/ (at # NoNet /\ CrossInterface(d.net))))
  BY DEF ExecuteSwitch
<1>2. \/ handover' = TRUE /\ prev' = [net |-> at, label |-> label] /\ at # NoNet
      \/ UNCHANGED <<handover, prev>>
  BY DEF ExecuteSwitch, BeginHandover
<1>3. executed' \in Records
  BY <1>1 DEF Records
<1>4. executed'.held = sinceSwitch /\ executed'.voluntary = d.voluntary
      /\ executed'.urgent = d.urgent /\ executed'.count = d.count
      /\ executed'.span = d.span /\ executed'.ttt = d.ttt /\ executed'.seen = d.seen
  BY <1>1 DEF Records
<1>5. NetworkIsNamed'
  BY <1>1, <1>2, NetsAssumption DEF NetworkIsNamed
<1>6. Earned(d) => Earned(executed')
  BY <1>4 DEF Earned
<1>7. (Settled(d) => sinceSwitch >= Dwell) => NoPingPong'
  BY <1>4 DEF NoPingPong, Settled
<1>8. prev' \in [net : Nets \union {NoNet}, label : Nets \union {NoNet, OwnSsid}] /\ handover' \in BOOLEAN
  <2>1. CASE UNCHANGED <<handover, prev>>
    BY <2>1
  <2>2. CASE handover' = TRUE /\ prev' = [net |-> at, label |-> label]
    <3>1. at \in Nets \union {NoNet} /\ label \in Nets \union {NoNet, OwnSsid}
      OBVIOUS
    <3> HIDE DEF DecisionInv, TypeOK
    <3> QED BY <2>2, <3>1
  <2> QED BY <1>2, <2>1, <2>2
<1>9. ready' \in BOOLEAN
  BY <1>1
<1> QED BY <1>1, <1>3, <1>5, <1>6, <1>7, <1>8, <1>9, TimesAssumption

(* The part of the invariant that a selection can disturb.                 *)
AccessOK ==
    /\ at \in Nets \union {NoNet}
    /\ label \in Nets \union {NoNet, OwnSsid}
    /\ ready \in BOOLEAN /\ handover \in BOOLEAN
    /\ prev \in [net : Nets \union {NoNet}, label : Nets \union {NoNet, OwnSsid}]
    /\ sinceSwitch \in 0..Dwell
    /\ deferred \subseteq {d \in Records : d.net \in Nets} /\ executed \in Records
    /\ NetworkIsNamed
    /\ DeferredIsEarned
    /\ OwnSsid \in Nets => NoPingPong

LEMMA NothingSelected ==
    ASSUME DecisionInv, NoTarget, deferred # {} => guard'.age = 0
    PROVE  AccessOK'
<1>1. UNCHANGED <<at, label, ready, handover, prev, sinceSwitch, deferred>> /\ executed' = NoSwitch
  BY DEF NoTarget, accessVars
<1>2. DeferredIsEarned'
  BY <1>1, SwitchTypes DEF DecisionInv, DeferredIsEarned, Earned, Settled
<1>3. NoPingPong' /\ executed' \in Records
  BY <1>1, SwitchTypes DEF NoPingPong, Settled
<1> QED BY <1>1, <1>2, <1>3 DEF AccessOK, DecisionInv, TypeOK, NetworkIsNamed

LEMMA SelectKeepsAccess ==
    ASSUME DecisionInv, NEW d \in Records, SelectTarget(d), d.net \in Nets,
           Earned(d), guard' = NoGuard,
           \A e \in deferred : ~e.voluntary,
           d.voluntary => deferred = {} /\ at # NoNet /\ ready /\ ~handover,
           OwnSsid \in Nets /\ Settled(d) => sinceSwitch >= Dwell
    PROVE  AccessOK'
<1>1. guard'.age = 0
  BY DEF NoGuard
<1>2. CASE ExecuteSwitch(d) /\ UNCHANGED deferred
  <2>1. Earned(executed')
    BY <1>2, ExecuteKeepsAccess
  <2>2. DeferredIsEarned'
    BY <1>1, <1>2, <2>1 DEF DecisionInv, DeferredIsEarned, Earned, Settled
  <2>3. OwnSsid \in Nets => NoPingPong'
    BY <1>2, ExecuteKeepsAccess
  <2> QED BY <1>2, <2>2, <2>3, ExecuteKeepsAccess DEF AccessOK, DecisionInv, TypeOK
<1>3. CASE /\ deferred' = deferred \union {d} /\ executed' = NoSwitch
           /\ UNCHANGED accessVars
  <2>1. UNCHANGED <<at, label, ready, handover, prev, sinceSwitch>>
    BY <1>3 DEF accessVars
  <2>2. \A e \in deferred' \union {executed'} : Earned(e)
    BY <1>3, SwitchTypes DEF DecisionInv, DeferredIsEarned
  <2>3. ASSUME NEW e \in deferred'
        PROVE  /\ e.voluntary => deferred' = {e} /\ ready' /\ at' # NoNet /\ ~handover'
               /\ OwnSsid \in Nets /\ Settled(e) => sinceSwitch' >= Dwell
    <3>1. CASE e \in deferred
      BY <2>1, <3>1 DEF Settled
    <3>2. CASE e = d
      BY <1>3, <2>1, <3>2
    <3> QED BY <1>3, <2>3, <3>1, <3>2
  <2>4. DeferredIsEarned'
    BY <1>1, <2>2, <2>3 DEF DeferredIsEarned, Earned, Settled
  <2>5. NoPingPong' /\ executed' \in Records
    BY <1>3, SwitchTypes DEF NoPingPong, Settled
  <2> QED BY <1>3, <2>1, <2>4, <2>5 DEF AccessOK, DecisionInv, TypeOK, NetworkIsNamed
<1> QED BY <1>2, <1>3 DEF SelectTarget

(* While a switch waits for the radio, the guard is too young to pass.     *)
LEMMA GuardTooYoung ==
    ASSUME DecisionInv, NEW ttt \in Int, ttt >= 100 * MinTtt, NEW net,
           GuardPassed(guard, net, ttt)
    PROVE  deferred = {}
<1>1. 100 * guard.age >= ttt
  BY DEF GuardPassed
<1>2. guard.age \in Nat
  BY GuardTypes, TimesAssumption DEF DecisionInv, TypeOK
<1>3. guard.age # 0
  BY <1>1, <1>2, TimesAssumption
<1> QED BY <1>3 DEF DecisionInv, DeferredIsEarned

(* What an evaluation establishes.                                         *)
EvaluationOK == guard' \in Guards /\ streak' \in Guards /\ GuardMatchesHistory' /\ AccessOK'

LEMMA ResetKeepsGuard ==
    ASSUME guard' = NoGuard, streak' \in Guards, AccessOK'
    PROVE  EvaluationOK
BY GuardTypes, NetsAssumption DEF EvaluationOK, GuardMatchesHistory, NoGuard

LEMMA EvidenceType ==
    ASSUME DecisionInv, streak' \in Guards, NEW net \in Nets, seen'[net] \in 0..Never,
           NEW eligible, NEW weak \in BOOLEAN, NEW ttt \in Int,
           NEW d,
           d = [net |-> net, voluntary |-> at # NoNet /\ ready,
                urgent |-> at \notin eligible \/ weak, count |-> streak'.count,
                span |-> streak'.age, ttt |-> ttt, seen |-> seen'[net], held |-> 0]
    PROVE  /\ d \in Records
           /\ d.net = net /\ d.voluntary = (at # NoNet /\ ready)
           /\ d.urgent = (at \notin eligible \/ weak)
           /\ d.count = streak'.count /\ d.span = streak'.age
           /\ d.ttt = ttt /\ d.seen = seen'[net]
<1> DEFINE voluntary == at # NoNet /\ ready
           urgent == at \notin eligible \/ weak
<1>1. voluntary \in BOOLEAN /\ urgent \in BOOLEAN
  OBVIOUS
<1>2. streak'.count \in Nat /\ streak'.age \in Nat /\ 0 \in 0..Dwell
  BY GuardTypes, TimesAssumption
<1>3. d = [net |-> net, voluntary |-> voluntary, urgent |-> urgent, count |-> streak'.count,
           span |-> streak'.age, ttt |-> ttt, seen |-> seen'[net], held |-> 0]
  OBVIOUS
<1> HIDE DEF voluntary, urgent
<1>4. d \in Records
  BY <1>1, <1>2, <1>3 DEF Records
<1> QED BY <1>3, <1>4 DEF voluntary, urgent

LEMMA InitialAccessKeeps ==
    ASSUME DecisionInv, seen' = Purge(Update), NEW eligible \in SUBSET Candidates(seen'),
           NEW best \in eligible, InitialAccess(eligible, best)
    PROVE  EvaluationOK
<1>0. PICK weak \in BOOLEAN : weak = FALSE
  OBVIOUS
<1> DEFINE d == Evidence(best, eligible, weak, 0)
<1>1. guard' = NoGuard /\ streak' = NoGuard /\ (at = NoNet \/ ~ready)
  BY NetsAssumption DEF InitialAccess, ResetHandoverGuard, CurrentKey, DecisionInv, NetworkIsNamed
<1>2. best \in Nets /\ seen'[best] \in 0..Never
  BY TablesType, NeverType DEF DecisionInv, TypeOK
<1>3. d \in Records /\ d.net = best /\ d.voluntary = FALSE
  <2>1. streak' \in Guards
    BY <1>1, GuardTypes
  <2>2. d \in Records /\ d.net = best /\ d.voluntary = (at # NoNet /\ ready)
    <3>1. d = [net |-> best, voluntary |-> at # NoNet /\ ready,
               urgent |-> at \notin eligible \/ weak, count |-> streak'.count,
               span |-> streak'.age, ttt |-> 0, seen |-> seen'[best], held |-> 0]
      BY DEF Evidence
    <3> HIDE DEF d
    <3> QED BY <1>2, <2>1, <3>1, EvidenceType
  <2>3. (at # NoNet /\ ready) = FALSE
    BY <1>1
  <2> QED BY <2>2, <2>3
<1>4. Earned(d) /\ ~Settled(d)
  BY <1>3 DEF Earned, Settled
<1>5. \A e \in deferred : ~e.voluntary
  BY <1>1, SwitchTypes DEF DecisionInv, DeferredIsEarned, TypeOK
<1>6. SelectTarget(d) \/ NoTarget
  BY <1>0 DEF InitialAccess, SwitchIfDwelt
<1>7. AccessOK'
  <2>1. CASE SelectTarget(d)
    <3> HIDE DEF d
    <3> QED BY <1>1, <1>2, <1>3, <1>4, <1>5, <2>1, SelectKeepsAccess
  <2>2. CASE NoTarget
    BY <1>1, <2>2, NothingSelected DEF NoGuard
  <2> QED BY <1>6, <2>1, <2>2
<1> QED BY <1>1, <1>7, GuardTypes, ResetKeepsGuard

LEMMA NoChangeKeeps ==
    ASSUME DecisionInv, guard' = NoGuard, streak' = NoGuard, NoTarget
    PROVE  EvaluationOK
BY NothingSelected, GuardTypes, ResetKeepsGuard DEF NoGuard

(* The streak of the network that has beaten the current one again.        *)
NextStreak(best) ==
    IF streak.net = best THEN [streak EXCEPT !.count = Min2(@ + 1, Required)]
    ELSE [net |-> best, count |-> 1, age |-> 0]

LEMMA StreakType ==
    ASSUME DecisionInv, NEW best \in Nets
    PROVE  /\ NextStreak(best) \in Guards
           /\ NextStreak(best).net = best
           /\ streak.net = best =>
                NextStreak(best).count = Min2(streak.count + 1, Required)
                /\ NextStreak(best).age = streak.age
<1>1. CASE streak.net = best
  <2>1. streak \in [net : Nets, count : 1..Required, age : 0..MaxTtt]
    BY <1>1, NetsAssumption DEF DecisionInv, TypeOK, Guards, NoGuard
  <2>2. Min2(streak.count + 1, Required) \in 1..Required
    BY <2>1, CountType
  <2> QED BY <1>1, <2>1, <2>2 DEF NextStreak, Guards
<1>2. CASE streak.net # best
  BY <1>2, GuardTypes DEF NextStreak
<1> QED BY <1>1, <1>2

LEMMA NextGuardKeeps ==
    ASSUME DecisionInv, NEW best \in Nets, guard' = NextGuard(guard, best),
           streak' = NextStreak(best), NoTarget
    PROVE  EvaluationOK
<1>1. CASE guard.net = best
  <2>1. guard \in [net : Nets, count : 1..Required, age : 0..MaxTtt]
    BY <1>1, NetsAssumption DEF DecisionInv, TypeOK, Guards, NoGuard
  <2>2. Min2(guard.count + 1, Required) \in 1..Required
    BY <2>1, CountType
  <2>3. guard' = [guard EXCEPT !.count = Min2(@ + 1, Required)]
    BY <1>1 DEF NextGuard
  <2>4. guard' \in Guards /\ guard'.net = best /\ guard'.age = guard.age
        /\ guard'.count = Min2(guard.count + 1, Required)
    BY <1>1, <2>1, <2>2, <2>3 DEF Guards
  <2>5. streak.net = best /\ guard.count <= streak.count /\ guard.age <= streak.age
    BY <1>1, NetsAssumption DEF DecisionInv, GuardMatchesHistory
  <2>6. streak.count \in Nat /\ guard.count \in Nat
    BY GuardTypes, TimesAssumption DEF DecisionInv, TypeOK
  <2>7. Min2(guard.count + 1, Required) <= Min2(streak.count + 1, Required)
    BY <2>5, <2>6, TimesAssumption DEF Min2
  <2>8. GuardMatchesHistory'
    BY <2>4, <2>5, <2>7, StreakType DEF GuardMatchesHistory
  <2>9. deferred # {} => guard'.age = 0
    BY <2>4 DEF DecisionInv, DeferredIsEarned
  <2> QED BY <2>4, <2>8, <2>9, StreakType, NothingSelected DEF EvaluationOK
<1>2. CASE guard.net # best
  <2>1. guard' = [net |-> best, count |-> 1, age |-> 0]
    BY <1>2 DEF NextGuard
  <2>2. streak'.net = best /\ streak'.count \in 1..Required /\ streak'.age \in 0..MaxTtt
        /\ streak' \in Guards
    BY StreakType, GuardTypes, NetsAssumption DEF Guards, NoGuard
  <2>3. guard' \in Guards /\ GuardMatchesHistory'
    BY <2>1, <2>2, GuardTypes, TimesAssumption DEF GuardMatchesHistory
  <2> QED BY <2>1, <2>2, <2>3, NothingSelected DEF EvaluationOK
<1> QED BY <1>1, <1>2

(* The decision to leave: earned, and after the dwell time.                *)
LEMMA HandoverKeeps ==
    ASSUME DecisionInv, ~handover, seen' = Purge(Update),
           NEW eligible \in SUBSET Candidates(seen'), NEW best \in eligible,
           CurrentKey # NoNet, ready, best # CurrentKey,
           NEW weak \in BOOLEAN, NEW ttt \in Int, ttt >= 100 * MinTtt,
           GuardPassed(guard, best, ttt),
           guard' = NoGuard, streak' = NextStreak(best),
           SwitchIfDwelt(Evidence(best, eligible, weak, ttt),
                         CurrentKey \notin eligible \/ weak)
    PROVE  EvaluationOK
<1> DEFINE d == Evidence(best, eligible, weak, ttt)
           emergency == CurrentKey \notin eligible \/ weak
<1>1. best \in Nets /\ seen'[best] \in 0..Never /\ seen'[best] <= Lifetime
  BY TablesType, NeverType DEF DecisionInv, TypeOK
<1>2. at # NoNet /\ CurrentKey = label
  BY DEF CurrentKey
<1>3. d \in Records /\ d.net = best /\ d.voluntary = TRUE
      /\ d.urgent = (at \notin eligible \/ weak)
      /\ d.count = streak'.count /\ d.span = streak'.age
      /\ d.ttt = ttt /\ d.seen = seen'[best]
  <2>1. streak' \in Guards
    BY <1>1, StreakType
  <2>2. /\ d \in Records /\ d.net = best /\ d.voluntary = (at # NoNet /\ ready)
        /\ d.urgent = (at \notin eligible \/ weak)
        /\ d.count = streak'.count /\ d.span = streak'.age
        /\ d.ttt = ttt /\ d.seen = seen'[best]
    <3>1. d = [net |-> best, voluntary |-> at # NoNet /\ ready,
               urgent |-> at \notin eligible \/ weak, count |-> streak'.count,
               span |-> streak'.age, ttt |-> ttt, seen |-> seen'[best], held |-> 0]
      BY DEF Evidence
    <3> HIDE DEF d
    <3> QED BY <1>1, <2>1, <3>1, EvidenceType
  <2>3. (at # NoNet /\ ready) = TRUE
    BY <1>2
  <2> QED BY <2>2, <2>3
<1>4. guard.net = best /\ guard.count + 1 >= Required /\ 100 * guard.age >= ttt
  BY DEF GuardPassed
<1>5. streak.net = best /\ guard.count <= streak.count /\ guard.age <= streak.age
  BY <1>1, <1>4, NetsAssumption DEF DecisionInv, GuardMatchesHistory
<1>6. guard.count \in Nat /\ guard.age \in Nat /\ streak.count \in Nat /\ streak.age \in Nat
  BY GuardTypes, TimesAssumption DEF DecisionInv, TypeOK
<1>7. streak'.count = Min2(streak.count + 1, Required) /\ streak'.age = streak.age
  BY <1>1, <1>5, StreakType
<1>8. streak'.count >= Required /\ 100 * streak'.age >= ttt
  BY <1>4, <1>5, <1>6, <1>7, TimesAssumption DEF Min2
<1>9. Earned(d)
  BY <1>1, <1>3, <1>8 DEF Earned
<1>10. deferred = {}
  BY GuardTooYoung
<1>11. OwnSsid \in Nets /\ Settled(d) => (DwellSatisfied(emergency) => sinceSwitch >= Dwell)
  BY <1>2, <1>3 DEF DwellSatisfied, Settled, DecisionInv, NetworkIsNamed
<1>12. (DwellSatisfied(emergency) /\ SelectTarget(d)) \/ NoTarget
  BY DEF SwitchIfDwelt
<1>13. AccessOK'
  <2>1. CASE DwellSatisfied(emergency) /\ SelectTarget(d)
    <3>1. OwnSsid \in Nets /\ Settled(d) => sinceSwitch >= Dwell
      BY <1>11, <2>1
    <3> HIDE DEF d, emergency
    <3> QED BY <1>1, <1>2, <1>3, <1>9, <1>10, <2>1, <3>1, SelectKeepsAccess
  <2>2. CASE NoTarget
    BY <1>10, <2>2, NothingSelected
  <2> QED BY <1>12, <2>1, <2>2
<1> QED BY <1>1, <1>13, StreakType, ResetKeepsGuard

LEMMA BetterNetworkKeeps ==
    ASSUME DecisionInv, ~handover, seen' = Purge(Update),
           NEW eligible \in SUBSET Candidates(seen'), NEW best \in eligible,
           BetterNetwork(eligible, best)
    PROVE  EvaluationOK
<1>1. CurrentKey # NoNet /\ ready /\ best # CurrentKey
  BY DEF BetterNetwork
<1> DEFINE found == CurrentKey \in eligible
           emergency(weak) == ~found \/ weak
           ttt(weak, current, target) ==
             EffectiveTtt(IF found THEN current ELSE Falling, target, emergency(weak))
<1>2. PICK gain \in BOOLEAN, weak \in BOOLEAN, current \in Trends, target \in Trends :
        IF found /\ ~gain
        THEN ResetHandoverGuard /\ streak' = NoGuard /\ NoTarget
        ELSE /\ streak' = NextStreak(best)
             /\ IF GuardPassed(guard, best, ttt(weak, current, target))
                THEN /\ ResetHandoverGuard
                     /\ SwitchIfDwelt(Evidence(best, eligible, weak, ttt(weak, current, target)),
                                      emergency(weak))
                ELSE guard' = NextGuard(guard, best) /\ NoTarget
  BY DEF BetterNetwork, NextStreak
<1> DEFINE t == ttt(weak, current, target)
<1>3. best \in Nets
  BY TablesType DEF DecisionInv, TypeOK
<1>4. t \in Int /\ t >= 100 * MinTtt
  <2>1. (IF found THEN current ELSE Falling) \in Trends /\ emergency(weak) \in BOOLEAN
    BY DEF Trends
  <2> QED BY <2>1, EffectiveTttBound
<1>5. CASE found /\ ~gain
  BY <1>2, <1>5, NoChangeKeeps DEF ResetHandoverGuard
<1>6. CASE ~(found /\ ~gain) /\ GuardPassed(guard, best, t)
  <2>1. /\ guard' = NoGuard /\ streak' = NextStreak(best)
        /\ SwitchIfDwelt(Evidence(best, eligible, weak, t), emergency(weak))
    BY <1>2, <1>6 DEF ResetHandoverGuard
  <2> HIDE DEF t
  <2> QED BY <1>1, <1>4, <1>6, <2>1, HandoverKeeps
<1>7. CASE ~(found /\ ~gain) /\ ~GuardPassed(guard, best, t)
  BY <1>2, <1>3, <1>7, NextGuardKeeps
<1> QED BY <1>5, <1>6, <1>7

LEMMA StayKeeps ==
    ASSUME DecisionInv, NEW best, StayWithBest(best)
    PROVE  EvaluationOK
BY NoChangeKeeps DEF StayWithBest, ResetHandoverGuard

LEMMA ScheduleType ==
    ASSUME NEW d \in [0..MaxDue -> Nat]
    PROVE  ScheduleEvaluate(d) \in [0..MaxDue -> Nat]
BY TimesAssumption DEF ScheduleEvaluate, MaxDue

LEMMA EvaluateAndSwitchKeeps ==
    ASSUME DecisionInv, EvaluateAndSwitch
    PROVE  DecisionInv'
<1>1. MaxDue \in Nat /\ Period \in 0..MaxDue /\ 0 \in 0..MaxDue
  BY TimesAssumption DEF MaxDue
<1>2. due' \in [0..MaxDue -> Nat]
  <2> DEFINE popped == [due EXCEPT ![0] = @ - 1]
  <2>1. popped \in [0..MaxDue -> Nat]
    BY <1>1 DEF EvaluateAndSwitch, DecisionInv, TypeOK
  <2>2. due' = ScheduleEvaluate(popped)
    BY DEF EvaluateAndSwitch
  <2> HIDE DEF popped
  <2> QED BY <1>1, <2>1, <2>2, ScheduleType
<1>3. heard' \in [Nets -> 0..Never] /\ seen' \in [Nets -> 0..Never]
  BY NeverType, TablesType DEF EvaluateAndSwitch, DecisionInv, TypeOK
<1>4. EvaluationOK
  <2>1. CASE handover
    <3>1. NoTarget /\ UNCHANGED <<guard, streak>>
      BY <2>1 DEF EvaluateAndSwitch
    <3>2. AccessOK'
      BY <3>1, NothingSelected DEF DecisionInv, DeferredIsEarned
    <3> QED BY <3>1, <3>2 DEF EvaluationOK, DecisionInv, TypeOK, GuardMatchesHistory
  <2>2. CASE ~handover
    <3>1. seen' = Purge(Update)
      BY <2>2 DEF EvaluateAndSwitch
    <3>2. PICK eligible \in SUBSET Candidates(seen') : Evaluate(eligible)
      BY <2>2 DEF EvaluateAndSwitch
    <3>3. CASE NoCandidate(eligible)
      BY <3>3, NoChangeKeeps DEF NoCandidate, ResetHandoverGuard
    <3>4. ASSUME NEW best \in eligible, InitialAccess(eligible, best)
          PROVE  EvaluationOK
      BY <3>1, <3>4, InitialAccessKeeps
    <3>5. ASSUME NEW best \in eligible, StayWithBest(best)
          PROVE  EvaluationOK
      BY <3>5, StayKeeps
    <3>6. ASSUME NEW best \in eligible, BetterNetwork(eligible, best)
          PROVE  EvaluationOK
      BY <2>2, <3>1, <3>6, BetterNetworkKeeps
    <3> QED BY <3>2, <3>3, <3>4, <3>5, <3>6 DEF Evaluate
  <2> QED BY <2>1, <2>2
<1> QED BY <1>2, <1>3, <1>4 DEF EvaluationOK, AccessOK, DecisionInv, TypeOK

LEMMA DeferredSwitchKeeps ==
    ASSUME DecisionInv, NEW d \in deferred, DeferredSwitch(d)
    PROVE  DecisionInv'
<1>1. ExecuteSwitch(d) /\ deferred' = deferred \ {d}
      /\ UNCHANGED <<heard, seen, guard, due, streak>>
  BY DEF DeferredSwitch, decisionVars
<1>2. d \in Records /\ d.net \in Nets /\ Earned(d)
  BY DEF DecisionInv, TypeOK, DeferredIsEarned
<1>3. OwnSsid \in Nets => (Settled(d) => sinceSwitch >= Dwell)
  BY DEF DecisionInv, DeferredIsEarned
<1>4. Earned(executed') /\ NetworkIsNamed' /\ (OwnSsid \in Nets => NoPingPong')
  BY <1>1, <1>2, <1>3, ExecuteKeepsAccess
<1>5. \A e \in deferred' : ~e.voluntary
  BY <1>1, SwitchTypes DEF DecisionInv, TypeOK, DeferredIsEarned
<1>6. DeferredIsEarned'
  BY <1>1, <1>4, <1>5 DEF DecisionInv, DeferredIsEarned, Earned, Settled
<1>7. TypeOK'
  BY <1>1, <1>2, ExecuteKeepsAccess DEF DecisionInv, TypeOK
<1>8. GuardMatchesHistory'
  BY <1>1 DEF DecisionInv, GuardMatchesHistory
<1> QED BY <1>4, <1>6, <1>7, <1>8 DEF DecisionInv

(* Steps that select nothing and keep what the guard is about.             *)
LEMMA QuietKeeps ==
    ASSUME DecisionInv, executed' = NoSwitch, deferred' = deferred,
           guard' = NoGuard \/ guard' = guard, streak' = streak,
           (\E d \in deferred : d.voluntary) =>
              ready' /\ at' # NoNet /\ ~handover' /\ sinceSwitch' = sinceSwitch
    PROVE  GuardMatchesHistory' /\ DeferredIsEarned' /\ NoPingPong' /\ executed' \in Records
           /\ guard' \in Guards /\ streak' \in Guards
<1>1. guard' \in Guards /\ streak' \in Guards
  BY GuardTypes DEF DecisionInv, TypeOK
<1>2. GuardMatchesHistory'
  BY DEF DecisionInv, GuardMatchesHistory, NoGuard
<1>3. NoPingPong' /\ executed' \in Records
  BY SwitchTypes DEF NoPingPong, Settled
<1>4. \A d \in deferred' \union {executed'} : Earned(d)
  BY SwitchTypes DEF DecisionInv, DeferredIsEarned
<1>5. deferred' # {} => guard'.age = 0
  BY DEF DecisionInv, DeferredIsEarned, NoGuard
<1>6. \A d \in deferred' :
         /\ d.voluntary => deferred' = {d} /\ ready' /\ at' # NoNet /\ ~handover'
         /\ OwnSsid \in Nets /\ Settled(d) => sinceSwitch' >= Dwell
  BY DEF DecisionInv, DeferredIsEarned, Settled
<1> QED BY <1>1, <1>2, <1>3, <1>4, <1>5, <1>6 DEF DeferredIsEarned, Earned, Settled

LEMMA OthersKeep ==
    ASSUME DecisionInv,
           \/ \E n \in Nets : Hear(n)
           \/ AddressArrives \/ CommitHandover \/ AbortHandover \/ FallbackAndRescan
    PROVE  DecisionInv'
<1>1. ASSUME NEW n \in Nets, Hear(n) PROVE DecisionInv'
  <2>1. heard' \in [Nets -> 0..Never]
    BY <1>1, NeverType DEF Hear, DecisionInv, TypeOK
  <2>2. /\ UNCHANGED <<seen, guard, due, streak, at, label, ready, handover, prev, sinceSwitch, deferred>>
        /\ executed' = NoSwitch
    BY <1>1 DEF Hear, accessVars
  <2> QED BY <2>1, <2>2, QuietKeeps DEF DecisionInv, TypeOK, NetworkIsNamed, DeferredIsEarned
<1>2. CASE AddressArrives
  <2>1. /\ UNCHANGED <<heard, seen, guard, due, streak, at, handover, prev, sinceSwitch, deferred>>
        /\ executed' = NoSwitch /\ ready' = TRUE /\ at # NoNet /\ ~ready
        /\ label' = IF at \in AdhocNets THEN OwnSsid ELSE label
    BY <1>2 DEF AddressArrives, decisionVars
  <2>2. NetworkIsNamed'
    BY <2>1, NetsAssumption DEF DecisionInv, NetworkIsNamed
  <2>3. GuardMatchesHistory' /\ DeferredIsEarned' /\ NoPingPong' /\ executed' \in Records
    BY <2>1, QuietKeeps DEF DecisionInv, DeferredIsEarned
  <2>4. TypeOK'
    BY <2>1, <2>3 DEF DecisionInv, TypeOK
  <2> QED BY <2>2, <2>3, <2>4 DEF DecisionInv
<1>3. CASE CommitHandover
  <2>1. /\ UNCHANGED <<heard, seen, guard, due, streak, at, label, prev, sinceSwitch, deferred>>
        /\ executed' = NoSwitch /\ ready' = TRUE /\ handover /\ handover' = FALSE
    BY <1>3 DEF CommitHandover, decisionVars
  <2>2. NetworkIsNamed'
    BY <2>1 DEF DecisionInv, NetworkIsNamed
  <2>3. GuardMatchesHistory' /\ DeferredIsEarned' /\ NoPingPong' /\ executed' \in Records
    BY <2>1, QuietKeeps DEF DecisionInv, DeferredIsEarned
  <2>4. TypeOK'
    BY <2>1, <2>3 DEF DecisionInv, TypeOK
  <2> QED BY <2>2, <2>3, <2>4 DEF DecisionInv
<1>4. CASE AbortHandover
  <2>1. /\ UNCHANGED <<heard, seen, streak, prev, sinceSwitch, deferred>>
        /\ executed' = NoSwitch /\ ready' = TRUE /\ handover /\ handover' = FALSE
        /\ at' = prev.net /\ label' = prev.label
        /\ guard' = NoGuard /\ due' = ScheduleEvaluate(due)
    BY <1>4 DEF AbortHandover, ResetHandoverGuard
  <2>2. NetworkIsNamed'
    BY <2>1 DEF DecisionInv, NetworkIsNamed
  <2>3. GuardMatchesHistory' /\ DeferredIsEarned' /\ NoPingPong' /\ executed' \in Records
        /\ guard' \in Guards
    BY <2>1, QuietKeeps DEF DecisionInv, DeferredIsEarned
  <2>4. TypeOK'
    BY <2>1, <2>3, ScheduleType DEF DecisionInv, TypeOK
  <2> QED BY <2>2, <2>3, <2>4 DEF DecisionInv
<1>5. CASE FallbackAndRescan
  <2>1. /\ UNCHANGED <<heard, seen, guard, streak, handover, prev, sinceSwitch, deferred>>
        /\ executed' = NoSwitch /\ ready' = FALSE /\ (~ready \/ handover)
        /\ at' = NoNet /\ label' = NoNet /\ due' = ScheduleEvaluate(due)
    BY <1>5 DEF FallbackAndRescan
  <2>2. NetworkIsNamed'
    BY <2>1 DEF DecisionInv, NetworkIsNamed
  <2>3. GuardMatchesHistory' /\ DeferredIsEarned' /\ NoPingPong' /\ executed' \in Records
    BY <2>1, QuietKeeps DEF DecisionInv, DeferredIsEarned
  <2>4. TypeOK'
    BY <2>1, <2>3, ScheduleType DEF DecisionInv, TypeOK
  <2> QED BY <2>2, <2>3, <2>4 DEF DecisionInv
<1> QED BY <1>1, <1>2, <1>3, <1>4, <1>5

LEMMA GuardAges ==
    ASSUME NEW g \in Guards
    PROVE  /\ GuardOlder(g) \in Guards /\ GuardOlder(g).net = g.net
           /\ GuardOlder(g).count = g.count
           /\ g.net # NoNet => GuardOlder(g).age = Older(g.age, MaxTtt)
<1>1. CASE g.net = NoNet
  BY <1>1 DEF GuardOlder
<1>2. CASE g.net # NoNet
  <2>1. g \in [net : Nets, count : 1..Required, age : 0..MaxTtt]
    BY <1>2 DEF Guards, NoGuard
  <2>2. Older(g.age, MaxTtt) \in 0..MaxTtt
    BY <2>1, OlderType, TimesAssumption
  <2>3. GuardOlder(g) = [g EXCEPT !.age = Older(@, MaxTtt)]
    BY <1>2 DEF GuardOlder
  <2> QED BY <1>2, <2>1, <2>2, <2>3 DEF Guards
<1> QED BY <1>1, <1>2

LEMMA AdvanceKeeps ==
    ASSUME DecisionInv, Advance
    PROVE  DecisionInv'
<1>1. /\ UNCHANGED <<at, label, ready, handover, prev, deferred>>
      /\ executed' = NoSwitch /\ deferred = {}
      /\ guard' = GuardOlder(guard) /\ streak' = GuardOlder(streak)
      /\ sinceSwitch' = Older(sinceSwitch, Dwell)
      /\ heard' = Aged(heard) /\ seen' = Aged(seen)
      /\ due' = [t \in 0..MaxDue |-> IF t = MaxDue THEN 0 ELSE due[t + 1]]
  BY DEF Advance
<1>2. ASSUME NEW table \in [Nets -> 0..Never] PROVE Aged(table) \in [Nets -> 0..Never]
  <2>1. ASSUME NEW n \in Nets, table[n] # Never PROVE Older(table[n], Expired) \in 0..Never
    BY <2>1, NeverType DEF Older, Min2
  <2> QED BY <2>1, NeverType DEF Aged
<1>3. due' \in [0..MaxDue -> Nat]
  <2>1. MaxDue \in Nat
    BY TimesAssumption DEF MaxDue
  <2>2. ASSUME NEW t \in 0..MaxDue, t # MaxDue PROVE due[t + 1] \in Nat
    BY <2>1, <2>2 DEF DecisionInv, TypeOK
  <2> QED BY <1>1, <2>1, <2>2
<1>4. sinceSwitch' \in 0..Dwell
  BY <1>1, OlderType, TimesAssumption DEF DecisionInv, TypeOK
<1>5. guard \in Guards /\ streak \in Guards
  BY DEF DecisionInv, TypeOK
<1>6. TypeOK'
  BY <1>1, <1>2, <1>3, <1>4, <1>5, GuardAges, SwitchTypes DEF DecisionInv, TypeOK
<1>7. GuardMatchesHistory'
  <2> SUFFICES ASSUME guard.net # NoNet PROVE GuardMatchesHistory'
    BY <1>1, <1>5, GuardAges DEF GuardMatchesHistory
  <2>1. guard.net = streak.net /\ guard.count <= streak.count /\ guard.age <= streak.age
    BY DEF DecisionInv, GuardMatchesHistory
  <2>2. Older(guard.age, MaxTtt) <= Older(streak.age, MaxTtt)
    BY <1>5, <2>1, GuardTypes, TimesAssumption DEF Older, Min2
  <2> QED BY <1>1, <1>5, <2>1, <2>2, GuardAges DEF GuardMatchesHistory
<1>8. DeferredIsEarned' /\ NoPingPong'
  BY <1>1, SwitchTypes DEF DeferredIsEarned, Earned, NoPingPong, Settled
<1> QED BY <1>1, <1>6, <1>7, <1>8 DEF DecisionInv, NetworkIsNamed

LEMMA StutterKeeps == DecisionInv /\ UNCHANGED vars => DecisionInv'
BY DEF DecisionInv, TypeOK, GuardMatchesHistory, NetworkIsNamed, DeferredIsEarned,
       Earned, Settled, NoPingPong, vars, decisionVars, accessVars

(* The inductive invariant of the specification.                           *)
THEOREM DecisionInvariant == Spec => []DecisionInv
<1>1. ASSUME DecisionInv, Next PROVE DecisionInv'
  BY <1>1, EvaluateAndSwitchKeeps, DeferredSwitchKeeps, OthersKeep, AdvanceKeeps DEF Next
<1>2. DecisionInv /\ [Next]_vars => DecisionInv'
  BY <1>1, StutterKeeps
<1> QED BY InitInv, <1>2, PTL DEF Spec

(* Type correctness.                                                       *)
THEOREM TypeCorrect == Spec => []TypeOK
<1>1. DecisionInv => TypeOK
  BY DEF DecisionInv
<1> QED BY <1>1, DecisionInvariant, PTL

(* The guard never claims a longer or an older streak of wins of its target *)
(* than there was: Evaluate resets or restarts it in every other case.      *)
THEOREM GuardTellsTheTruth == Spec => []GuardMatchesHistory
<1>1. DecisionInv => GuardMatchesHistory
  BY DEF DecisionInv
<1> QED BY <1>1, DecisionInvariant, PTL

(* Every voluntary switch that ExecuteSwitch performs, at once or after     *)
(* waiting for a radio, had won its evaluations over the time to trigger.   *)
THEOREM VoluntarySwitchIsEarned == Spec => []SwitchIsEarned
<1>1. DecisionInv => SwitchIsEarned
  BY DEF DecisionInv, DeferredIsEarned, SwitchIsEarned
<1> QED BY <1>1, DecisionInvariant, PTL

(* A terminal whose own SSID is that of the only Ad-Hoc network keeps the   *)
(* dwell time between switches away from a usable network.                  *)
THEOREM ConfiguredTerminalDwells ==
    ASSUME OwnSsid \in Nets
    PROVE  Spec => []NoPingPong
<1>1. DecisionInv => NoPingPong
  BY DEF DecisionInv
<1> QED BY <1>1, DecisionInvariant, PTL
=============================================================================

---------------------------- MODULE AccessDecision ----------------------------
(***************************************************************************)
(* When a terminal changes its network: the candidate table and the        *)
(* handover guard of IntelligentAccessAlgorithm, driven by the periodic    *)
(* EvaluateAndSwitch of BlindConnectApp, which hands over to ExecuteSwitch.*)
(*                                                                         *)
(* Every network has a domain of its own, and Nets are the networks whose  *)
(* domain has a profile.  Scores are abstracted to their outcome (which    *)
(* networks are eligible, which is the best, does it beat the current one  *)
(* by more than the hysteresis, is the current one about to be lost), the  *)
(* signal trends to falling, steady and rising.  Ages are counted in ticks *)
(* and stop growing where no comparison tells them apart any more, so time *)
(* itself is unbounded.  A radio stays busy for less than a tick.          *)
(*                                                                         *)
(* streak and executed are history variables: no guard reads them.         *)
(***************************************************************************)
EXTENDS Integers, FiniteSets

CONSTANTS
    Nets,        \* networks that may be heard
    AdhocNets,   \* those joined through the Ad-Hoc interface
    OwnSsid,     \* m_adhocSsid of the terminal, a network or just a name
    NoNet,
    Lifetime,    \* CandidateLifetime
    Ttt, MinTtt, MaxTtt,  \* TimeToTrigger and the bounds of its adaptation
    Required,    \* ConsecutiveBetter
    Dwell,       \* the 8 s between switches
    Period,      \* the 500 ms of ScheduleEvaluate
    First,       \* the 3 s before the first evaluation
    MaxChains    \* bound on evaluation chains (model checking only)

ASSUME NetsAssumption ==
    /\ IsFiniteSet(Nets) /\ AdhocNets \subseteq Nets
    /\ NoNet \notin Nets \union {OwnSsid}
    /\ OwnSsid \in Nets => AdhocNets = {OwnSsid}
ASSUME TimesAssumption ==
    /\ Lifetime \in Nat /\ Ttt \in Nat /\ MinTtt \in Nat \ {0} /\ MaxTtt \in Nat
    /\ MinTtt <= MaxTtt
    /\ Required \in Nat \ {0} /\ Dwell \in Nat \ {0}
    /\ Period \in Nat \ {0} /\ First \in Nat \ {0}
    /\ MaxChains \in Nat \ {0}

VARIABLES
    heard,       \* m_neighborRadar: age of the strongest beacon of a network
    seen,        \* m_candidates: age of lastSeen
    guard,       \* m_guardTarget, m_consecutiveBetter, age of m_betterSince
    at,          \* the network joined (m_currentHops is 99 at NoNet)
    label,       \* m_currentSsid
    ready,       \* m_assignedIp is set
    handover,    \* m_handoverInProgress
    prev,        \* m_previousContext: network and SSID
    sinceSwitch, \* age of m_lastSwitchTime
    due,         \* ticks until each scheduled EvaluateAndSwitch
    deferred,    \* candidates of ExecuteSwitch calls put off for a busy radio
    streak,      \* history: which network has beaten the current one, since when
    executed     \* history: the switch that the last step executed

decisionVars == <<heard, seen, guard, due, streak>>
accessVars == <<at, label, ready, handover, prev, sinceSwitch>>
vars == <<decisionVars, accessVars, deferred, executed>>

(* Ages: Expired is older than any candidate lives, Never is no entry.     *)
Expired == Lifetime + 1
Never == Lifetime + 2
MaxDue == IF First > Period THEN First ELSE Period

NoGuard == [net |-> NoNet, count |-> 0, age |-> 0]
NoSwitch == [net |-> NoNet, voluntary |-> FALSE, urgent |-> FALSE,
             count |-> 0, span |-> 0, ttt |-> 0, seen |-> 0, held |-> 0]

Min2(a, b) == IF a <= b THEN a ELSE b
Max2(a, b) == IF a >= b THEN a ELSE b

(* One evaluation is pending per chain.                                    *)
Chains == {c \in (0..MaxDue) \X (1..MaxChains) : c[2] <= due[c[1]]}
ScheduleEvaluate(d) == [d EXCEPT ![Period] = @ + 1]

-----------------------------------------------------------------------------
(* The algorithm.                                                          *)

(* Update: the radar's observation of a network replaces the older one.    *)
Update == [n \in Nets |-> IF heard[n] # Never THEN heard[n] ELSE seen[n]]

(* Purge: a candidate not heard for longer than its lifetime is erased.    *)
Purge(table) ==
    [n \in Nets |-> IF table[n] > Lifetime THEN Never ELSE table[n]]
Candidates(table) == {n \in Nets : table[n] # Never}

(* The NetworkKey of the current network, as EvaluateAndSwitch makes it.   *)
CurrentKey == IF at = NoNet THEN NoNet ELSE label

Falling == -1
Steady == 0
Rising == 1
Trends == {Falling, Steady, Rising}

(* The adaptive time to trigger in hundredths of a tick; weights in        *)
(* thousandths.                                                            *)
TttScale(current, target, emergency) ==
    LET scale == 1000 - (IF current = Falling THEN 650 ELSE 0)
                      - (IF target = Rising THEN 250 ELSE 0)
                      + (IF target = Falling THEN 750 ELSE 0)
    IN  IF emergency THEN (scale * 3) \div 10 ELSE scale
EffectiveTtt(current, target, emergency) ==
    Max2(100 * MinTtt,
         Min2(100 * MaxTtt,
              (Ttt * Max2(100, TttScale(current, target, emergency))) \div 10))

(* The guard after an evaluation in which target beat the current network. *)
GuardPassedEarly(g, net, ttt) ==  \* a mutant: either condition suffices
    /\ g.net = net
    /\ g.count + 1 >= Required \/ 100 * g.age >= ttt
GuardPassed(g, net, ttt) ==
    /\ g.net = net
    /\ g.count + 1 >= Required
    /\ 100 * g.age >= ttt
GuardKeepingTarget(g, net) ==  \* a mutant: a new target inherits the count
    IF g.net = NoNet THEN [net |-> net, count |-> 1, age |-> 0]
    ELSE [g EXCEPT !.net = net, !.count = Min2(@ + 1, Required)]
NextGuard(g, net) ==
    IF g.net # net THEN [net |-> net, count |-> 1, age |-> 0]
    ELSE [g EXCEPT !.count = Min2(@ + 1, Required)]

-----------------------------------------------------------------------------
(* ExecuteSwitch, once the radios are free: a network of the other type is *)
(* prepared while the old one is kept, any other access starts from        *)
(* nothing; joining the same domain again keeps its address.               *)
CrossInterface(net) == (at \in AdhocNets) # (net \in AdhocNets)
BeginHandover(net) ==
    IF at # NoNet /\ net # at /\ ready /\ CrossInterface(net) /\ ~handover
    THEN handover' = TRUE /\ prev' = [net |-> at, label |-> label]
    ELSE UNCHANGED <<handover, prev>>
ExecuteSwitch(d) ==
    /\ sinceSwitch' = 0
    /\ at' = d.net /\ label' = d.net
    /\ ready' = (ready /\ (d.net = at \/ (at # NoNet /\ CrossInterface(d.net))))
    /\ BeginHandover(d.net)
    /\ executed' = [d EXCEPT !.held = sinceSwitch]

(* ResetHandoverGuard, and two mutants: nothing is reset, the target stays. *)
KeepHandoverGuard == UNCHANGED guard
ResetKeepingTarget == guard' = [guard EXCEPT !.count = 0, !.age = 0]
ResetHandoverGuard == guard' = NoGuard

(* The decision's target is switched to now, or 5 ms later while busy.     *)
SelectTarget(d) ==
    \/ ExecuteSwitch(d) /\ UNCHANGED deferred
    \/ deferred' = deferred \union {d} /\ executed' = NoSwitch /\ UNCHANGED accessVars

NoTarget == executed' = NoSwitch /\ UNCHANGED <<accessVars, deferred>>

(* The dwell time applies unless the decision is urgent or nothing is joined. *)
DwellIgnored(emergency) == TRUE  \* a mutant
DwellSatisfied(emergency) == emergency \/ at = NoNet \/ sinceSwitch >= Dwell

SwitchIfDwelt(d, emergency) ==
    IF DwellSatisfied(emergency) THEN SelectTarget(d) ELSE NoTarget

(* What a decision rests on, kept for the history.                         *)
Evidence(net, eligible, weak, ttt) ==
    [net |-> net, voluntary |-> at # NoNet /\ ready,
     urgent |-> at \notin eligible \/ weak, count |-> streak'.count,
     span |-> streak'.age, ttt |-> ttt, seen |-> seen'[net], held |-> 0]


NoCandidate(eligible) ==
    /\ eligible = {}
    /\ ResetHandoverGuard /\ streak' = NoGuard
    /\ NoTarget

InitialAccess(eligible, best) ==
    /\ CurrentKey = NoNet \/ ~ready
    /\ ResetHandoverGuard /\ streak' = NoGuard
    /\ SwitchIfDwelt(Evidence(best, eligible, FALSE, 0), FALSE)

StayWithBest(best) ==
    /\ CurrentKey # NoNet /\ ready /\ best = CurrentKey
    /\ ResetHandoverGuard /\ streak' = NoGuard
    /\ NoTarget

(* A better network: reset below the hysteresis, else start the guard,     *)
(* wait, or hand over.  A current network that is not among the eligible   *)
(* is beaten by every gain.                                                *)
BetterNetwork(eligible, best) ==
    /\ CurrentKey # NoNet /\ ready /\ best # CurrentKey
    /\ \E gain, weak \in BOOLEAN, current, target \in Trends :
         LET found == CurrentKey \in eligible
             emergency == ~found \/ weak
             ttt == EffectiveTtt(IF found THEN current ELSE Falling, target, emergency)
         IN  IF found /\ ~gain
             THEN ResetHandoverGuard /\ streak' = NoGuard /\ NoTarget
             ELSE /\ streak' = IF streak.net = best
                               THEN [streak EXCEPT !.count = Min2(@ + 1, Required)]
                               ELSE [net |-> best, count |-> 1, age |-> 0]
                  /\ IF GuardPassed(guard, best, ttt)
                     THEN /\ ResetHandoverGuard
                          /\ SwitchIfDwelt(Evidence(best, eligible, weak, ttt), emergency)
                     ELSE guard' = NextGuard(guard, best) /\ NoTarget

Evaluate(eligible) ==
    \/ NoCandidate(eligible)
    \/ \E best \in eligible : \/ InitialAccess(eligible, best)
                              \/ StayWithBest(best)
                              \/ BetterNetwork(eligible, best)

(* EvaluateAndSwitch: the radar is merged into the table and cleared; while *)
(* a handover is prepared nothing is decided; every path schedules the next. *)
EvaluateAndSwitch ==
    /\ due[0] > 0
    /\ due' = ScheduleEvaluate([due EXCEPT ![0] = @ - 1])
    /\ heard' = [n \in Nets |-> Never]
    /\ \/ /\ handover
          /\ seen' = Update
          /\ NoTarget /\ UNCHANGED <<guard, streak>>
       \/ /\ ~handover
          /\ seen' = Purge(Update)
          /\ \E eligible \in SUBSET Candidates(seen') : Evaluate(eligible)

DeferredSwitch(d) ==
    /\ d \in deferred
    /\ deferred' = deferred \ {d}
    /\ ExecuteSwitch(d)
    /\ UNCHANGED decisionVars

-----------------------------------------------------------------------------
(* What changes the access outside the evaluation.                         *)

(* A beacon: of those in the radar the strongest counts, old or new.       *)
Hear(n) ==
    /\ heard' \in {heard, [heard EXCEPT ![n] = 0]}
    /\ heard[n] = Never => heard'[n] = 0
    /\ executed' = NoSwitch
    /\ UNCHANGED <<seen, guard, due, streak, accessVars, deferred>>

(* The IP_OFFER of a first access; the requests start 500 ms (Ad-Hoc) and  *)
(* 3 s (STA) after the switch.  An Ad-Hoc offer renames the network.       *)
AddressArrives ==
    /\ at # NoNet /\ ~ready /\ ~handover /\ sinceSwitch > 0
    /\ ready' = TRUE
    /\ label' = IF at \in AdhocNets THEN OwnSsid ELSE label
    /\ executed' = NoSwitch
    /\ UNCHANGED <<decisionVars, at, handover, prev, sinceSwitch, deferred>>

CommitHandover ==
    /\ handover /\ at # NoNet /\ sinceSwitch > 0
    /\ handover' = FALSE /\ ready' = TRUE
    /\ executed' = NoSwitch
    /\ UNCHANGED <<decisionVars, at, label, prev, sinceSwitch, deferred>>

(* The retry limits are 8.5 s and 11 s after a switch.                     *)
AbortHandover ==
    /\ handover /\ at # NoNet /\ sinceSwitch >= Dwell
    /\ Cardinality(Chains) < MaxChains
    /\ handover' = FALSE /\ ready' = TRUE
    /\ at' = prev.net /\ label' = prev.label
    /\ ResetHandoverGuard
    /\ due' = ScheduleEvaluate(due)
    /\ executed' = NoSwitch
    /\ UNCHANGED <<heard, seen, streak, prev, sinceSwitch, deferred>>

FallbackAndRescan ==
    /\ at # NoNet /\ sinceSwitch >= Dwell
    /\ ~ready \/ (handover /\ prev.net \in AdhocNets)
    /\ Cardinality(Chains) < MaxChains
    /\ at' = NoNet /\ label' = NoNet /\ ready' = FALSE
    /\ due' = ScheduleEvaluate(due)
    /\ executed' = NoSwitch
    /\ UNCHANGED <<heard, seen, guard, streak, handover, prev, sinceSwitch, deferred>>

Older(age, limit) == Min2(age + 1, limit)
GuardOlder(g) == IF g.net = NoNet THEN g ELSE [g EXCEPT !.age = Older(@, MaxTtt)]
Aged(table) ==
    [n \in Nets |-> IF table[n] = Never THEN Never ELSE Older(table[n], Expired)]

Advance ==
    /\ due[0] = 0 /\ deferred = {}
    /\ due' = [t \in 0..MaxDue |-> IF t = MaxDue THEN 0 ELSE due[t + 1]]
    /\ heard' = Aged(heard) /\ seen' = Aged(seen)
    /\ guard' = GuardOlder(guard) /\ streak' = GuardOlder(streak)
    /\ sinceSwitch' = Older(sinceSwitch, Dwell)
    /\ executed' = NoSwitch
    /\ UNCHANGED <<at, label, ready, handover, prev, deferred>>

-----------------------------------------------------------------------------
Init ==
    /\ heard = [n \in Nets |-> Never] /\ seen = [n \in Nets |-> Never]
    /\ guard = NoGuard /\ streak = NoGuard
    /\ at = NoNet /\ label = NoNet /\ ready = FALSE
    /\ handover = FALSE /\ prev = [net |-> NoNet, label |-> NoNet]
    /\ sinceSwitch = 0
    /\ due = [t \in 0..MaxDue |-> IF t = First THEN 1 ELSE 0]
    /\ deferred = {} /\ executed = NoSwitch

Next ==
    \/ EvaluateAndSwitch
    \/ \E d \in deferred : DeferredSwitch(d)
    \/ \E n \in Nets : Hear(n)
    \/ AddressArrives \/ CommitHandover \/ AbortHandover \/ FallbackAndRescan
    \/ Advance

Spec == Init /\ [][Next]_vars

-----------------------------------------------------------------------------
Records ==
    [net : Nets \union {NoNet}, voluntary : BOOLEAN, urgent : BOOLEAN, count : Nat,
     span : Nat, ttt : Int, seen : 0..Never, held : 0..Dwell]
Guards == {NoGuard} \union [net : Nets, count : 1..Required, age : 0..MaxTtt]

(* Every variable has its type.                                            *)
TypeOK ==
    /\ heard \in [Nets -> 0..Never] /\ seen \in [Nets -> 0..Never]
    /\ guard \in Guards /\ streak \in Guards
    /\ at \in Nets \union {NoNet}
    /\ label \in Nets \union {NoNet, OwnSsid}
    /\ ready \in BOOLEAN /\ handover \in BOOLEAN
    /\ prev \in [net : Nets \union {NoNet}, label : Nets \union {NoNet, OwnSsid}]
    /\ sinceSwitch \in 0..Dwell
    /\ due \in [0..MaxDue -> Nat]
    /\ deferred \subseteq {d \in Records : d.net \in Nets} /\ executed \in Records

(* The guard never claims more than happened: whenever it is running, its  *)
(* target is the network that has been the best, by more than the          *)
(* hysteresis, in at least that many evaluations in a row and for at least *)
(* that long, although evaluations skip it during a handover, an abort     *)
(* resets it and a fallback does not (Evaluate, ResetHandoverGuard).       *)
GuardMatchesHistory ==
    guard.net # NoNet =>
        /\ guard.net = streak.net
        /\ guard.count <= streak.count
        /\ guard.age <= streak.age

(* A terminal that has an address leaves its network only for one that won *)
(* the required number of evaluations in a row, over the time to trigger   *)
(* of the last of them, and that was heard within the candidate lifetime - *)
(* however long a busy radio put the switch off (Evaluate, ExecuteSwitch). *)
Earned(d) ==
    d.voluntary => /\ d.count >= Required
                   /\ 100 * d.span >= d.ttt
                   /\ d.seen <= Lifetime
SwitchIsEarned == Earned(executed)

(* No ping-pong: a terminal with an address, whose own network is still an *)
(* eligible candidate and not about to be lost, executes no switch within  *)
(* the dwell time of the last one, even when evaluation chains multiply    *)
(* and switches wait for a busy radio (EvaluateAndSwitch, ExecuteSwitch;   *)
(* intelligent-access-algorithm.h gives the algorithm the ping-pong        *)
(* suppression).                                                           *)
Settled(d) == d.voluntary /\ ~d.urgent
NoPingPong == Settled(executed) => executed.held >= Dwell

(* The terminal always names the network it has joined; with its own SSID  *)
(* configured, by the right name.                                          *)
NetworkIsNamed ==
    /\ at # NoNet => label # NoNet
    /\ handover => prev.net # NoNet /\ prev.label # NoNet
    /\ OwnSsid \in Nets => label = at /\ prev.label = prev.net

(* A switch that waits for the radio was earned; when it leaves a network  *)
(* voluntarily, nothing can make another one join it before it is executed,*)
(* as the guard has just been reset and needs MinTtt.                      *)
DeferredIsEarned ==
    /\ \A d \in deferred \union {executed} : Earned(d)
    /\ deferred # {} => guard.age = 0
    /\ \A d \in deferred :
         /\ d.voluntary => deferred = {d} /\ ready /\ at # NoNet /\ ~handover
         /\ OwnSsid \in Nets /\ Settled(d) => sinceSwitch >= Dwell

(* The inductive invariant.                                                *)
DecisionInv ==
    /\ TypeOK
    /\ GuardMatchesHistory
    /\ NetworkIsNamed
    /\ DeferredIsEarned
    /\ OwnSsid \in Nets => NoPingPong
=============================================================================

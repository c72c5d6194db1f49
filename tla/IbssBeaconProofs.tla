--------------------------- MODULE IbssBeaconProofs ---------------------------
(***************************************************************************)
(* Proofs about IbssBeacon, for any number of stations, any beacon         *)
(* interval and any backoff shorter than it.                               *)
(***************************************************************************)
EXTENDS IbssBeacon, TLAPS

(* The part of the invariant beyond the properties it implies.             *)
AttemptsAhead(s) ==
    /\ heard[s] => generating[s]
    /\ attempts[s] > 0 => generating[s]
    /\ generating[s] => handle[s] \in 0..(L - now + MaxSlots)
    /\ generating[s] /\ attempts[s] > 0 => now + handle[s] >= L

LEMMA InvParts ==
    ElectionInv <=> /\ TypeOK /\ OneAttemptPending /\ Suppressed /\ OncePerPeriod
                    /\ \A s \in Stations : AttemptsAhead(s)
                    /\ fresh => air # {}
  BY DEF ElectionInv, AttemptsAhead

(* The next attempt is after the next TBTT, by less than an interval.      *)
LEMMA NextDelay ==
    ASSUME now \in 0..(L - 1), NEW d \in NextDelays
    PROVE  /\ d \in 1..(L - now + MaxSlots) /\ now + d >= L
           /\ d \in Delays /\ d # NoEvent /\ {d} \subseteq Delays
  BY TimesAssumption DEF NextDelays, TicksToTbtt, Delays

LEMMA InitElection == Init => ElectionInv
<1> SUFFICES ASSUME Init PROVE ElectionInv
  OBVIOUS
<1> USE TimesAssumption DEF Init
<1>1. PICK next \in [Initial -> NextDelays] :
        /\ events = [s \in Stations |-> IF s \in Initial THEN {next[s]} ELSE {}]
        /\ handle = [s \in Stations |-> IF s \in Initial THEN next[s] ELSE NoEvent]
  OBVIOUS
<1>2. \A s \in Initial : /\ next[s] \in Delays /\ {next[s]} \subseteq Delays
                         /\ next[s] \in 0..(L - now + MaxSlots)
  <2> TAKE s \in Initial
  <2>1. next[s] \in NextDelays /\ now \in 0..(L - 1)
    OBVIOUS
  <2> QED
    BY <2>1, NextDelay
<1>3. TypeOK
  <2>1. events \in [Stations -> SUBSET Delays]
    BY <1>1, <1>2
  <2>2. handle \in [Stations -> Delays \union {NoEvent}]
    BY <1>1, <1>2
  <2>3. /\ generating \in [Stations -> BOOLEAN] /\ heard \in [Stations -> BOOLEAN]
        /\ queued \in [Stations -> 0..MaxQueued] /\ attempts \in [Stations -> Nat]
        /\ now \in 0..(L - 1)
    OBVIOUS
  <2> QED
    BY <2>1, <2>2, <2>3 DEF TypeOK
<1>4. OneAttemptPending
  BY <1>1 DEF OneAttemptPending
<1>5. Suppressed /\ OncePerPeriod
  BY DEF Suppressed, OncePerPeriod
<1>6. \A s \in Stations : AttemptsAhead(s)
  <2> TAKE s \in Stations
  <2>1. ~heard[s] /\ ~(attempts[s] > 0)
    OBVIOUS
  <2>2. generating[s] => handle[s] \in 0..(L - now + MaxSlots)
    <3>1. generating[s] => s \in Initial
      OBVIOUS
    <3>2. s \in Initial => handle[s] = next[s]
      BY <1>1
    <3> QED
      BY <1>2, <3>1, <3>2
  <2> QED
    BY <2>1, <2>2 DEF AttemptsAhead
<1> QED
  BY <1>3, <1>4, <1>5, <1>6, InvParts

-----------------------------------------------------------------------------
(* An attempt: it was due before the TBTT that the next one is drawn for,  *)
(* so that it is the first of this period.                                 *)
LEMMA SendInv ==
    ASSUME ElectionInv, NEW s \in Stations, Send(s)
    PROVE  ElectionInv'
<1> USE TimesAssumption DEF medium
<1>1. TypeOK /\ OneAttemptPending /\ Suppressed /\ OncePerPeriod /\ (fresh => air # {})
  BY DEF ElectionInv
<1>2. \A x \in Stations : AttemptsAhead(x)
  BY InvParts
<1>3. /\ 0 \in events[s] /\ generating[s] /\ handle[s] = 0
      /\ UNCHANGED <<now, generating, air, fresh, called, heard>>
  BY <1>1 DEF Send, OneAttemptPending
<1>4. now \in 0..(L - 1) /\ attempts[s] \in Nat
  BY <1>1 DEF TypeOK
<1>5. attempts[s] = 0
  BY <1>2, <1>3, <1>4 DEF AttemptsAhead
<1>6. ~heard[s]
  BY <1>1, <1>3, <1>4 DEF Suppressed
<1>7. PICK d \in NextDelays :
        /\ queued' = [queued EXCEPT ![s] = IF @ < MaxQueued THEN @ + 1 ELSE @]
        /\ attempts' = [attempts EXCEPT ![s] = @ + 1]
        /\ handle' = [handle EXCEPT ![s] = d]
        /\ events' = [events EXCEPT ![s] = (@ \ {0}) \union {d}]
  BY <1>3 DEF Send
<1>8. /\ d \in 1..(L - now + MaxSlots) /\ now + d >= L
      /\ d \in Delays /\ d # NoEvent /\ {d} \subseteq Delays
  BY <1>4, NextDelay
<1>9. events[s] = {0}
  BY <1>1, <1>3 DEF OneAttemptPending
<1>10. TypeOK'
  <2>1. queued' \in [Stations -> 0..MaxQueued]
    BY <1>1, <1>7 DEF TypeOK
  <2>2. events' \in [Stations -> SUBSET Delays]
    BY <1>1, <1>7, <1>8, <1>9 DEF TypeOK
  <2>3. handle' \in [Stations -> Delays \union {NoEvent}]
    BY <1>1, <1>7, <1>8 DEF TypeOK
  <2>4. attempts' \in [Stations -> Nat]
    BY <1>1, <1>7 DEF TypeOK
  <2> QED
    BY <1>1, <1>3, <2>1, <2>2, <2>3, <2>4 DEF TypeOK
<1>11. OneAttemptPending'
  BY <1>1, <1>3, <1>7, <1>9 DEF OneAttemptPending, TypeOK
<1>12. Suppressed'
  BY <1>1, <1>3, <1>6, <1>7 DEF Suppressed, TypeOK
<1>13. OncePerPeriod'
  BY <1>1, <1>5, <1>7 DEF OncePerPeriod, TypeOK
<1>14. \A x \in Stations : AttemptsAhead(x)'
  BY <1>1, <1>2, <1>3, <1>7, <1>8 DEF AttemptsAhead, TypeOK
<1> QED
  BY <1>1, <1>3, <1>10, <1>11, <1>12, <1>13, <1>14 DEF ElectionInv, AttemptsAhead

(* Switching off cancels the one attempt, switching on starts the one.     *)
LEMMA SetGenerationInv ==
    ASSUME ElectionInv, NEW s \in Stations, SetCollaborativeBeaconGeneration(s)
    PROVE  ElectionInv'
<1> USE TimesAssumption DEF medium
<1>1. TypeOK /\ OneAttemptPending /\ Suppressed /\ OncePerPeriod /\ (fresh => air # {})
  BY DEF ElectionInv
<1>2. \A x \in Stations : AttemptsAhead(x)
  BY InvParts
<1>3. /\ called' = called \union {s}
      /\ generating' = [generating EXCEPT ![s] = ~@]
      /\ heard' = [heard EXCEPT ![s] = FALSE]
      /\ attempts' = [attempts EXCEPT ![s] = 0]
      /\ UNCHANGED <<now, queued, air, fresh>>
  BY DEF SetCollaborativeBeaconGeneration
<1>4. 0 \in Delays /\ 0 # NoEvent /\ 0 \in 0..(L - now + MaxSlots) /\ now \in 0..(L - 1)
  BY <1>1 DEF Delays, TypeOK
<1>5. PICK d \in {0, NoEvent} :
        /\ handle' = [handle EXCEPT ![s] = d]
        /\ events' = [events EXCEPT ![s] = IF generating'[s] THEN {d} ELSE {}]
        /\ generating'[s] => d = 0
  <2>0. generating[s] \in BOOLEAN /\ generating'[s] = ~generating[s]
    BY <1>1, <1>3 DEF TypeOK
  <2>1. CASE generating[s]
    <3>1. events[s] = {handle[s]}
      BY <1>1, <2>1 DEF OneAttemptPending
    <3>2. Disable(s)
      BY <2>1 DEF SetCollaborativeBeaconGeneration, Enable
    <3>3. CancelEvent(s) = {}
      BY <3>1 DEF CancelEvent
    <3> QED
      BY <2>0, <2>1, <3>2, <3>3 DEF Disable
  <2>2. CASE ~generating[s]
    <3>1. events[s] = {}
      BY <1>1, <2>2 DEF OneAttemptPending
    <3>2. Enable(s)
      BY <2>2 DEF SetCollaborativeBeaconGeneration, Disable
    <3>3. /\ events' = [events EXCEPT ![s] = {0}]
          /\ handle' = [handle EXCEPT ![s] = 0]
      BY <3>1, <3>2 DEF Enable
    <3> QED
      BY <2>0, <2>2, <3>3
  <2> QED
    BY <2>1, <2>2
<1>6. TypeOK'
  <2>1. events' \in [Stations -> SUBSET Delays]
    <3>1. (IF generating'[s] THEN {d} ELSE {}) \in SUBSET Delays
      BY <1>4, <1>5
    <3> QED
      BY <1>1, <1>5, <3>1 DEF TypeOK
  <2>2. handle' \in [Stations -> Delays \union {NoEvent}]
    BY <1>1, <1>4, <1>5 DEF TypeOK
  <2>3. generating' \in [Stations -> BOOLEAN]
    BY <1>1, <1>3 DEF TypeOK
  <2>4. heard' \in [Stations -> BOOLEAN] /\ attempts' \in [Stations -> Nat]
    BY <1>1, <1>3 DEF TypeOK
  <2> QED
    BY <1>1, <1>3, <2>1, <2>2, <2>3, <2>4 DEF TypeOK
<1>7. OneAttemptPending'
  BY <1>1, <1>3, <1>5 DEF OneAttemptPending, TypeOK
<1>8. Suppressed'
  BY <1>1, <1>3, <1>5 DEF Suppressed, TypeOK
<1>9. OncePerPeriod'
  BY <1>1, <1>3 DEF OncePerPeriod, TypeOK
<1>10. \A x \in Stations : AttemptsAhead(x)'
  BY <1>1, <1>2, <1>3, <1>4, <1>5 DEF AttemptsAhead, TypeOK
<1> QED
  BY <1>1, <1>3, <1>6, <1>7, <1>8, <1>9, <1>10 DEF ElectionInv, AttemptsAhead

LEMMA TransmitInv ==
    ASSUME ElectionInv, NEW s \in Stations, Transmit(s)
    PROVE  ElectionInv'
<1> USE DEF Transmit, history
<1>1. TypeOK /\ OneAttemptPending /\ Suppressed /\ OncePerPeriod
  BY DEF ElectionInv
<1>2. \A x \in Stations : AttemptsAhead(x)
  BY InvParts
<1>3. ~heard[s]
  BY <1>1 DEF Suppressed, TypeOK
<1>4. TypeOK'
  BY <1>1, TimesAssumption DEF TypeOK
<1>5. OneAttemptPending' /\ OncePerPeriod'
  BY <1>1 DEF OneAttemptPending, OncePerPeriod
<1>6. Suppressed'
  BY <1>1, <1>3 DEF Suppressed, TypeOK
<1>7. \A x \in Stations : AttemptsAhead(x)'
  BY <1>2 DEF AttemptsAhead
<1>8. air' # {}
  OBVIOUS
<1> QED
  BY <1>4, <1>5, <1>6, <1>7, <1>8 DEF ElectionInv, AttemptsAhead

(* Whoever hears the beacon has nothing queued, and its one attempt after  *)
(* the next TBTT.                                                          *)
LEMMA EndOfBeaconInv == ElectionInv /\ EndOfBeacon => ElectionInv'
<1> SUFFICES ASSUME ElectionInv, EndOfBeacon PROVE ElectionInv'
  OBVIOUS
<1> USE TimesAssumption
<1>1. TypeOK /\ OneAttemptPending /\ Suppressed /\ OncePerPeriod
  BY DEF ElectionInv
<1>2. \A x \in Stations : AttemptsAhead(x)
  BY InvParts
<1>3. /\ air' = {} /\ ~fresh
      /\ UNCHANGED <<now, generating, fresh, called, attempts>>
  BY DEF EndOfBeacon
<1>4. PICK hearers \in SUBSET {s \in Stations \ air : generating[s]} : Receive(hearers)
  BY DEF EndOfBeacon
<1>5. PICK next \in [hearers -> NextDelays] :
        /\ handle' = [s \in Stations |-> IF s \in hearers THEN next[s] ELSE handle[s]]
        /\ events' = [s \in Stations |->
              IF s \in hearers THEN CancelAndSchedule(s, next[s]) ELSE events[s]]
  BY <1>4 DEF Receive
<1>6. /\ queued' = [s \in Stations |-> IF s \in hearers THEN 0 ELSE queued[s]]
      /\ heard' = [s \in Stations |-> heard[s] \/ s \in hearers]
  BY <1>4 DEF Receive, Flush
<1>7. \A s \in hearers : /\ next[s] \in 1..(L - now + MaxSlots) /\ now + next[s] >= L
                         /\ next[s] \in Delays /\ {next[s]} \subseteq Delays
  <2> TAKE s \in hearers
  <2>1. next[s] \in NextDelays /\ now \in 0..(L - 1)
    BY <1>1 DEF TypeOK
  <2> QED
    BY <2>1, NextDelay
<1>8. \A s \in Stations :
        events'[s] = IF s \in hearers THEN {next[s]} ELSE events[s]
  <2> SUFFICES ASSUME NEW s \in Stations, s \in hearers
               PROVE  CancelAndSchedule(s, next[s]) = {next[s]}
    BY <1>5
  <2>1. events[s] = {handle[s]}
    BY <1>1, <1>4 DEF OneAttemptPending
  <2> QED
    BY <2>1 DEF CancelAndSchedule, CancelEvent
<1>9. \A s \in hearers : s \in Stations /\ generating[s]
  BY <1>4
<1>10. TypeOK'
  <2>1. queued' \in [Stations -> 0..MaxQueued] /\ heard' \in [Stations -> BOOLEAN]
    BY <1>1, <1>6 DEF TypeOK
  <2>2. handle' \in [Stations -> Delays \union {NoEvent}]
    BY <1>1, <1>5, <1>7 DEF TypeOK
  <2>3. events' \in [Stations -> SUBSET Delays]
    <3>1. \A s \in Stations : events'[s] \in SUBSET Delays
      <4> TAKE s \in Stations
      <4>1. CASE s \in hearers
        BY <1>7, <1>8, <4>1
      <4>2. CASE s \notin hearers
        BY <1>1, <1>8, <4>2 DEF TypeOK
      <4> QED
        BY <4>1, <4>2
    <3> QED
      BY <1>5, <3>1
  <2> QED
    BY <1>1, <1>3, <2>1, <2>2, <2>3 DEF TypeOK
<1>11. OneAttemptPending'
  BY <1>1, <1>3, <1>5, <1>8, <1>9 DEF OneAttemptPending
<1>12. Suppressed'
  <2> SUFFICES ASSUME NEW s \in Stations, heard'[s]
               PROVE  /\ queued'[s] = 0 /\ s \notin air'
                      /\ \A e \in events'[s] : now' + e >= L
    BY DEF Suppressed
  <2>1. CASE s \in hearers
    BY <1>3, <1>6, <1>7, <1>8, <2>1
  <2>2. CASE s \notin hearers
    BY <1>1, <1>3, <1>6, <1>8, <2>2 DEF Suppressed
  <2> QED
    BY <2>1, <2>2
<1>13. OncePerPeriod'
  BY <1>1, <1>3 DEF OncePerPeriod
<1>14. \A s \in Stations : AttemptsAhead(s)'
  <2> TAKE s \in Stations
  <2>1. CASE s \in hearers
    BY <1>3, <1>5, <1>7, <1>9, <2>1 DEF AttemptsAhead
  <2>2. CASE s \notin hearers
    BY <1>2, <1>3, <1>5, <1>6, <2>2 DEF AttemptsAhead
  <2> QED
    BY <2>1, <2>2
<1> QED
  BY <1>3, <1>10, <1>11, <1>12, <1>13, <1>14 DEF ElectionInv, AttemptsAhead

(* The attempts come one tick nearer; at a TBTT a new period begins.       *)
LEMMA TickInv == ElectionInv /\ Tick => ElectionInv'
<1> SUFFICES ASSUME ElectionInv, Tick PROVE ElectionInv'
  OBVIOUS
<1> USE TimesAssumption
<1>1. TypeOK /\ OneAttemptPending /\ Suppressed /\ OncePerPeriod
  BY DEF ElectionInv
<1>2. \A x \in Stations : AttemptsAhead(x)
  BY InvParts
<1>3. /\ \A s \in Stations : 0 \notin events[s]
      /\ events' = [s \in Stations |-> {e - 1 : e \in events[s]}]
      /\ handle' = [s \in Stations |->
            IF handle[s] \in events[s] THEN handle[s] - 1 ELSE NoEvent]
      /\ fresh' = FALSE /\ called' = {}
      /\ UNCHANGED <<generating, queued, air>>
  BY DEF Tick
<1>4. /\ now \in 0..(L - 1) /\ now' = IF now = L - 1 THEN 0 ELSE now + 1
  BY <1>1 DEF TypeOK, Tick
<1>5. /\ now' = 0 => \A s \in Stations : heard'[s] = FALSE /\ attempts'[s] = 0
      /\ now' # 0 => heard' = heard /\ attempts' = attempts
      /\ heard' \in [Stations -> BOOLEAN] /\ attempts' \in [Stations -> Nat]
  <2>1. CASE now' = 0
    <3>1. /\ heard' = [s \in Stations |-> FALSE]
          /\ attempts' = [s \in Stations |-> 0]
      BY <2>1 DEF Tick
    <3> QED
      BY <2>1, <3>1
  <2>2. CASE now' # 0
    <3>1. heard' = heard /\ attempts' = attempts
      BY <2>2 DEF Tick, history
    <3> QED
      BY <1>1, <2>2, <3>1 DEF TypeOK
  <2> QED
    BY <2>1, <2>2
<1>6. \A s \in Stations :
        /\ generating[s] => /\ handle[s] \in 1..(L - now + MaxSlots)
                            /\ handle'[s] = handle[s] - 1
                            /\ events'[s] = {handle[s] - 1}
        /\ ~generating[s] => events'[s] = {} /\ handle'[s] = NoEvent
  <2> TAKE s \in Stations
  <2>1. CASE generating[s]
    <3>1. events[s] = {handle[s]} /\ handle[s] # 0 /\ handle[s] \in 0..(L - now + MaxSlots)
      BY <1>1, <1>2, <1>3, <2>1 DEF OneAttemptPending, AttemptsAhead
    <3> QED
      BY <1>3, <1>4, <2>1, <3>1
  <2>2. CASE ~generating[s]
    BY <1>1, <1>3, <2>2 DEF OneAttemptPending
  <2> QED
    BY <2>1, <2>2
<1>7. \A s \in Stations : generating[s] =>
        /\ handle[s] - 1 \in Delays /\ {handle[s] - 1} \subseteq Delays
  BY <1>4, <1>6 DEF Delays
<1>8. TypeOK'
  <2>1. events' \in [Stations -> SUBSET Delays]
    <3>1. \A s \in Stations : events'[s] \in SUBSET Delays
      BY <1>6, <1>7
    <3> QED
      BY <1>3, <3>1
  <2>2. handle' \in [Stations -> Delays \union {NoEvent}]
    <3>1. \A s \in Stations : handle'[s] \in Delays \union {NoEvent}
      BY <1>6, <1>7
    <3> QED
      BY <1>3, <3>1
  <2>3. now' \in 0..(L - 1)
    BY <1>4
  <2> QED
    BY <1>1, <1>3, <1>5, <2>1, <2>2, <2>3 DEF TypeOK
<1>9. OneAttemptPending'
  BY <1>3, <1>6 DEF OneAttemptPending
<1>10. Suppressed'
  <2> SUFFICES ASSUME NEW s \in Stations, heard'[s]
               PROVE  /\ queued'[s] = 0 /\ s \notin air'
                      /\ \A e \in events'[s] : now' + e >= L
    BY DEF Suppressed
  <2>1. now' # 0 /\ now' = now + 1 /\ heard[s]
    BY <1>4, <1>5
  <2>2. generating[s] /\ events[s] = {handle[s]}
    BY <1>1, <1>2, <2>1 DEF OneAttemptPending, AttemptsAhead
  <2>3. queued[s] = 0 /\ s \notin air /\ now + handle[s] >= L
    BY <1>1, <2>1, <2>2 DEF Suppressed
  <2> QED
    BY <1>3, <1>4, <1>6, <2>1, <2>2, <2>3
<1>11. OncePerPeriod'
  BY <1>1, <1>5 DEF OncePerPeriod
<1>12. \A s \in Stations : AttemptsAhead(s)'
  <2> TAKE s \in Stations
  <2>1. CASE now' = 0
    <3>1. now = L - 1 /\ ~heard'[s] /\ attempts'[s] = 0
      BY <1>4, <1>5, <2>1
    <3> QED
      BY <1>3, <1>4, <1>6, <2>1, <3>1 DEF AttemptsAhead
  <2>2. CASE now' # 0
    <3>1. now' = now + 1 /\ heard' = heard /\ attempts' = attempts
      BY <1>4, <1>5, <2>2
    <3> QED
      BY <1>2, <1>3, <1>4, <1>6, <3>1 DEF AttemptsAhead
  <2> QED
    BY <2>1, <2>2
<1> QED
  BY <1>3, <1>8, <1>9, <1>10, <1>11, <1>12 DEF ElectionInv, AttemptsAhead

LEMMA StepInv == ElectionInv /\ [Next]_vars => ElectionInv'
<1> SUFFICES ASSUME ElectionInv, [Next]_vars PROVE ElectionInv'
  OBVIOUS
<1>1. CASE Next
  BY <1>1, SendInv, SetGenerationInv, TransmitInv, EndOfBeaconInv, TickInv DEF Next
<1>2. CASE UNCHANGED vars
  BY <1>2 DEF vars, medium, history, ElectionInv, TypeOK, OneAttemptPending, Suppressed,
     OncePerPeriod
<1> QED
  BY <1>1, <1>2

-----------------------------------------------------------------------------
(* The inductive invariant of the beacon election.                         *)
THEOREM ElectionInvariant == Spec => []ElectionInv
<1> QED
  BY InitElection, StepInv, PTL DEF Spec

(* Every variable has its type.                                            *)
THEOREM TypeCorrect == Spec => []TypeOK
<1>1. ElectionInv => TypeOK
  BY DEF ElectionInv
<1> QED
  BY <1>1, ElectionInvariant, PTL

(* Every generating station has exactly one attempt pending, the one it    *)
(* can cancel, and no other station has any.                               *)
THEOREM OneChainPerStation == Spec => []OneAttemptPending
<1>1. ElectionInv => OneAttemptPending
  BY DEF ElectionInv
<1> QED
  BY <1>1, ElectionInvariant, PTL

(* A beacon heard suppresses the station until the next TBTT (Receive).    *)
THEOREM HearingSuppresses == Spec => []Suppressed
<1>1. ElectionInv => Suppressed
  BY DEF ElectionInv
<1> QED
  BY <1>1, ElectionInvariant, PTL

(* No station makes two beacons in a period.                               *)
THEOREM OneBeaconPerPeriod == Spec => []OncePerPeriod
<1>1. ElectionInv => OncePerPeriod
  BY DEF ElectionInv
<1> QED
  BY <1>1, ElectionInvariant, PTL
=============================================================================

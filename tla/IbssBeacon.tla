------------------------------ MODULE IbssBeacon ------------------------------
(***************************************************************************)
(* The collaborative beacons of one Ad-Hoc network (AdhocWifiMac): at each *)
(* target beacon transmission time (TBTT) the stations that generate       *)
(* beacons draw a backoff, and a beacon heard first suppresses one's own.  *)
(*                                                                         *)
(* A tick is a backoff slot and a beacon interval has L of them; the clock *)
(* is kept modulo L, as all stations share the simulator's.  Stations are  *)
(* those of the same SSID on the same channel, after DoInitialize.  Their  *)
(* Txop and the medium are external: a queued beacon is sent when the      *)
(* medium is idle, or in the tick in which another one starts; it is heard *)
(* by any of the stations that do not send, or by none.                    *)
(*                                                                         *)
(* events are the pending SendCollaborativeBeacon calls of a station; a    *)
(* call that no handle refers to any more still runs.                      *)
(***************************************************************************)
EXTENDS Integers, FiniteSets

CONSTANTS
    Stations,
    Initial,     \* those whose generation is on at DoInitialize
    L,           \* m_collaborativeBeaconInterval
    MaxSlots,    \* m_collaborativeBeaconMaxBackoffSlots (0 without jitter)
    MaxQueued,   \* beacons younger than the queue's MaxDelay
    NoEvent

ASSUME StationsAssumption == Initial \subseteq Stations
ASSUME TimesAssumption ==
    /\ L \in Nat \ {0} /\ MaxSlots \in Nat /\ MaxSlots < L
    /\ MaxQueued \in Nat \ {0}
    /\ NoEvent \notin 0..(L + MaxSlots)

VARIABLES
    now,         \* ticks since the last TBTT
    generating,  \* m_collaborativeBeaconGeneration
    events,      \* ticks until each pending SendCollaborativeBeacon
    handle,      \* the one m_collaborativeBeaconEvent refers to
    queued,      \* beacons in m_collaborativeBeaconTxop
    air,         \* stations that are sending a beacon
    fresh,       \* they have started in this tick
    called,      \* SetCollaborativeBeaconGeneration called in this tick
    heard,       \* history: a beacon was heard in this period, while generating
    attempts     \* history: own beacons made in this period since then

medium == <<air, fresh>>
history == <<heard, attempts>>
vars == <<now, generating, events, handle, queued, medium, called, history>>

-----------------------------------------------------------------------------
(* ScheduleNextCollaborativeBeacon: the next TBTT is strictly later; one   *)
(* mutant takes the present one when it is just that, one skips a period.  *)
TicksToTbttNow == (L - now) % L
TicksToTbttSkipping == 2 * L - now
TicksToTbtt == L - now
NextDelays == {TicksToTbtt + slots : slots \in 0..MaxSlots}

(* Simulator::Cancel of the handle; nothing is cancelled in the mutant.    *)
KeepEvent(s) == events[s]
CancelEvent(s) == events[s] \ {handle[s]}

(* SendCollaborativeBeacon, when its time has come.                        *)
Send(s) ==
    /\ 0 \in events[s]
    /\ IF generating[s]
       THEN \E d \in NextDelays :
              /\ queued' = [queued EXCEPT ![s] = IF @ < MaxQueued THEN @ + 1 ELSE @]
              /\ attempts' = [attempts EXCEPT ![s] = @ + 1]
              /\ handle' = [handle EXCEPT ![s] = d]
              /\ events' = [events EXCEPT ![s] = (@ \ {0}) \union {d}]
       ELSE /\ events' = [events EXCEPT ![s] = @ \ {0}]
            /\ UNCHANGED <<queued, attempts, handle>>
    /\ UNCHANGED <<now, generating, medium, called, heard>>

(* SetCollaborativeBeaconGeneration: at most once a tick for a station.    *)
Disable(s) ==
    /\ generating[s]
    /\ events' = [events EXCEPT ![s] = CancelEvent(s)]
    /\ handle' = [handle EXCEPT ![s] = NoEvent]
Enable(s) ==
    /\ ~generating[s]
    /\ IF handle[s] \in events[s]
       THEN UNCHANGED <<events, handle>>
       ELSE /\ events' = [events EXCEPT ![s] = @ \union {0}]
            /\ handle' = [handle EXCEPT ![s] = 0]
SetCollaborativeBeaconGeneration(s) ==
    /\ s \notin called
    /\ called' = called \union {s}
    /\ Disable(s) \/ Enable(s)
    /\ generating' = [generating EXCEPT ![s] = ~@]
    /\ heard' = [heard EXCEPT ![s] = FALSE]
    /\ attempts' = [attempts EXCEPT ![s] = 0]
    /\ UNCHANGED <<now, queued, medium>>

-----------------------------------------------------------------------------
(* The Txop sends a queued beacon.                                         *)
Transmit(s) ==
    /\ queued[s] > 0 /\ s \notin air
    /\ air = {} \/ fresh
    /\ queued' = [queued EXCEPT ![s] = @ - 1]
    /\ air' = air \union {s} /\ fresh' = TRUE
    /\ UNCHANGED <<now, generating, events, handle, called, history>>

(* Receive: a generating station forgets its own beacon until the next     *)
(* TBTT, the queued one included - which the mutant keeps.                 *)
KeepQueue(hearers) == queued
Flush(hearers) == [s \in Stations |-> IF s \in hearers THEN 0 ELSE queued[s]]
CancelOnly(s, d) == CancelEvent(s)  \* a mutant
CancelAndSchedule(s, d) == CancelEvent(s) \union {d}
Receive(hearers) ==
    /\ queued' = Flush(hearers)
    /\ heard' = [s \in Stations |-> heard[s] \/ s \in hearers]
    /\ \E next \in [hearers -> NextDelays] :
         /\ handle' = [s \in Stations |-> IF s \in hearers THEN next[s] ELSE handle[s]]
         /\ events' = [s \in Stations |->
               IF s \in hearers THEN CancelAndSchedule(s, next[s]) ELSE events[s]]

(* The beacons on the air end; any of the other stations hear one of them. *)
EndOfBeacon ==
    /\ air # {} /\ ~fresh
    /\ air' = {}
    /\ \E hearers \in SUBSET {s \in Stations \ air : generating[s]} : Receive(hearers)
    /\ UNCHANGED <<now, generating, fresh, called, attempts>>

(* Time passes when everything due has run.                                *)
Tick ==
    /\ \A s \in Stations : 0 \notin events[s]
    /\ now' = (now + 1) % L
    /\ events' = [s \in Stations |-> {e - 1 : e \in events[s]}]
    /\ handle' = [s \in Stations |->
          IF handle[s] \in events[s] THEN handle[s] - 1 ELSE NoEvent]
    /\ fresh' = FALSE /\ called' = {}
    /\ IF now' = 0
       THEN /\ heard' = [s \in Stations |-> FALSE]
            /\ attempts' = [s \in Stations |-> 0]
       ELSE UNCHANGED history
    /\ UNCHANGED <<generating, queued, air>>

-----------------------------------------------------------------------------
(* DoInitialize, at the start of the simulation.                           *)
Init ==
    /\ now = 0
    /\ generating = [s \in Stations |-> s \in Initial]
    /\ \E next \in [Initial -> NextDelays] :
         /\ events = [s \in Stations |-> IF s \in Initial THEN {next[s]} ELSE {}]
         /\ handle = [s \in Stations |-> IF s \in Initial THEN next[s] ELSE NoEvent]
    /\ queued = [s \in Stations |-> 0]
    /\ air = {} /\ fresh = FALSE /\ called = {}
    /\ heard = [s \in Stations |-> FALSE]
    /\ attempts = [s \in Stations |-> 0]

Next ==
    \/ \E s \in Stations :
         Send(s) \/ SetCollaborativeBeaconGeneration(s) \/ Transmit(s)
    \/ EndOfBeacon \/ Tick

Spec == Init /\ [][Next]_vars

(* Events run, the medium is idle again and again, and time passes.        *)
FairSpec ==
    /\ Spec
    /\ \A s \in Stations : WF_vars(Send(s)) /\ WF_vars(Transmit(s))
    /\ WF_vars(EndOfBeacon) /\ WF_vars(Tick)

-----------------------------------------------------------------------------
Delays == 0..(L + MaxSlots)

(* Every variable has its type.                                            *)
TypeOK ==
    /\ now \in 0..(L - 1)
    /\ generating \in [Stations -> BOOLEAN]
    /\ events \in [Stations -> SUBSET Delays]
    /\ handle \in [Stations -> Delays \union {NoEvent}]
    /\ queued \in [Stations -> 0..MaxQueued]
    /\ air \subseteq Stations /\ fresh \in BOOLEAN /\ called \subseteq Stations
    /\ heard \in [Stations -> BOOLEAN]
    /\ attempts \in [Stations -> Nat]

(* A station that generates beacons has exactly one next attempt pending,  *)
(* the one it can cancel, and any other station has none: neither hearing  *)
(* a beacon nor switching the generation off and on, in any order with its *)
(* own attempts, starts a second chain or ends the only one                *)
(* (SetCollaborativeBeaconGeneration, SendCollaborativeBeacon, Receive).   *)
OneAttemptPending ==
    \A s \in Stations : events[s] = IF generating[s] THEN {handle[s]} ELSE {}

(* A beacon heard suppresses the station for the rest of the period: it    *)
(* has none queued or on the air, and makes none before the next TBTT,     *)
(* although the beacon may arrive while its own one waits for the medium   *)
(* (Receive; the comment there promises it).                               *)
Suppressed ==
    \A s \in Stations : heard[s] =>
        /\ queued[s] = 0 /\ s \notin air
        /\ \A e \in events[s] : now + e >= L

(* A station makes at most one beacon per period, whenever it was drawn    *)
(* and whatever it heard (ScheduleNextCollaborativeBeacon).                *)
OncePerPeriod == \A s \in Stations : attempts[s] <= 1

(* The election never silences the network: while a station goes on        *)
(* generating, some station sends a beacon again and again, although each  *)
(* one suppresses the others.                                              *)
BeaconsGoOn == \A s \in Stations : <>[](generating[s]) => []<>(air # {})

(* The inductive invariant: attempts are for the coming period once this   *)
(* one's has been made or a beacon was heard.                              *)
ElectionInv ==
    /\ TypeOK
    /\ OneAttemptPending
    /\ Suppressed
    /\ OncePerPeriod
    /\ \A s \in Stations :
         /\ heard[s] => generating[s]
         /\ attempts[s] > 0 => generating[s]
         /\ generating[s] => handle[s] \in 0..(L - now + MaxSlots)
         /\ generating[s] /\ attempts[s] > 0 => now + handle[s] >= L
    /\ fresh => air # {}
=============================================================================

# Intelligent access: TLA+ models and proofs

The repository is an ns-3 tree whose own program is an access system for mobile
terminals: `contrib/mymodule` (the application `BlindConnectApp`, the access
algorithm, the key exchange), a collaborative beacon in `src/wifi/model/adhoc-wifi-mac.cc`
and the scenario `scratch/train4-new.cc` that deploys them in three domains A, B and C.
This directory models the part of it where things can go wrong in ways a
simulation run seldom shows: who holds which address, what a handover does to the
path that carries the traffic, when the terminal decides to switch, what its radios and timers do
meanwhile, who sends the beacons it decides on - and the parallel driver `test.py` that runs the
tests of the tree.

Line numbers below are of `contrib/mymodule/model/blind-connect-app.cc` unless another
file is named.

## 1. The system

| Part | State it keeps | Operations | What makes it correct |
|---|---|---|---|
| Terminal engine (`ROLE_TERMINAL`) | current context (domain, network, SSID, address, data plane), previous context, handover flag, per-interface address, pending TXID, retry count, timers, radios' channels | `EvaluateAndSwitch`, `ExecuteSwitch`, `Request*Ip`, `Retry*Ip`, offer handlers, `Begin/Commit/AbortHandover`, `FallbackAndRescan`, `FinishOldPathGrace`, discovery scan | address, plane and domain always belong together; no state without address and without retry; a handover keeps the old path until it commits or aborts, and ends |
| Ad-Hoc gateway (`ROLE_GATEWAY`) | pool, MAC-to-address map, one shared secret | answer `IP_REQUEST`, take back on `IP_RELEASE` | an address is leased once; a terminal's address stays its own |
| AP address server (`ROLE_AP_SERVER`) | pool, map, secret per peer | `ReceiveApSniffer`, `HandleApServerRead`, `SendApKeyAdvertisement` | same, and offers are signed with the peer's secret |
| Access algorithm (`intelligent-access-algorithm.cc`) | candidates with age and trend, handover guard | `Update`, `Evaluate`, `ResetHandoverGuard` | no ping-pong, no dead candidate chosen, emergencies not delayed |
| Collaborative beacon (`adhoc-wifi-mac.cc`) | beacon event, beacon queue, control queue | schedule, send, receive (suppress and flush), enable/disable | at most one station answers per period; nothing sent once disabled |
| Channel hopping and AP rescan | channel index, rescan flag | `SwitchToNextChannel`, `DoApRescanChannel/Restore` | radios come back to the current domain |
| Parallel test driver (`test.py`) | input and output queue, worker threads, interrupt flag, counters | dispatch, worker loop, collecting loop, exit code | every job answered once, every worker stopped, 0 only for success |
| Key exchange (`crypto-utils.cc`) | key pairs, shared secrets | Chebyshev agreement, HMAC | both sides derive one secret |
| Logs, helper, legacy pseudo beacon, `simple-adhoc-ip` | | | output or unused by the deployed scenario |
| Other modules of the tree (`smart-aodv*`, `q-smart-hybrid`, `harp`, `simple-wireless-tdma`, `ap-app`) | | | separate ns-3 modules, independent of the access system |
| ns-3, OFSwitch13 | | | vendored |

How they interact. Beacons that a terminal's sniffers hear fill `m_neighborRadar`; every
500 ms `EvaluateAndSwitch` feeds them to the algorithm and may call `ExecuteSwitch`, which
tunes both radios, moves the data plane (or begins a handover) and schedules address
requests. Requests and offers are broadcast frames, sent at device level and received by
PHY sniffers, so they are unacknowledged, may be missed while a radio is elsewhere, and are
received twice by a node that listens with two interfaces. Everything runs in one
event-driven simulator: handlers are atomic, and the concurrency is that of scheduled
events, which outlive the state they were scheduled in, and of frames. `PROJECT.json` lists the
hazards that follow, each at its line.

## 2. Modules

| Module | What it is |
|---|---|
| `SoftHandover` | abstract: what a soft handover promises to the traffic |
| `Terminal` | the terminal engine; refines `SoftHandover` |
| `TerminalProofs` | its theorems |
| `AddressContract` | abstract: what an address service promises, without requests, offers and retries |
| `AdhocLease` | gateways, terminals and the lossy channel between them: the address service; refines `AddressContract` |
| `AdhocLeaseProofs` | its theorems |
| `AccessDecision` | candidate table and handover guard, the periodic evaluation, dwell time and deferred switches, with a clock |
| `AccessDecisionProofs` | its theorems |
| `RadioScan` | both radios of a terminal and the timers that tune them, with a clock |
| `RadioScanProofs` | its theorems |
| `IbssBeacon` | the beacon election of the stations of one Ad-Hoc network, with a clock |
| `IbssBeaconProofs` | its theorems |
| `TestVerdicts` | abstract: what the test driver promises |
| `TestRunner` | the test driver; refines `TestVerdicts` |
| `TestRunnerProofs` | its theorems |
| `MCTerminal`, `MCAdhocLease`, `MCAccessDecision`, `MCRadioScan`, `MCIbssBeacon`, `MCTestRunner` | the instances that TLC checks |

`Terminal`, `AccessDecision` and `RadioScan` are three views of one terminal, whose state would be too
large for one model. Each keeps what its properties need of the others: `Terminal` lets the
decision pick any candidate at any time and has no clock; `AccessDecision` reduces address requests to
"an address arrives, the handover commits, or it fails after the retry limit"; `RadioScan` lets switches,
commits, aborts and fallbacks happen at any moment after one another. What one leaves open the other
restricts, so each view has more behaviours than the terminal, not fewer, except for the named
assumptions below.

### Terminal

One action per event. `cur` gathers the fields that `AbortHandover` restores (2609-2617), so
that its partial restoring is visible against the fields that stay (`addr`, `pending`,
`radio`, the timers' flags). Correspondence, beyond equal names:

* `EvaluateAndSwitch(n)`: the algorithm may choose any candidate that its early returns allow
  (`MaySwitchTo`: no handover in progress; without a current network or an address any
  candidate, else another than the current one). If a radio is busy the switch goes to
  `deferred`: the 5 ms reschedule of line 1480, whose event has no handle.
* `ExecuteSwitch(n)`: the whole function after `ConfigureRadiosForDomain`. `HardSwitch` and
  `CanSoftHandover` are its two ways to change the domain. Outside a handover the standby
  interface takes the *hardcoded* address of the domain (`Fixed`) and the route with it.
* `Contexts.attached` is `m_currentHops < 99`. `DefaultNet` is the SSID "Adhoc-Net" that line
  2083 stores after a first Ad-Hoc access; no candidate has it, so the next evaluation does
  not recognise the current network.
* `StaRequestTimer` / `StrayStaRequest`: `RequestStaIp` waits for association and key by scheduling
  itself into `m_ipReqEvent`. When `RetryStaIp` calls it while that event is pending, the
  handle is overwritten and an event remains that nobody can cancel: `stray`.
* `RetryStaIp`, `RetryAdhocIp`, `GiveUpStaIp`, `GiveUpAdhocIp`, `RetryDone(i)`: the branches
  of the two retry handlers. `GiveUpAdhocIp` keeps the order of the code: data plane first,
  handover second.
* `HearStaOffer` stands for the sniffer's branch (1019-1147) and `HandleStaIpRead`
  (2167-2290), which do the same to this state. `HearAdhocOffer` is `HandleAdhocIpMessage`: the
  TXID is cleared before the HMAC is looked at, so one disjunct clears it and does nothing else.
* `Answer` is the address server of either kind, for the frame's domain.

### AdhocLease

`Domains` are those with a gateway. A terminal's waiting frames are a flag `releasing` and
a set `requests` behind it: `IP_RELEASE` is sent in `ExecuteSwitch`, half a second before
the first request of the new access, through one MAC queue that a channel switch flushes.
The map entry, the free list, the one secret of a gateway, the TXID counter and the two
timers are kept as in the code. `OverhearStaRequest` is a gateway's STA interface hearing a
request meant for an access point (303-310). `Leave`, `CommitHandover` and `AbortHandover` are a soft
handover to an access point of another domain seen from the lease: nothing is released, and
an abort returns to an address that must still be leased.

The refinement of `AddressContract` maps its `lease` to `macToIp` and its `use` of a terminal to `InUse`: the address
it holds, at `Granter`, the domain it has it from (during a handover the one it is about to leave). Requests, offers,
TXIDs and timers are stutters; a leased address, a release that arrives, an accepted offer and an access that gives
the address up are its four steps.

### AccessDecision

`heard` is `m_neighborRadar`, `seen` and `guard` are the algorithm's candidates and handover guard,
`due` counts the scheduled `EvaluateAndSwitch` events by the ticks until they run: `AbortHandover` and
`FallbackAndRescan` schedule one more, so that chains multiply. `EvaluateAndSwitch` is the whole handler:
merge the radar, return early during a handover, purge, choose, and switch or not. The scores are
abstracted to their outcome: any subset of the live candidates is eligible, any eligible one is best,
the gain beats the hysteresis or not, the current network is about to be lost or not, the trends are
falling, steady or rising. `EffectiveTtt` is the code's formula on these three trends, in hundredths of a
tick. `SelectTarget` is `ExecuteSwitch`'s choice between switching and trying again in 5 ms with the
old candidate (`deferred`). `label` is `m_currentSsid`: `AddressArrives` overwrites it with `OwnSsid` (2083).
`streak` and `executed` record what really happened, for the properties only.

Assumptions of this view: a radio is busy for less than a tick (`Advance` waits for the deferred
switches), each network has a domain of its own, an abort or fallback does not come before the
dwell time (8.5 s and 11 s against 8 s), an address not in the tick of its switch.

### RadioScan

`timer` holds the four timers with a handle, `restores` the `DoApRescanRestore` events, which have none.
Each handler may find its radio busy and try again a tick later, as the code does. `Rescan` is
`DoApRescanChannel` with its two ends (next channel; restore and next rescan). `ExecuteSwitch` tunes both radios
and cancels and sets the timers by the type of the target: an access to an Ad-Hoc network does not
cancel the hopping timer (1612-1614), so hopping and rescanning may use the STA radio and
`m_currentChIdx` at the same time. `AbortHandover` touches neither radios nor timers. `m_inApRescan` and
`m_inAdhocDiscoveryScan` are only written in the code and are left out; switches that wait for a radio are in
the other two views.

### IbssBeacon

One tick is a backoff slot. `events` are the pending `SendCollaborativeBeacon` calls and `handle` the one that
`m_collaborativeBeaconEvent` refers to: that there is never another one is a property, not an assumption.
`Receive` cancels, flushes and schedules; `Disable` cancels and leaves the queue; `Enable` schedules at once. The
Txop and the medium are external: queued beacons start when the medium is idle, or in the tick in
which another one starts (a collision of backoffs), and each may be heard by any of the generating stations
that do not send. A station that is switched on again sends at once even if it heard a beacon in this period
(`ScheduleNow`, 201); the history of the period starts anew there.

### TestRunner

The first-in first-out `input_queue` is an interval of the job numbers, the pills (`is_break` jobs) above
`N`. A worker is idle, has taken a job, runs it, has stopped, or is dead; the interrupt is read once, between
take and run. `Finish` is the test process: any exit code, output that cannot be decoded, and a results file if a
suite ran to its end. `Collect` is one round of main's loop, in any order of the answers; it may raise when a
results file is missing, after which the interpreter joins the threads and the process fails (`Return`). `Die` is
`Popen` raising in a worker.

### What is abstracted

* Time, in `Terminal` and `AdhocLease`: a scheduled event fires at any later moment; the 2 s retries and the
  3 s first request have no order of their own. Dwell, time to trigger, evaluation period and the scans'
  timers have clocks in `AccessDecision` and `RadioScan`, where ages stop growing at the largest bound any
  comparison uses, so that time itself is unbounded.
* Radio reach, and in `Terminal` and `AdhocLease` channel hopping and the AP rescan: a frame may be lost.
* Addresses are tokens (interface, domain, leased or hardcoded) in `Terminal`, pool members
  in `AdhocLease`. Requests always carry a TXID and servers echo it, so the branch of
  `IsExpected*Offer` for an empty TXID does not occur.
* Cryptography: who shares a secret with whom.
* A terminal runs from its start: `StopApplication` is not modelled.
* In `AdhocLease` an entry into a domain from an access point that fails is a give-up followed by
  `Leave`; requests that are still queued after such an abort are dropped with it.

## 3. Model checking

| Run | Instance | Result |
|---|---|---|
| `adhoc_lease` | 2 domains, 2 terminals, 1 overheard STA, pools of 2 | passes, 793,104 states |
| `terminal` | domains 1 and 2 with access point, 3 with Ad-Hoc, scan of 3 | passes, 283,564 states |
| `access_decision` | an access point and an Ad-Hoc network, 2 chains | passes, 367,880 states |
| `radio_scan` | 2 domains, 3 channels | passes, 185,082 states |
| `ibss_beacon` | 3 stations, interval of 3 slots, backoff 0 or 1 | passes, 600,166 states |
| `test_runner` | 4 jobs, 2 workers | passes, 66,871 states |
| `ping_pong` | as `access_decision`, with the application's default SSID | violated: see section 5 |
| `route_follows_data_plane`, `release_reaches_owner`, `active_path_on_channel`, `fallback_can_reevaluate`, `control_socket_kept` | the smallest instance that shows it | violated: see section 5 |

Properties of `adhoc_lease`: `PoolPartition` (each address in the free list once or with one
MAC), `HolderIsLeased` (an address in use is still its user's lease, at the gateway that
granted it, whatever was lost, repeated or late), `LeaseInv` (the strengthening under which
that is inductive), `RefusedOnlyWhenFull` (a MAC is refused only when every address of the pool is leased to another one: a
lease nobody releases costs one address per terminal, never more), `ContractKept` (refinement).

Properties of `terminal`: `AddressMatchesContext` (address, plane and domain belong
together), `JoinedWithoutAddressRetries` (no stranded terminal), `HandoverIsDriven` (a
handover's target has its retry timer running, and nothing fell back under it),
`HandoverHasDeadline` (an action property: during a handover nothing changes its target or takes back a retry already
counted, and giving up ends it), `ImplementsSoftHandover` (refinement), `HandoverEnds` (liveness), `EngineInv` (the
inductive strengthening).

Properties of `access_decision`: `GuardMatchesHistory` (the guard never claims more evaluations or a longer time
than its target has really won), `SwitchIsEarned` (a switch away from a working network rests on the required
evaluations in a row, over the time to trigger, for a network heard within the candidate lifetime, also
when the radio put it off), `NoPingPong` (no voluntary switch within the dwell time while the own network is
alive), `DecisionInv` (the inductive strengthening).

Properties of `radio_scan`: `HomeBetweenScans` (outside a rescan the STA radio of a terminal joined through an
access point is on that access point's channel, although restore events have no handle), `AwayOnlyToListen` (its
Ad-Hoc radio is at home with the next scan to come or away with the return to come), `NoChannelTwice` (a rescan
that no hop disturbs sees a new channel each time), `ScannedBeforeLeaving` (all channels are seen before
the dwell time ends), `RescansGoOn` and `DiscoveryGoesOn` (liveness), `ScanInv` (the
inductive strengthening).

Properties of `ibss_beacon`: `OneAttemptPending`, `Suppressed` (after a beacon was heard nothing is queued, on the air or
due in this period), `OncePerPeriod`, `BeaconsGoOn` (stations that suppress one another do not silence the network),
`ElectionInv`.

Properties of `test_runner`: `AnsweredOnce` (a job taken is with one worker, in one answer, or judged),
`NoStandstill` (until the process ends, main or a worker can go on, unless a worker died: nobody waits for an answer
or a pill that will not come), `SuccessMeansPassed`, `VerdictsImplemented` (refinement), `Terminates` (liveness),
`RunnerInv` (the inductive strengthening, with `OnePillEach`: as many workers stopped as pills taken).

Bounds. `MaxRetries = 1` instead of 3: one retry already distinguishes first request, repeated
TXID and give-up. `MaxFrames = 1` in `terminal`: a request becomes an offer that can be heard twice, be late
across switches, or be lost; a second frame is sent into loss. In `adhoc_lease` two frames are
on the air at once (`AtMostTwoFrames`), which is what it takes for a release and a request, or
an old and a new offer, to race; the moving terminal draws three TXIDs, the other one, and the
second terminal stays with the first gateway (`SecondStaysInFirstDomain`), since the domains' pools are
independent and only the mover connects them. Pools of two addresses and three MACs make the
pool run empty. Three domains are all that have hardcoded addresses (2356-2453), and 2 + 1 is the
deployed profile, in which no domain offers both networks for joining (`DisjointAccess`).
Deadlock is not checked: a terminal whose frames are lost and whose timers have run out
stops until the next beacon.

The clocks are scaled and keep every order that the code's comparisons can tell apart. `access_decision`:
period 2, first evaluation 3, time to trigger 1 to 3, lifetime 4, dwell 5 ticks stand for 0.5 s, 3 s, 0.35 to 3 s, 4 s, 8 s;
two evaluations in a row are enough to tell one from several; two chains are what one abort makes, and
`MaxChains` is only a bound of the check (the theorems hold for any). `radio_scan`: a rescan takes
4 + 2 ticks of a dwell of 7, as 5.4 s of 8 s; three channels are those deployed. `ibss_beacon`: a backoff of one slot is the
least that lets one station be first; two queued beacons are one more than the invariant allows. `test_runner`:
four jobs and two workers give each worker a second job, and each kind of job (to skip, suite, example)
an interrupt before, between and after. In `test_runner` deadlock is not checked, since the driver ends,
or waits for ever once a worker has died; in the other new runs it is.

Fairness. In `Terminal`, `FairSpec` adds weak fairness of the four retry actions, and of nothing else. A retry timer that is
scheduled and not cancelled fires, because the simulator runs every scheduled event; no
fairness is assumed of frames, evaluations or the scan, so `HandoverEnds` holds even when
every frame is lost. In `RadioScan`, the simulator runs the next event or lets time pass (weak fairness), and a
radio is not busy at every single attempt of the same handler (strong fairness of the attempts that find it
free): a busy state lasts a frame, an attempt comes every 50 ms. In `IbssBeacon`, events run, the medium is idle
again and again, time passes. In `TestRunner`, threads are scheduled and every test process ends - an
assumption about the tests, since the code sets no limit of time.

## 4. Proofs

`tlapm` on each of the six `...Proofs` modules checks every step. Assumptions are
those named in the modules: the pool is a sequence of distinct addresses, MACs of the two
kinds differ, at most the three domains that have hardcoded addresses are registered.

**Address service**, for any number of domains, terminals, addresses and frames:
`TypeCorrect`; `PoolStaysPartitioned`; `LeaseInvHolds`; `HolderStaysLeased`; `NoAddressIsShared` (two terminals of one gateway never
use one address: from the previous two). `HolderIsLeased` is not inductive: an offer on its way
could name an address that an `IP_RELEASE` behind it frees. The invariant adds that a waiting
release means no address is in use (`ReleaseComesFirst`), that an offer the terminal would
*accept* names its lease and no release is waiting (`AcceptableOfferIsLeased`), that TXIDs on
the air are older than the counter (`TxIdsAreUsedOnce`, so a new request makes every old
offer unacceptable), and that a handover that leaves has no transaction (`LeavingKeepsTheLease`).

`RefusalNeedsFullPool` counts: a refusal means an empty free list (`RefusalMeansFull`), so by the partition the map is a
bijection between the MACs with a lease and the pool (`EmptyPoolIsLeased`), which are therefore as many as its
addresses (`PoolSize`). `LargePoolServesAll` follows: a pool as large as the set of MACs refuses nobody, although soft
handovers never release. `LeasesKeepContract` is the refinement, one lemma per kind of step: `AllocateRefines` needs
the partition (a free address is nobody's), `ReleaseRefines` needs `ReleaseComesFirst` (what is taken back is not in
use), `OfferRefines` needs `AcceptableOfferIsLeased` and `HolderIsLeased` (an accepted offer names the lease; to a
terminal with an address it names that address again), `HandoverKeepsUse` needs `LeavingKeepsTheLease`.

**Terminal**. `TerminalTypeCorrect` and `JoinedAlwaysRetries` hold without conditions on the deployment. The second has an
inductive invariant of its own, `WaitingInv` (in `TerminalProofs`): a terminal that joined and waits for an address has its
data plane and its retry timer on the interface it joined with, and a handover begins from an address in use, so
that giving it up leaves the terminal with one. The others are proved where
`DisjointAccess` holds (no domain has both an access point and an Ad-Hoc network that may be
joined, as deployed) and `RadioMayStall = FALSE` (a switch that a busy radio put off is done before
the next evaluation decides): `EngineInvHolds`, `AddressAlwaysMatches`, `HandoverAlwaysDriven`, `HandoverKeepsDeadline`
and the refinement `TerminalImplementsSoftHandover`. Both conditions are needed: without either one TLC violates
`AddressMatchesContext`, `HandoverIsDriven`, `HandoverHasDeadline` and `ImplementsSoftHandover` - without the first by the
wedge of section 5, without the second by a deferred switch in the middle of a handover. `HandoverKeepsDeadline` is the
safety core of `HandoverEnds`: with `HandoverIsDriven`, the target's retry timer runs, each firing counts, no count is
taken back, and the last one ends the handover; that the timer fires at all is fairness and stays with TLC.
The invariant `EngineInv` relates four things: `ContextInv` (network, interface, domain
and address of the context), `PreparingInv` (during a handover the previous context is the live one, its
interface has no transaction, the target interface has no address and its retry timer runs),
`RequestsInv` (a transaction is pending only for a missing address, and Ad-Hoc frames of the
pending transaction are in its domain, which is why an accepted offer belongs to the current
domain although either radio may hear it) and `DeferredInv`. One lemma per operation shows that it keeps
the invariant; one per kind of step shows which `SoftHandover` step it is.

**Access decision**, for any networks, times and thresholds and any number of chains: `TypeCorrect`,
`GuardTellsTheTruth`, `VoluntarySwitchIsEarned`, and, assuming that the terminal's own SSID is that of the Ad-Hoc
network it joins, `ConfiguredTerminalDwells`. `DecisionInv` adds to the properties that the terminal names
its network rightly (`NetworkIsNamed`), and that a switch waiting for the radio was earned, has reset
the guard, and, if it leaves a network voluntarily, waits alone (`DeferredIsEarned`): no other evaluation can
earn a second one in the same tick, because the time to trigger is at least `MinTtt > 0`.

**Beacon election**, for any stations, interval and slots below it: `TypeCorrect`, `OneChainPerStation`,
`HearingSuppresses`, `OneBeaconPerPeriod`. `ElectionInv` adds that the pending attempt of a station that has had its
turn, or has heard a beacon, lies in a later period.

**Test driver**, for any jobs and workers: `TypeCorrect`, `NoJobIsLost`, `PillsMatchWorkers`, `NeverStandsStill`, `SuccessIsEarned`,
and the refinement `RunnerImplementsVerdicts`. `RunnerInv` adds that results fit what was asked for (`ResultsFit`), and
that main's counters count what it has judged (`CountersAgree`), from which "passed + skipped = jobs" means
that all jobs went well. `NeverStandsStill` is the safety core of `Terminates`: if main can do nothing, everything is
dispatched; if no worker can either, those stopped are as many as the pills taken (`OnePillEach`), so that all
entries are taken and all workers stopped (`AllStoppedWhenIdle`); no job is lost, so all answers are collected
(`AllCollected`), and main can return after all.

**Radios**, for any domains and any number of channels, and any periods for which a rescan ends before the dwell
time does (`TimesAssumption`; the code's 5 s and 200 ms per channel fit into 8 s for its 3 channels, and for up to 15): `TypeCorrect`,
`StaComesHome`, `AdhocComesHome`, `RescanSeesNewChannels`, `RescanBeatsDwell`. `ScanInv` adds that nobody hops who is, or was
before the handover, joined through an access point, so that an abort does not return to one with a hopping radio
(`RadiosAtHome`), that the channels visited are the last ones back from the shared index (`VisitedAreLast`; that they
are as many as the steps says nothing about the next), and that what is left of the rescan fits into what is left of the
dwell time (`RescanIsOnTime`).

Only model-checked: liveness (`HandoverEnds`, `RescansGoOn`, `DiscoveryGoesOn`, `BeaconsGoOn`, `Terminates`), which rests on
fairness and ENABLED and so is out of the prover's reach, and the six violations. Every other property of a passing
run is a theorem.

## 5. Where the code does not do what it says

* **Route and data plane** (`RouteFollowsDataPlane`). `SetDataPlaneActive` logs "Default route via
  ..."; then `ExecuteSwitch` configures the standby interface (1592, 1636), which replaces the default route.
* **Release** (`ReleaseReachesOwner`). The old address is to be released on leaving (1509, 1519), but both
  radios have been retuned (1479): the wrong gateway hears it. `HolderIsLeased` still holds,
  the old pool only shrinks.
* **Old path** (`ActivePathOnChannel`). "old path retained until candidate is ready" (2560): its address, plane
  and route are (`ImplementsSoftHandover`), its radio is not, and an abort does not tune it back.
* **Wedge** (`FallbackCanReevaluate`). `RetryAdhocIp` tests the data plane before the handover (1865, 1870). Where a
  domain has both networks it can fall back during a handover; evaluation then returns early for ever.
* **Control socket** (`ControlSocketKept`). The grace event of an earlier commit is not cancelled by
  the next handover and may close the socket that handover keeps (2630-2636).
* **Ping-pong** (`NoPingPong` in `ping_pong`). The header gives the algorithm the "ping-pong suppression"; with the default
  SSID, which nothing in the deployed scenario sets, the first Ad-Hoc offer renames the network joined (2083), the
  current network is found missing, and the emergency switch that follows ignores the dwell time. Where the SSID
  fits, `NoPingPong` holds and is proved.
* **Results file** (`test.py`). "If the return code is 0, 1, or 2, we have a valid xml file" (1829): a crashed suite whose
  output cannot be decoded gets a 1, and the report cannot be written. The exit code is right all the same.
* `ConfigureAdhocIpByDomain` and `ConfigureStaIpByDomain` are declared as unused compatibility
  entries (`blind-connect-app.h:184-185`) and run on every access and commit.

## 6. Not modelled

* After an aborted handover from an access point the discovery scan is not started again (1613, 2610): modelled in
  `RadioScan`, where `AwayOnlyToListen` and `DiscoveryGoesOn` exclude that case, as no statement of the source covers it.
* The key exchange: per-peer secrets of the AP address server, `SendApKeyAdvertisement`, and who is starved of an
  address by the gateway's one secret. The safety of rejected offers is in `AdhocLease`; the rest is number
  theory and a liveness question that the source does not answer.
* The 2 s retries against the 8 s dwell, and the hardcoded standby addresses against the pools of the deployed
  profiles: they need clocks and concrete addresses in `Terminal`, whose state space leaves no room for either.
* `StopApplication`, the legacy pseudo beacon (off as deployed), the SDN callback, the logs, and `simple-adhoc-ip` (unused).
* The list of tests, the options and the report translation of `test.py`.
* `smart-aodv*`, `q-smart-hybrid`, `harp`, `simple-wireless-tdma` and `ap-app`: ns-3 modules that do not touch the
  access system. Each would be a verification of its own.
* ns-3, OFSwitch13 and their Python bindings, which are most of the tree by size: vendored or generated
  (`modulegen__gcc_*.py` are lists of registration calls without state of their own). The C++ program modelled
  here and `test.py` are a small part of the tree's lines for that reason.

Next proofs worth taking: an abstract specification of the beacon election and its refinement by `IbssBeacon`; the
safety cores of `BeaconsGoOn`, `RescansGoOn` and `DiscoveryGoesOn`, as `NeverStandsStill` is that of `Terminates`; the number of
retries of a handover as a bound over the whole handover.

Next models worth taking: a timed `Terminal` with concrete addresses; the composition of
`Terminal` and `AdhocLease`, its frames surviving aborts.

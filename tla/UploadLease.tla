----------------------------- MODULE UploadLease -----------------------------
(***************************************************************************)
(* The exclusive upload lease of a synchronization cycle.                  *)
(*                                                                         *)
(* Client side: `UploadLease` (native/lease.rs) with its conservative      *)
(* monotonic deadline, the `Heartbeat` renewal task and watchdog task that *)
(* run beside the cycle, and the lease part of `cycle_inner`               *)
(* (service/coordinator.rs): acquire, guarded uplink, release.             *)
(*                                                                         *)
(* The service is external: it grants a zone to one device at a time, each *)
(* grant with a larger fencing token, and forgets a holder whose TTL ran   *)
(* out.  Requests and answers take any amount of time, and any of them may *)
(* be lost.                                                                *)
(***************************************************************************)
EXTENDS Integers

CONSTANTS
    Ttl,        \* ttlSeconds of every grant and renewal, in ticks
    MaxTime,    \* bound on the clock
    MaxFence    \* bound on the number of grants

ASSUME TtlAssumption == Ttl \in Nat
ASSUME BoundAssumption == MaxTime \in Nat /\ MaxFence \in Nat

VARIABLES
    now,        \* the monotonic clock
    server,     \* external: holder, fencing token and expiry of the zone
    pc,         \* where cycle_inner is: "idle", "acquiring", "uplink", "releasing"
    acquire,    \* the acquire request: its state, its start and the granted fence
    lease,      \* LeaseState of the cycle's lease, with the fence of its proof
    beat,       \* the heartbeat task: "off", "sleep", "renewing"
    renewal,    \* the renewal request: its state, its start and its fence
    watchdog,   \* TRUE while the watchdog task runs
    lost,       \* the watch channel: TRUE once a loss was signalled
    epoch,      \* whether the actor still holds this cycle's epoch as current
    release,    \* fences of release requests on their way to the service
    outcome,    \* what the last guarded uplink returned: "none", "ok", "lost", "failed"
    intruded    \* history: the zone went to another device during this uplink

vars == <<now, server, pc, acquire, lease, beat, renewal, watchdog, lost, epoch,
          release, outcome, intruded>>

NoRequest == [state |-> "none", started |-> 0, fence |-> 0]

(***************************************************************************)
(* The rules of native/lease.rs.                                           *)
(***************************************************************************)

\* A tenth of the granted TTL is never claimed (DEADLINE_SAFETY).
conservative(ttl) == (9 * ttl) \div 10

\* Mutant: the window of a grant is counted from the arrival of the answer.
from_grant_arrival(fence, started) ==
    [state |-> "held", deadline |-> now + conservative(Ttl), fence |-> fence]

from_grant(fence, started) ==
    [state |-> "held", deadline |-> started + conservative(Ttl), fence |-> fence]

valid_now == lease.state = "held" /\ now < lease.deadline

mark_lost(current) == [current EXCEPT !.state = "lost"]

\* Mutant: a late answer revives authority that already ended.
renewed_revives(current, at, started) ==
    [current EXCEPT !.state = "held", !.deadline = started + conservative(Ttl)]

\* What a renewal that left at `started` and is answered at `at` leaves behind.
renewed(current, at, started) ==
    LET offered == started + conservative(Ttl)
    IN  IF current.state = "lost" THEN current
        ELSE IF at >= current.deadline THEN mark_lost(current)
        ELSE IF offered > current.deadline THEN [current EXCEPT !.deadline = offered]
        ELSE current

(***************************************************************************)
(* The service (external).                                                 *)
(***************************************************************************)
\* A proof is current while its grant is the latest and has not run out.
Current(fence) == server.holder = "me" /\ server.fence = fence /\ now < server.expires

Free == server.holder = "none" \/ now >= server.expires

Grant(holder) == server' = [holder |-> holder, fence |-> server.fence + 1, expires |-> now + Ttl]

\* The other installation takes the zone when it can.
OtherAcquires ==
    /\ Free
    /\ server.fence < MaxFence
    /\ Grant("other")
    /\ intruded' = (intruded \/ pc = "uplink")
    /\ UNCHANGED <<now, pc, acquire, lease, beat, renewal, watchdog, lost, epoch, release, outcome>>

ServiceGrants ==
    /\ acquire.state = "sent"
    /\ Free
    /\ server.fence < MaxFence
    /\ Grant("me")
    /\ acquire' = [state |-> "granted", started |-> acquire.started, fence |-> server.fence + 1]
    /\ UNCHANGED <<now, pc, lease, beat, renewal, watchdog, lost, epoch, release, outcome, intruded>>

ServiceBusy ==
    /\ acquire.state = "sent"
    /\ ~Free
    /\ acquire' = [acquire EXCEPT !.state = "busy"]
    /\ UNCHANGED <<now, server, pc, lease, beat, renewal, watchdog, lost, epoch, release, outcome,
                   intruded>>

ServiceRenews ==
    /\ renewal.state = "sent"
    /\ renewal' = [renewal EXCEPT !.state = IF Current(renewal.fence) THEN "granted" ELSE "refused"]
    /\ server' = IF Current(renewal.fence) THEN [server EXCEPT !.expires = now + Ttl] ELSE server
    /\ UNCHANGED <<now, pc, acquire, lease, beat, watchdog, lost, epoch, release, outcome, intruded>>

ServiceReleases ==
    /\ \E fence \in release :
          /\ release' = release \ {fence}
          /\ server' = IF Current(fence) THEN [server EXCEPT !.holder = "none"] ELSE server
    /\ UNCHANGED <<now, pc, acquire, lease, beat, renewal, watchdog, lost, epoch, outcome, intruded>>

(***************************************************************************)
(* The cycle: cycle_inner of service/coordinator.rs.                       *)
(***************************************************************************)
Tick ==
    /\ now < MaxTime
    /\ now' = now + 1
    /\ UNCHANGED <<server, pc, acquire, lease, beat, renewal, watchdog, lost, epoch, release,
                   outcome, intruded>>

\* `started` is taken before the connection is even opened.
StartAcquire ==
    /\ pc = "idle"
    /\ server.fence < MaxFence
    /\ pc' = "acquiring"
    /\ acquire' = [state |-> "sent", started |-> now, fence |-> 0]
    /\ epoch' = TRUE
    /\ outcome' = "none"
    /\ UNCHANGED <<now, server, lease, beat, renewal, watchdog, lost, release, intruded>>

\* Busy, or any transport failure: this cycle's uplink is skipped.
AcquireFails ==
    /\ pc = "acquiring"
    /\ pc' = "idle"
    /\ acquire' = NoRequest
    /\ UNCHANGED <<now, server, lease, beat, renewal, watchdog, lost, epoch, release, outcome,
                   intruded>>

\* The grant arrives: the heartbeat tasks start and the uplink is guarded.
AcquireGranted ==
    /\ pc = "acquiring"
    /\ acquire.state = "granted"
    /\ LET granted == from_grant(acquire.fence, acquire.started)
       IN  /\ lease' = granted
           /\ pc' = IF now < granted.deadline THEN "uplink" ELSE "releasing"
           /\ outcome' = IF now < granted.deadline THEN "none" ELSE "lost"
    /\ acquire' = NoRequest
    /\ beat' = "sleep"
    /\ renewal' = NoRequest
    /\ watchdog' = TRUE
    /\ lost' = FALSE
    /\ intruded' = FALSE
    /\ UNCHANGED <<now, server, epoch, release>>

\* The uplink's future is dropped as soon as the loss is signalled.
LossSeen ==
    /\ pc = "uplink"
    /\ lost
    /\ pc' = "releasing"
    /\ outcome' = "lost"
    /\ UNCHANGED <<now, server, acquire, lease, beat, renewal, watchdog, lost, epoch, release,
                   intruded>>

\* Mutant: a finished uplink is not checked against the deadline again.
UplinkReturns_unchecked ==
    /\ pc = "uplink"
    /\ ~lost
    /\ pc' = "releasing"
    /\ outcome' \in {"ok", "failed"}
    /\ UNCHANGED <<now, server, acquire, lease, beat, renewal, watchdog, lost, epoch, release,
                   intruded>>

\* The uplink's future ends; guard re-checks the deadline before believing it.
UplinkReturns ==
    /\ pc = "uplink"
    /\ ~lost
    /\ pc' = "releasing"
    /\ outcome' \in {"failed", IF valid_now THEN "ok" ELSE "lost"}
    /\ UNCHANGED <<now, server, acquire, lease, beat, renewal, watchdog, lost, epoch, release,
                   intruded>>

\* drop(heartbeat) aborts both tasks before the release request leaves.
DropHeartbeat ==
    /\ pc = "releasing"
    /\ beat # "off" \/ watchdog
    /\ beat' = "off"
    /\ watchdog' = FALSE
    /\ release' = release \union {lease.fence}
    /\ UNCHANGED <<now, server, pc, acquire, lease, renewal, lost, epoch, outcome, intruded>>

\* Answered, refused or failed: the lease object is dead either way.
Released ==
    /\ pc = "releasing"
    /\ beat = "off" /\ ~watchdog
    /\ lease' = mark_lost(lease)
    /\ pc' = "idle"
    /\ UNCHANGED <<now, server, acquire, beat, renewal, watchdog, lost, epoch, release, outcome,
                   intruded>>

\* A configuration edit, reset or account switch moves the epoch on.
Superseded ==
    /\ pc = "uplink"
    /\ epoch
    /\ epoch' = FALSE
    /\ UNCHANGED <<now, server, pc, acquire, lease, beat, renewal, watchdog, lost, release, outcome,
                   intruded>>

(***************************************************************************)
(* The heartbeat tasks (Heartbeat::start).                                 *)
(***************************************************************************)
Unheld == UNCHANGED <<now, server, pc, acquire, epoch, release, outcome, intruded>>

\* Either task gives up: the lease is marked lost and the channel says so.
GivesUp == lease' = mark_lost(lease) /\ lost' = TRUE

BeatStops ==
    /\ GivesUp
    /\ beat' = "off"
    /\ renewal' = [renewal EXCEPT !.state = IF @ = "sent" THEN "sent" ELSE "none"]
    /\ UNCHANGED watchdog
    /\ Unheld

\* The interval passed (or the deadline did): renew, or give up if too late.
BeatWakes ==
    /\ beat = "sleep"
    /\ valid_now
    /\ beat' = "renewing"
    /\ renewal' = [state |-> "sent", started |-> now, fence |-> lease.fence]
    /\ UNCHANGED <<lease, watchdog, lost>>
    /\ Unheld

BeatWakesLate ==
    /\ beat = "sleep"
    /\ ~valid_now
    /\ BeatStops

BeatRenewed ==
    /\ beat = "renewing"
    /\ renewal.state = "granted"
    /\ lease' = renewed(lease, now, renewal.started)
    /\ beat' = "sleep"
    /\ renewal' = NoRequest
    /\ UNCHANGED <<watchdog, lost>>
    /\ Unheld

\* Offline or rate limited while still valid: try again after a short delay.
BeatRetries ==
    /\ beat = "renewing"
    /\ valid_now
    /\ beat' = "sleep"
    /\ UNCHANGED <<lease, renewal, watchdog, lost>>
    /\ Unheld

\* The service refused, the deadline passed first, or a failure came too late.
BeatFails ==
    /\ beat = "renewing"
    /\ renewal.state = "refused" \/ ~valid_now
    /\ BeatStops

\* Mutant: the watchdog looks at the epoch alone.
WatchdogFires_epochOnly ==
    /\ watchdog
    /\ ~epoch
    /\ GivesUp
    /\ watchdog' = FALSE
    /\ UNCHANGED <<beat, renewal>>
    /\ Unheld

WatchdogFires ==
    /\ watchdog
    /\ ~valid_now \/ ~epoch
    /\ GivesUp
    /\ watchdog' = FALSE
    /\ UNCHANGED <<beat, renewal>>
    /\ Unheld

-----------------------------------------------------------------------------
Init ==
    /\ now = 0
    /\ server = [holder |-> "none", fence |-> 0, expires |-> 0]
    /\ pc = "idle"
    /\ acquire = NoRequest
    /\ lease = [state |-> "lost", deadline |-> 0, fence |-> 0]
    /\ beat = "off"
    /\ renewal = NoRequest
    /\ watchdog = FALSE
    /\ lost = FALSE
    /\ epoch = TRUE
    /\ release = {}
    /\ outcome = "none"
    /\ intruded = FALSE

Service == OtherAcquires \/ ServiceGrants \/ ServiceBusy \/ ServiceRenews \/ ServiceReleases

Cycle ==
    \/ StartAcquire \/ AcquireFails \/ AcquireGranted \/ LossSeen \/ UplinkReturns
    \/ DropHeartbeat \/ Released

Heartbeat ==
    \/ BeatWakes \/ BeatWakesLate \/ BeatRenewed \/ BeatRetries \/ BeatFails \/ WatchdogFires

Next == Tick \/ Superseded \/ Service \/ Cycle \/ Heartbeat

Spec == Init /\ [][Next]_vars

\* The watchdog polls every 100 ms for as long as it runs, and the cycle task
\* is woken by the channel (a biased select); an abandoned lease is released.
\* Time passes.  Nothing is assumed of the service or of the uplink itself.
Fairness ==
    /\ WF_vars(Tick)
    /\ WF_vars(WatchdogFires)
    /\ WF_vars(LossSeen)
    /\ WF_vars(DropHeartbeat)
    /\ WF_vars(Released)

FairSpec == Spec /\ Fairness

-----------------------------------------------------------------------------
Requests == [state : {"none", "sent", "granted", "busy", "refused"}, started : Nat, fence : Nat]

FlagsOK ==
    watchdog \in BOOLEAN /\ lost \in BOOLEAN /\ epoch \in BOOLEAN /\ intruded \in BOOLEAN

DataOK ==
    /\ now \in Nat
    /\ server \in [holder : {"none", "me", "other"}, fence : Nat, expires : Nat]
    /\ pc \in {"idle", "acquiring", "uplink", "releasing"}
    /\ acquire \in Requests
    /\ lease \in [state : {"held", "lost"}, deadline : Nat, fence : Nat]
    /\ beat \in {"off", "sleep", "renewing"}
    /\ renewal \in Requests
    /\ release \subseteq Nat
    /\ outcome \in {"none", "ok", "lost", "failed"}

TypeOK == DataOK /\ FlagsOK

\* While a cycle is in its uplink and its lease says it is valid, the service
\* agrees: the grant is the zone's latest and has not run out.  This is what
\* measuring the deadline from the start of the request buys (lease.rs:10).
Authority == pc = "uplink" /\ valid_now => Current(lease.fence)

\* An uplink that reports success owned the zone from its grant to its end: no
\* other device was granted the zone in between (guard, coordinator.rs:187).
Uninterrupted == outcome = "ok" /\ pc = "releasing" => ~intruded

\* A lease that was lost stays lost for the rest of its cycle, whatever answer
\* to a renewal arrives later (lease.rs:17, 205).
LossIsFinal == [][lease.state = "lost" => lease'.state = "lost" \/ pc = "acquiring"]_vars

\* Losing authority, by time or by a superseded configuration, ends the uplink
\* even when the uplink itself never returns (watchdog, coordinator.rs:124).
LossEndsUplink == (pc = "uplink" /\ (~valid_now \/ ~epoch)) ~> (pc # "uplink")
-----------------------------------------------------------------------------
(***************************************************************************)
(* The inductive strengthening of Authority and Uninterrupted.             *)
(***************************************************************************)
\* Every window the client may come to claim ends before the service's does.
Covered(fence, deadline) ==
    server.holder = "me" /\ server.fence = fence /\ deadline <= server.expires

GrantCovered ==
    pc = "acquiring" /\ acquire.state = "granted" /\ now < acquire.started + conservative(Ttl)
        => Covered(acquire.fence, acquire.started + conservative(Ttl))

LeaseCovered == pc = "uplink" /\ valid_now => Covered(lease.fence, lease.deadline)

RenewalCovered ==
    pc = "uplink" /\ valid_now /\ renewal.state = "granted" /\ renewal.fence = lease.fence
        => renewal.started + conservative(Ttl) <= server.expires

\* Requests left in the past, and the service never promises more than a TTL.
Clocks ==
    /\ acquire.started <= now
    /\ renewal.started <= now
    /\ server.expires <= now + Ttl

\* Fences are handed out once, and a lease in use is never being released.
Fences ==
    /\ acquire.fence <= server.fence /\ lease.fence <= server.fence
    /\ \A fence \in release : fence <= server.fence
    /\ pc = "acquiring" /\ acquire.state = "granted" => acquire.fence \notin release
    /\ pc = "uplink" => lease.fence \notin release

Tasks ==
    /\ acquire.state # "none" => pc = "acquiring"
    /\ beat = "renewing" => renewal.fence = lease.fence

Intrusion == pc = "uplink" /\ intruded => lease.fence < server.fence

IInv ==
    /\ TypeOK /\ Clocks /\ Fences /\ Tasks
    /\ GrantCovered /\ LeaseCovered /\ RenewalCovered
    /\ Intrusion /\ Uninterrupted
=============================================================================

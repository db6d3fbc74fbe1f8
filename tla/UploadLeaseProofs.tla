-------------------------- MODULE UploadLeaseProofs --------------------------
(***************************************************************************)
(* The lease is safe for every TTL: proofs of the safety properties of     *)
(* UploadLease from the inductive invariant IInv.                          *)
(***************************************************************************)
EXTENDS UploadLease, TLAPS

\* The provers of a leaf that names none.
USE SMTT(60), ZenonT(30)

\* conservative (lease.rs:310) never claims more than was granted.
LEMMA ConservativeBound == conservative(Ttl) \in Nat /\ conservative(Ttl) <= Ttl
BY TtlAssumption DEF conservative

\* The initial state satisfies the inductive invariant.
LEMMA InitIInv == Init => IInv
<1> SUFFICES ASSUME Init PROVE IInv
    OBVIOUS
<1>1. TypeOK
    BY ZenonT(60) DEF Init, TypeOK, DataOK, FlagsOK, Requests, NoRequest
<1>2. Clocks /\ Fences /\ Tasks
    BY TtlAssumption DEF Init, Clocks, Fences, Tasks, NoRequest
<1>3. GrantCovered /\ LeaseCovered /\ RenewalCovered
    BY DEF Init, GrantCovered, LeaseCovered, RenewalCovered
<1>4. Intrusion /\ Uninterrupted
    BY DEF Init, Intrusion, Uninterrupted
<1> QED
    BY <1>1, <1>2, <1>3, <1>4 DEF IInv

\* The Boolean variables stay Boolean.
LEMMA FlagsStep == FlagsOK /\ [Next]_vars => FlagsOK'
<1> SUFFICES ASSUME FlagsOK, [Next]_vars PROVE FlagsOK'
    OBVIOUS
<1> USE DEF FlagsOK
<1>1. CASE Tick \/ Superseded \/ UNCHANGED vars
    BY <1>1, ZenonT(60) DEF Tick, Superseded, vars
<1>2. CASE Service
    BY <1>2, ZenonT(60) DEF Service, OtherAcquires, ServiceGrants, ServiceBusy, ServiceRenews,
        ServiceReleases
<1>3. CASE Cycle
    BY <1>3, ZenonT(60) DEF Cycle, StartAcquire, AcquireFails, AcquireGranted, LossSeen,
        UplinkReturns, DropHeartbeat, Released
<1>4. CASE Heartbeat
    BY <1>4, ZenonT(60) DEF Heartbeat, BeatWakes, BeatWakesLate, BeatRenewed, BeatRetries, BeatFails,
        WatchdogFires, BeatStops, GivesUp, Unheld
<1> QED
    BY <1>1, <1>2, <1>3, <1>4 DEF Next

\* Every step of the cycle, its tasks, the service and the clock keeps the types.
LEMMA DataStep == DataOK /\ [Next]_vars => DataOK'
<1> SUFFICES ASSUME DataOK, [Next]_vars PROVE DataOK'
    OBVIOUS
<1> USE TtlAssumption, ConservativeBound DEF DataOK, Requests, NoRequest
<1>1. CASE Tick
    BY <1>1 DEF Tick
<1>2. CASE Superseded
    BY <1>2 DEF Superseded
<1>3. CASE Service
    <2>1. CASE OtherAcquires
        BY <2>1 DEF OtherAcquires, Grant
    <2>2. CASE ServiceGrants
        BY <2>2 DEF ServiceGrants, Grant
    <2>3. CASE ServiceBusy
        BY <2>3 DEF ServiceBusy
    <2>4. CASE ServiceRenews
        BY <2>4 DEF ServiceRenews
    <2>5. CASE ServiceReleases
        BY <2>5 DEF ServiceReleases
    <2> QED
        BY <1>3, <2>1, <2>2, <2>3, <2>4, <2>5 DEF Service
<1>4. CASE Cycle
    <2>1. CASE StartAcquire
        BY <2>1 DEF StartAcquire
    <2>2. CASE AcquireFails
        BY <2>2 DEF AcquireFails
    <2>3. CASE AcquireGranted
        BY <2>3 DEF AcquireGranted, from_grant
    <2>4. CASE LossSeen \/ UplinkReturns
        BY <2>4, ZenonT(60) DEF LossSeen, UplinkReturns
    <2>5. CASE DropHeartbeat \/ Released
        BY <2>5 DEF DropHeartbeat, Released, mark_lost
    <2> QED
        BY <1>4, <2>1, <2>2, <2>3, <2>4, <2>5 DEF Cycle
<1>5. CASE Heartbeat
    <2>1. CASE BeatWakes
        BY <2>1 DEF BeatWakes, Unheld
    <2>2. CASE BeatWakesLate \/ BeatFails
        BY <2>2 DEF BeatWakesLate, BeatFails, BeatStops, GivesUp, mark_lost, Unheld
    <2>3. CASE BeatRenewed
        BY <2>3 DEF BeatRenewed, renewed, mark_lost, Unheld
    <2>4. CASE BeatRetries
        BY <2>4 DEF BeatRetries, Unheld
    <2>5. CASE WatchdogFires
        BY <2>5 DEF WatchdogFires, GivesUp, mark_lost, Unheld
    <2> QED
        BY <1>5, <2>1, <2>2, <2>3, <2>4, <2>5 DEF Heartbeat
<1>6. CASE UNCHANGED vars
    BY <1>6 DEF vars
<1> QED
    BY <1>1, <1>2, <1>3, <1>4, <1>5, <1>6 DEF Next

\* Clocks, fences and the bookkeeping of the tasks.
LEMMA BookStep ==
    DataOK /\ Clocks /\ Fences /\ Tasks /\ [Next]_vars => Clocks' /\ Fences' /\ Tasks'
<1> SUFFICES ASSUME DataOK, Clocks, Fences, Tasks, [Next]_vars
             PROVE Clocks' /\ Fences' /\ Tasks'
    OBVIOUS
<1> USE TtlAssumption, ConservativeBound DEF DataOK, Requests, NoRequest, Clocks, Fences, Tasks
<1>1. CASE Tick
    BY <1>1 DEF Tick
<1>2. CASE Superseded \/ UNCHANGED vars
    BY <1>2, ZenonT(60) DEF Superseded, vars
<1>3. CASE Service
    <2>1. CASE OtherAcquires
        BY <2>1 DEF OtherAcquires, Grant
    <2>2. CASE ServiceGrants
        BY <2>2 DEF ServiceGrants, Grant
    <2>3. CASE ServiceBusy
        BY <2>3 DEF ServiceBusy
    <2>4. CASE ServiceRenews
        BY <2>4 DEF ServiceRenews
    <2>5. CASE ServiceReleases
        BY <2>5 DEF ServiceReleases
    <2> QED
        BY <1>3, <2>1, <2>2, <2>3, <2>4, <2>5 DEF Service
<1>4. CASE Cycle
    <2>1. CASE StartAcquire
        BY <2>1 DEF StartAcquire
    <2>2. CASE AcquireFails
        BY <2>2 DEF AcquireFails
    <2>3. CASE AcquireGranted
        BY <2>3 DEF AcquireGranted, from_grant
    <2>4. CASE LossSeen \/ UplinkReturns
        BY <2>4, ZenonT(60) DEF LossSeen, UplinkReturns
    <2>5. CASE DropHeartbeat \/ Released
        BY <2>5 DEF DropHeartbeat, Released, mark_lost
    <2> QED
        BY <1>4, <2>1, <2>2, <2>3, <2>4, <2>5 DEF Cycle
<1>5. CASE Heartbeat
    <2>1. CASE BeatWakes
        BY <2>1 DEF BeatWakes, Unheld
    <2>2. CASE BeatWakesLate \/ BeatFails
        BY <2>2 DEF BeatWakesLate, BeatFails, BeatStops, GivesUp, mark_lost, Unheld
    <2>3. CASE BeatRenewed
        BY <2>3 DEF BeatRenewed, renewed, mark_lost, Unheld
    <2>4. CASE BeatRetries
        BY <2>4 DEF BeatRetries, Unheld
    <2>5. CASE WatchdogFires
        BY <2>5 DEF WatchdogFires, GivesUp, mark_lost, Unheld
    <2> QED
        BY <1>5, <2>1, <2>2, <2>3, <2>4, <2>5 DEF Heartbeat
<1> QED
    BY <1>1, <1>2, <1>3, <1>4, <1>5 DEF Next

\* No step lets the client's window outlive the service's.
LEMMA CoverStep == IInv /\ [Next]_vars => GrantCovered' /\ LeaseCovered' /\ RenewalCovered'
<1> SUFFICES ASSUME IInv, [Next]_vars PROVE GrantCovered' /\ LeaseCovered' /\ RenewalCovered'
    OBVIOUS
<1> USE TtlAssumption, ConservativeBound
    DEF IInv, TypeOK, DataOK, Requests, NoRequest, Clocks, Fences, Tasks,
        GrantCovered, LeaseCovered, RenewalCovered, Covered, valid_now
<1>1. CASE Tick
    BY <1>1 DEF Tick
<1>2. CASE Superseded \/ UNCHANGED vars
    BY <1>2 DEF Superseded, vars
<1>3. CASE Service
    <2>1. CASE OtherAcquires
        BY <2>1 DEF OtherAcquires, Grant, Free
    <2>2. CASE ServiceGrants
        BY <2>2 DEF ServiceGrants, Grant, Free
    <2>3. CASE ServiceBusy
        BY <2>3 DEF ServiceBusy
    <2>4. CASE ServiceRenews
        BY <2>4 DEF ServiceRenews, Current
    <2>5. CASE ServiceReleases
        BY <2>5 DEF ServiceReleases, Current
    <2> QED
        BY <1>3, <2>1, <2>2, <2>3, <2>4, <2>5 DEF Service
<1>4. CASE Cycle
    <2>1. CASE StartAcquire
        BY <2>1 DEF StartAcquire
    <2>2. CASE AcquireFails
        BY <2>2 DEF AcquireFails
    <2>3. CASE AcquireGranted
        BY <2>3 DEF AcquireGranted, from_grant
    <2>4. CASE LossSeen \/ UplinkReturns
        BY <2>4 DEF LossSeen, UplinkReturns
    <2>5. CASE DropHeartbeat \/ Released
        BY <2>5 DEF DropHeartbeat, Released, mark_lost
    <2> QED
        BY <1>4, <2>1, <2>2, <2>3, <2>4, <2>5 DEF Cycle
<1>5. CASE Heartbeat
    <2>1. CASE BeatWakes
        BY <2>1 DEF BeatWakes, Unheld
    <2>2. CASE BeatWakesLate \/ BeatFails
        BY <2>2 DEF BeatWakesLate, BeatFails, BeatStops, GivesUp, mark_lost, Unheld
    <2>3. CASE BeatRenewed
        BY <2>3 DEF BeatRenewed, renewed, mark_lost, Unheld
    <2>4. CASE BeatRetries
        BY <2>4 DEF BeatRetries, Unheld
    <2>5. CASE WatchdogFires
        BY <2>5 DEF WatchdogFires, GivesUp, mark_lost, Unheld
    <2> QED
        BY <1>5, <2>1, <2>2, <2>3, <2>4, <2>5 DEF Heartbeat
<1> QED
    BY <1>1, <1>2, <1>3, <1>4, <1>5 DEF Next

\* A zone granted to another device during an uplink leaves that uplink a stale
\* fence, so it cannot pass the check guard makes when it returns.
LEMMA IntrusionStep == IInv /\ [Next]_vars => Intrusion' /\ Uninterrupted'
<1> SUFFICES ASSUME IInv, [Next]_vars PROVE Intrusion' /\ Uninterrupted'
    OBVIOUS
<1> USE DEF IInv, TypeOK, DataOK, Fences, Intrusion, Uninterrupted
<1>1. CASE Tick \/ Superseded \/ UNCHANGED vars
    BY <1>1 DEF Tick, Superseded, vars
<1>2. CASE Service
    <2>1. CASE OtherAcquires
        <3>1. lease'.fence < server'.fence
            BY <2>1 DEF OtherAcquires, Grant
        <3>2. pc # "uplink" => (intruded' <=> intruded)
            BY <2>1, ZenonT(60) DEF OtherAcquires
        <3>3. pc' = pc /\ outcome' = outcome
            BY <2>1 DEF OtherAcquires
        <3> QED
            BY <3>1, <3>2, <3>3
    <2>2. CASE ServiceGrants
        BY <2>2 DEF ServiceGrants, Grant
    <2>3. CASE ServiceBusy \/ ServiceRenews \/ ServiceReleases
        BY <2>3 DEF ServiceBusy, ServiceRenews, ServiceReleases
    <2> QED
        BY <1>2, <2>1, <2>2, <2>3 DEF Service
<1>3. CASE Cycle
    <2>1. CASE StartAcquire \/ AcquireFails
        BY <2>1 DEF StartAcquire, AcquireFails
    <2>2. CASE AcquireGranted
        BY <2>2 DEF AcquireGranted
    <2>3. CASE LossSeen
        BY <2>3 DEF LossSeen
    <2>4. CASE UplinkReturns
        BY <2>4 DEF UplinkReturns, LeaseCovered, Covered
    <2>5. CASE DropHeartbeat \/ Released
        BY <2>5 DEF DropHeartbeat, Released, mark_lost
    <2> QED
        BY <1>3, <2>1, <2>2, <2>3, <2>4, <2>5 DEF Cycle
<1>4. CASE Heartbeat
    <2>1. UNCHANGED <<pc, server, outcome, intruded>>
        BY <1>4 DEF Heartbeat, BeatWakes, BeatWakesLate, BeatRenewed, BeatRetries, BeatFails,
            WatchdogFires, BeatStops, Unheld
    <2>2. mark_lost(lease).fence = lease.fence
        BY DEF mark_lost
    <2>3. renewed(lease, now, renewal.started).fence = lease.fence
        BY DEF renewed, mark_lost
    <2>4. lease'.fence = lease.fence
        BY <1>4, <2>2, <2>3 DEF Heartbeat, BeatWakes, BeatWakesLate, BeatRenewed, BeatRetries,
            BeatFails, WatchdogFires, BeatStops, GivesUp
    <2> QED
        BY <2>1, <2>4
<1> QED
    BY <1>1, <1>2, <1>3, <1>4 DEF Next

\* IInv is an invariant of the specification.
THEOREM Inductive == Spec => []IInv
<1>1. IInv /\ [Next]_vars => IInv'
    BY FlagsStep, DataStep, BookStep, CoverStep, IntrusionStep DEF IInv, TypeOK
<1> QED
    BY InitIInv, <1>1, PTL DEF Spec

\* The types of UploadLease's variables are kept by every behaviour.
THEOREM TypeCorrect == Spec => []TypeOK
<1>1. IInv => TypeOK
    BY DEF IInv
<1> QED
    BY Inductive, <1>1, PTL

\* For every TTL and every interleaving of the cycle, its heartbeat and watchdog,
\* the other device and the network: a lease that is valid_now during the uplink
\* is the service's current grant.
THEOREM AuthoritySafe == Spec => []Authority
<1>1. IInv => Authority
    BY DEF IInv, TypeOK, DataOK, LeaseCovered, Covered, Authority, Current, valid_now
<1> QED
    BY Inductive, <1>1, PTL

\* For every TTL: an uplink that guard lets succeed was never interrupted by a
\* grant to another device.
THEOREM UninterruptedSafe == Spec => []Uninterrupted
<1>1. IInv => Uninterrupted
    BY DEF IInv
<1> QED
    BY Inductive, <1>1, PTL

\* No step takes a lost lease back to held, except the grant of a new one.
THEOREM LossFinal == Spec => LossIsFinal
<1>1. IInv /\ [Next]_vars => [lease.state = "lost" => lease'.state = "lost" \/ pc = "acquiring"]_vars
    <2> SUFFICES ASSUME IInv, Next, lease.state = "lost", pc # "acquiring"
                 PROVE lease'.state = "lost"
        OBVIOUS
    <2> USE DEF IInv, TypeOK, DataOK
    <2>1. CASE Tick \/ Superseded
        BY <2>1 DEF Tick, Superseded
    <2>2. CASE Service
        BY <2>2 DEF Service, OtherAcquires, ServiceGrants, ServiceBusy, ServiceRenews,
            ServiceReleases
    <2>3. CASE Cycle
        BY <2>3 DEF Cycle, StartAcquire, AcquireFails, AcquireGranted, LossSeen, UplinkReturns,
            DropHeartbeat, Released, mark_lost
    <2>4. CASE Heartbeat
        BY <2>4 DEF Heartbeat, BeatWakes, BeatWakesLate, BeatRenewed, BeatRetries, BeatFails,
            WatchdogFires, BeatStops, GivesUp, renewed, mark_lost
    <2> QED
        BY <2>1, <2>2, <2>3, <2>4 DEF Next
<1> QED
    BY Inductive, <1>1, PTL DEF Spec, LossIsFinal
=============================================================================

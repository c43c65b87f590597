------------------------------ MODULE GuestCpu ------------------------------
(****************************************************************************)
(* The exclusive guest CPU of guest_cpu.rs: the counters of the WSL kernel  *)
(* and of the cgroups of containers, read at different times, interpolated  *)
(* over one common window.                                                  *)
(*                                                                          *)
(* The guest uses CPU at a constant rate in each container and, during a    *)
(* boot, outside of them, so that the true answer is known and counters are *)
(* whole numbers between their readings as well.                            *)
(****************************************************************************)
EXTENDS FiniteSets, FiniteSetsExt, Functions, Integers, Sequences

CONSTANTS
    Targets,      \* containers as <<environment, id>>, 2 is WSLC and 3 is Docker
    AliasOf,      \* the container whose cgroup a container is
    Rate,         \* CPU units that each cgroup uses in a tick
    Outside,      \* CPU units that the rest of the guest uses in a tick of a boot
    Window,       \* interval.max(2s)
    SeriesLen,    \* points kept: 8
    Steps,        \* ticks that may pass between two steps
    LastTick,     \* bound: the clock
    LastBoot,     \* bound: boots of the guest
    LastGroup     \* bound: cgroups created

\* Docker owns an exact cgroup alias also exposed by WSLC.
SortsFirst(t, u) == t[1] > u[1] \/ (t[1] = u[1] /\ t[2] < u[2])

ASSUME GuestCpuAssumption ==
    /\ IsFiniteSet(Targets) /\ Targets \subseteq {2, 3} \X Nat
    /\ AliasOf \in [Targets -> Targets]
    /\ \A t \in Targets : AliasOf[t] # t => SortsFirst(AliasOf[t], t) /\ AliasOf[AliasOf[t]] = AliasOf[t]
    /\ Rate \in [Targets -> Nat] /\ Outside \in [1..LastBoot -> Nat]
    /\ Window \in Nat \ {0} /\ SeriesLen \in Nat \ {0} /\ Steps \subseteq Nat
    /\ LastTick \in Nat /\ LastBoot \in Nat \ {0} /\ LastGroup \in Nat

VARIABLES
    tick,      \* the clock of the host
    boot,      \* the boot of the guest
    bootedAt,  \* the tick of each boot
    cgroups,   \* of each container: its identity and the tick it started, or 0
    created,   \* cgroup identities given so far
    kernel,    \* the series of the kernel
    series,    \* the series of the containers, <<>> when there is none
    asked      \* the last answer, and the containers it was asked about

guestCpuVars == <<tick, boot, bootedAt, cgroups, created, kernel, series, asked>>

MaxAge == 2 * Window + 1
NotAsked == [ok |-> FALSE]

InitGuestCpu ==
    /\ tick = 0
    /\ boot = 1
    /\ bootedAt = <<0>>
    /\ cgroups = [t \in Targets |-> [identity |-> 0, since |-> 0]]
    /\ created = 0
    /\ kernel = <<>>
    /\ series = [t \in Targets |-> <<>>]
    /\ asked = NotAsked

-----------------------------------------------------------------------------
(* Series.                                                                  *)
(****************************************************************************)

\* Mutant: only the identity of the counter is compared.
SameIdentity(old, point) == old.identity = point.identity /\ old.time < point.time

\* A counter that restarted, or is another one, does not continue the series.
Continues(old, point) ==
    /\ old.boot = point.boot /\ old.identity = point.identity
    /\ old.time < point.time /\ old.seconds =< point.seconds

Push(s, point) ==
    LET kept == IF s # <<>> /\ ~Continues(s[Len(s)], point) THEN <<>> ELSE s
        all  == Append(kept, point)
    IN  SubSeq(all, Len(all) - (IF Len(all) > SeriesLen THEN SeriesLen ELSE Len(all)) + 1, Len(all))

Spans(s, time) ==
    {i \in 1..(Len(s) - 1) : s[i].time =< time /\ time =< s[i + 1].time
                             /\ s[i + 1].time - s[i].time =< 2 * Window}

Interpolated(s, time) ==
    LET a == s[Min(Spans(s, time))]
        b == s[Min(Spans(s, time)) + 1]
    IN  a.seconds + ((b.seconds - a.seconds) * (time - a.time)) \div (b.time - a.time)

Uptime == tick - bootedAt[boot]

\* The cgroups, by the containers that own them.
AllGroups == {AliasOf[t] : t \in Targets}

KernelSample ==
    /\ kernel' = Push(kernel, [boot |-> boot, identity |-> 0, time |-> Uptime,
                               seconds |-> Uptime * (Outside[boot] + SumFunctionOnSet(Rate, AllGroups)),
                               received |-> tick])
    /\ asked' = NotAsked
    /\ UNCHANGED <<tick, boot, bootedAt, cgroups, created, series>>

KernelUnavailable ==
    /\ kernel # <<>>
    /\ kernel' = <<>>
    /\ asked' = NotAsked
    /\ UNCHANGED <<tick, boot, bootedAt, cgroups, created, series>>

Counter(t) ==
    LET group == cgroups[AliasOf[t]]
    IN  [boot |-> boot, identity |-> group.identity, time |-> Uptime,
         seconds |-> Rate[AliasOf[t]] * (tick - group.since), received |-> tick]

Reported == {t \in Targets : cgroups[AliasOf[t]].identity # 0}

\* containers(): the containers that run are reported; a failed probe, or a
\* container that is not reported, ends its series.
ContainerProbes(environment, failed) ==
    /\ failed \subseteq {t \in Reported : t[1] = environment}
    /\ \E t \in Targets : t[1] = environment
    /\ series' = [t \in Targets |-> IF t[1] # environment THEN series[t]
                                    ELSE IF t \in Reported \ failed THEN Push(series[t], Counter(t))
                                    ELSE <<>>]
    /\ asked' = NotAsked
    /\ UNCHANGED <<tick, boot, bootedAt, cgroups, created, kernel>>

-----------------------------------------------------------------------------
(* exclusive().                                                             *)
(****************************************************************************)

LastOf(s) == s[Len(s)]

Usable(t) ==
    /\ series[t] # <<>>
    /\ LastOf(series[t]).boot = LastOf(kernel).boot
    /\ tick - LastOf(series[t]).received =< MaxAge

\* One target for each identity.
Sources(targets) ==
    {t \in targets : \A u \in targets :
        LastOf(series[u]).identity = LastOf(series[t]).identity => ~SortsFirst(u, t)}

Delta(s, end) == Interpolated(s, end) - Interpolated(s, end - Window)

CpuIn(environment, sources, end) ==
    SumFunctionOnSet([t \in sources |-> Delta(series[t], end)], {t \in sources : t[1] = environment})

Refused == [ok |-> FALSE]

Exclusive(targets, cpus) ==
    IF ~(targets # {} /\ kernel # <<>> /\ cpus > 0) THEN Refused
    ELSE IF ~(\A t \in targets : Usable(t)) \/ tick - LastOf(kernel).received > MaxAge THEN Refused
    ELSE LET sources == Sources(targets)
             all     == {kernel} \cup {series[t] : t \in sources}
             end     == Min({LastOf(s).time : s \in all})
             wslc    == CpuIn(2, sources, end)
             docker  == CpuIn(3, sources, end)
         IN  IF \E s \in all : Spans(s, end - Window) = {} \/ Spans(s, end) = {} THEN Refused
             ELSE IF (\E s \in all : Delta(s, end) < 0) \/ Delta(kernel, end) < wslc + docker THEN Refused
             ELSE [ok |-> TRUE, end |-> end, wslc |-> wslc, docker |-> docker,
                   wsl |-> Delta(kernel, end) - wslc - docker]

Ask ==
    /\ asked = NotAsked /\ Reported # {}
    /\ asked' = [answer |-> Exclusive(Reported, 1), ok |-> Exclusive(Reported, 1).ok, about |-> Reported]
    /\ UNCHANGED <<tick, boot, bootedAt, cgroups, created, kernel, series>>

-----------------------------------------------------------------------------
(* The guest.                                                               *)
(****************************************************************************)

GuestTick ==
    /\ \E step \in Steps : tick + step =< LastTick /\ tick' = tick + step
    /\ asked' = NotAsked
    /\ UNCHANGED <<boot, bootedAt, cgroups, created, kernel, series>>

\* Every container ends with the guest.
GuestReboots ==
    /\ boot < LastBoot /\ Uptime > 0
    /\ boot' = boot + 1
    /\ bootedAt' = Append(bootedAt, tick)
    /\ cgroups' = [t \in Targets |-> [identity |-> 0, since |-> 0]]
    /\ asked' = NotAsked
    /\ UNCHANGED <<tick, created, kernel, series>>

\* A container starts, or is restarted in a new cgroup.
ContainerStarts(t) ==
    /\ AliasOf[t] = t /\ created < LastGroup
    /\ created' = created + 1
    /\ cgroups' = [cgroups EXCEPT ![t] = [identity |-> created', since |-> tick]]
    /\ asked' = NotAsked
    /\ UNCHANGED <<tick, boot, bootedAt, kernel, series>>

GuestCpuNext ==
    \/ GuestTick
    \/ GuestReboots
    \/ \E t \in Targets : ContainerStarts(t)
    \/ KernelSample
    \/ KernelUnavailable
    \/ \E failed \in SUBSET Targets : \E environment \in {2, 3} : ContainerProbes(environment, failed)
    \/ Ask

GuestCpuSpec == InitGuestCpu /\ [][GuestCpuNext]_guestCpuVars

-----------------------------------------------------------------------------
\* The units of CPU that distinct cgroups use in a window.
InWindow(S) == Window * SumFunctionOnSet(Rate, S)
Groups(environment) == {t \in {AliasOf[u] : u \in asked.about} : t[1] = environment}

\* An answer is the CPU that the containers, and the rest of the guest, used in a
\* window of one boot that ended at most MaxAge ago: no counter of another boot
\* or cgroup, no alias and no stale counter enters it (guest_cpu.rs:305,
\* guest_cpu.rs:433, guest_cpu.rs:445).
ExclusiveExact ==
    asked.ok =>
        /\ asked.answer.wslc = InWindow(Groups(2))
        /\ asked.answer.docker = InWindow(Groups(3))
        /\ asked.answer.wsl = Window * Outside[LastOf(kernel).boot] + InWindow(AllGroups \ (Groups(2) \cup Groups(3)))
        /\ asked.answer.end + bootedAt[LastOf(kernel).boot] >= tick - MaxAge
=============================================================================

---------------------------- MODULE MCCollection ----------------------------
(****************************************************************************)
(* Small instances of the collectors for TLC.  Each scenario runs one of    *)
(* them; the variables of the others rest.                                  *)
(****************************************************************************)
EXTENDS Monitor, Cases, ProcScan, GuestCpu, HostHistory, StreamView

VARIABLE scenario

MCSameStem == [name \in {1, 5, App, WebView} |-> name]
MCTargets  == {<<2, 1>>, <<3, 1>>}
MCAliasOf  == <<2, 1>> :> <<3, 1>> @@ <<3, 1>> :> <<3, 1>>
MCRate     == <<2, 1>> :> 1 @@ <<3, 1>> :> 2
MCOutside  == <<1, 3>>
MCHere     == 1

One == [id |-> 1, name |-> 1, cpu |-> [number |-> 1, suffix |-> TRUE], memory |-> [amount |-> 1, unit |-> "MiB"]]
Vague == [One EXCEPT !.memory = Bad]

MCOutputs == {[is |-> "not_found"], [is |-> "timeout"], [is |-> "stats", stats |-> {One}]}
MCPrinted == {<<[is |-> "printed", columns |-> TRUE, timed |-> FALSE,
                 rows |-> {[pid |-> 7, ppid |-> 1, cpu |-> 1, rss |-> 1, time |-> Bad, command |-> 1]}], [is |-> "failure"]>>}
MCMetadata == {[pid \in {} |-> NoMetadata]}

Config(wslOnly, wslc, docker, name, hosts) ==
    [wslOnly |-> wslOnly, wslc |-> wslc, docker |-> docker, apps |-> TRUE, processes |-> TRUE,
     name |-> name, hosts |-> hosts]

-----------------------------------------------------------------------------
RestPlan == /\ platform = "wsl" /\ running = {} /\ changes = 0 /\ faults = 0
            /\ plan = Absent /\ capture = Idle /\ listings = <<>>
RestMonitor == /\ config = Absent /\ pc = "failed" /\ captures = <<>> /\ cpus = 1 /\ collectorCpus = 0
               /\ windows = <<>> /\ worker = [r \in Runtimes |-> [at |-> "off"]] /\ published = Absent
RestScan == /\ table = <<>> /\ starts = 0 /\ members = {} /\ reader = [scan |-> 0] /\ first = NoProcess
            /\ group = 0 /\ scans = [n \in {1, 2} |-> {}]
RestGuest == /\ tick = 0 /\ boot = 1 /\ bootedAt = <<0>> /\ cgroups = <<>> /\ created = 0
             /\ kernel = <<>> /\ series = <<>> /\ asked = NotAsked
RestHistory == points = <<>> /\ arrivals = <<>>
RestView == showsDocker = FALSE /\ held = NothingHeld

\* With both runtimes in use the CPU count is not known yet, and can change; with
\* one of them distributions start and stop.
OneRuntime == ~config.wslc \/ ~config.docker

\* A sample of either platform, with one runtime left out or both in use.
InitSample ==
    /\ InitPlan({2}) /\ 2 \in running
    /\ IF platform = "windows"
       THEN InitMonitor({Config(FALSE, TRUE, TRUE, <<1, 2>>, {8}), Config(FALSE, TRUE, FALSE, Absent, {8, 9})})
       ELSE InitMonitor({Config(FALSE, FALSE, TRUE, <<1, 1>>, {8, 9}), Config(TRUE, TRUE, TRUE, <<1, 1>>, {8})})
    /\ cpus = IF OneRuntime THEN 1 ELSE 0
    /\ RestScan /\ RestGuest /\ RestHistory /\ case = NoCase /\ RestView

CollectionInit ==
    \/ scenario = "sample" /\ InitSample
    \/ /\ scenario = "scan" /\ InitScan
       /\ RestPlan /\ RestMonitor /\ RestGuest /\ RestHistory /\ case = NoCase /\ RestView
    \/ /\ scenario = "guest" /\ InitGuestCpu
       /\ RestPlan /\ RestMonitor /\ RestScan /\ RestHistory /\ case = NoCase /\ RestView
    \/ /\ scenario = "history" /\ InitHistory
       /\ RestPlan /\ RestMonitor /\ RestScan /\ RestGuest /\ case = NoCase /\ RestView
    \/ /\ scenario = "cases" /\ CaseInit
       /\ RestPlan /\ RestMonitor /\ RestScan /\ RestGuest /\ RestHistory /\ RestView
    \/ /\ scenario = "view" /\ InitView
       /\ RestPlan /\ RestMonitor /\ RestScan /\ RestGuest /\ RestHistory /\ case = NoCase
    \/ /\ scenario = "stream" /\ InitPlan({2})
       /\ RestMonitor /\ RestScan /\ RestGuest /\ RestHistory /\ case = NoCase /\ RestView

\* A change counts where it can be seen: between a discovery and the last of the
\* captures it leads to.
Monitored ==
    /\ scenario = "sample" /\ MonitorNext
    /\ changes' = changes \/ (OneRuntime /\ capture.at \in {"discover", "visit"})

RestAll == UNCHANGED <<tableVars, scanVars, guestCpuVars, historyVars, case, viewVars>>

collectionVars == <<monitorVars, tableVars, scanVars, guestCpuVars, historyVars, case, viewVars, scenario>>

CollectionNext ==
    \/ Monitored /\ RestAll
    \/ /\ scenario = "stream" /\ StreamPlanNext({<<1, 1>>, <<1, 2>>})
       /\ RestAll /\ UNCHANGED <<sampleVars, cpus, worker>>
    \/ scenario = "scan" /\ ScanNext /\ UNCHANGED <<monitorVars, guestCpuVars, historyVars, case, viewVars>>
    \/ scenario = "guest" /\ GuestCpuNext /\ UNCHANGED <<monitorVars, tableVars, scanVars, historyVars, case, viewVars>>
    \/ scenario = "history" /\ HistoryNext /\ UNCHANGED <<monitorVars, tableVars, scanVars, guestCpuVars, case, viewVars>>
    \/ scenario = "view" /\ ViewNext /\ UNCHANGED <<monitorVars, tableVars, scanVars, guestCpuVars, historyVars, case>>

Spec ==
    /\ CollectionInit
    /\ [][CollectionNext /\ UNCHANGED scenario]_collectionVars
    /\ MonitorFairness

\* The program runs in a distribution without WSL_DISTRO_NAME: as a service, or
\* in a session that does not pass it on.
UnnamedInit ==
    /\ scenario = "sample" /\ platform = "wsl"
    /\ InitPlan({2}) /\ InitMonitor({Config(FALSE, FALSE, FALSE, Absent, {8})})
    /\ RestScan /\ RestGuest /\ RestHistory /\ case = NoCase /\ RestView

SpecUnnamed == UnnamedInit /\ [][CollectionNext /\ UNCHANGED scenario]_collectionVars
=============================================================================

------------------------------ MODULE ScanJobs ------------------------------
(* The engines an analyst starts from the dashboard, each a flag or a job list *)
(* in front of worker threads: the vulnerability scanner (vuln_scanner.py),    *)
(* the web fuzzer (web_fuzzer.py) and the patch manager (patch_manager.py).    *)
(* An operator that stands right above another one with the same parameters    *)
(* and is used nowhere is a faulty variant of it (PROJECT.json, "mutants").    *)
EXTENDS SocClock, Integers, Sequences, FiniteSets, SequencesExt, FiniteSetsExt

CONSTANTS Hosts,           \* the inventory, its first entry the localhost
          PortsSeen,       \* the sets of open ports a scan may see on a host
          Updates,         \* what apt may list as upgradable: sets of packages
          Scanners,        \* request threads that start the fuzzer
          FuzzTargets,     \* records [private, known]
          WriteAllowed,    \* FUZZ_ALLOW_WRITE
          MaxSent,         \* FUZZ_MAX_REQUESTS; a run has as many payloads and one
          FindingCap,      \* findings and history are bounded deques
          Commands,        \* what check_command finds in a command
          JobCap,          \* jobs a deque keeps (50)
          MaxScans, MaxFuzzRuns, MaxJobs   \* bounds

ASSUME ScanAssumption == Hosts # <<>> /\ MaxSent \in Nat /\ JobCap \in Nat \ {0}
ASSUME NoneIsNoScan == \A places \in SUBSET (DOMAIN Hosts) : places # None
ASSUME NoneIsNoIds == \A ids \in SUBSET ({Hosts[i].id : i \in DOMAIN Hosts} \cup {None}) : ids # None
ASSUME NoneIsNoRun == None \notin [sent : Nat, found : Nat]

VARIABLES vulnBusy, vulnScan, vulnResults, vulnCounts, vulnHistory, scansDone,
          vulnAsk,         \* the hosts asked for, from the raised flag to the thread
          vulnStuck,       \* history: a start broke off under the raised flag
          fuzzAsks, fuzzRuns, fuzzing, fuzzStop, fuzzFindings, fuzzHistory, fuzzStarted,
          fuzzStuck,       \* history: the same, and no run lowered the flag since
          patchSetup, inventory, jobRecords, patchJobs

vulnRest == <<vulnBusy, vulnScan, vulnResults, vulnCounts, vulnHistory, scansDone, vulnAsk, vulnStuck>>
fuzzRest == <<fuzzAsks, fuzzRuns, fuzzing, fuzzStop, fuzzFindings, fuzzHistory, fuzzStarted, fuzzStuck>>
patchRest == <<patchSetup, inventory, jobRecords, patchJobs>>
engineVars == <<now, vulnRest, fuzzRest, patchRest>>

HostIds == {h.id : h \in ToSet(Hosts)}
Pushed(entry, deque, cap) == SubSeq(<<entry>> \o deque, 1, IF Len(deque) < cap THEN Len(deque) + 1 ELSE cap)

-----------------------------------------------------------------------------
(* The vulnerability scanner. A port is [cves, exposed, pkg]: what the banner  *)
(* or vulners said of it, RISKY_EXPOSED and the package behind the service.    *)

SeverityRank == [critical |-> 4, high |-> 3, medium |-> 2, low |-> 1, info |-> 0]

DedupCves(cves) ==
    {c \in cves : \A d \in cves : d.number = c.number => SeverityRank[d.severity] <= SeverityRank[c.severity]}

PortSeverity(port) ==
    LET found == {c.severity : c \in port.cves} \cup ({port.exposed} \ {None})
    IN IF found = {} THEN "info" ELSE
       CHOOSE s \in {"critical", "high", "medium", "low"} :
          SeverityRank[s] = Max({1} \cup {SeverityRank[f] : f \in found})

\* The hosts of a scan, as places in the inventory; unknown ids select every host.
HostsById(ids) == LET chosen == {i \in DOMAIN Hosts : Hosts[i].id \in ids}
                  IN IF chosen = {} THEN DOMAIN Hosts ELSE chosen
NextHost == Hosts[Min(vulnScan)]

VerdictFor(pkg, installed, upgradable) ==
    IF installed = None THEN "unknown"
    ELSE IF pkg \in upgradable THEN "vulnerable"
    ELSE IF installed = "backport" THEN "patched" ELSE "unknown"

\* apt is [answers, upgradable, installed]: a local query that fails lists no
\* update, a remote one that fails gives no status at all.
Judge(port, host, apt) ==
    IF port.cves = {} THEN None
    ELSE IF host.conn = "ssh" /\ ~apt.answers THEN "unknown"
    ELSE IF port.pkg = None THEN "unknown"
    ELSE VerdictFor(port.pkg, apt.installed, IF apt.answers THEN apt.upgradable ELSE {})

ScannedPort(port, host, apt) ==
    LET kept == [port EXCEPT !.cves = DedupCves(port.cves)]
    IN [cves |-> kept.cves, exposed |-> kept.exposed, severity |-> PortSeverity(kept),
        verdict |-> Judge(kept, host, apt)]

DemoPort(host) ==
    [cves |-> {[number |-> 1, severity |-> "high"]}, pkg |-> "openssh",
     exposed |-> IF host.conn = "ssh" THEN "high" ELSE None]

\* The flag goes up under the lock; what follows is outside it and outside any
\* try, so ids that cannot be put in a set, or a thread that does not start,
\* leave it up.
StartScan(ids) ==
    /\ scansDone < MaxScans
    /\ ~vulnBusy
    /\ vulnBusy' = TRUE
    /\ vulnAsk' = ids
    /\ scansDone' = scansDone + 1
    /\ UNCHANGED <<now, vulnScan, vulnResults, vulnCounts, vulnHistory, vulnStuck>>

SelectHosts ==
    /\ vulnAsk # None
    /\ vulnScan' = HostsById(vulnAsk)
    /\ vulnAsk' = None
    /\ UNCHANGED <<now, vulnBusy, vulnResults, vulnCounts, vulnHistory, scansDone, vulnStuck>>

BreakStart ==
    /\ vulnAsk # None
    /\ vulnAsk' = None
    /\ vulnStuck' = TRUE
    /\ UNCHANGED <<now, vulnBusy, vulnScan, vulnResults, vulnCounts, vulnHistory, scansDone>>

\* A host that does not answer shows the demo ports.
ScanHost(ports, apt) ==
    /\ vulnScan \notin {None, {}}
    /\ vulnResults' = [vulnResults EXCEPT ![NextHost.id] = {ScannedPort(p, NextHost, apt) : p \in ports}]
    /\ vulnScan' = vulnScan \ {Min(vulnScan)}
    /\ UNCHANGED <<now, vulnBusy, vulnCounts, vulnHistory, scansDone, vulnAsk, vulnStuck>>

ScanUnreachable(apt) ==
    /\ vulnScan \notin {None, {}}
    /\ ScanHost({DemoPort(NextHost)}, apt)

Findings(ports) ==
    FoldSet(LAMBDA p, n : n + Cardinality(p.cves) + IF p.exposed = None THEN 0 ELSE 1,
            0, ports)
Recount ==
    FoldSet(LAMBDA h, n : n + IF vulnResults[h] = None THEN 0 ELSE Findings(vulnResults[h]), 0, HostIds)

EndScan ==
    /\ vulnScan = {}
    /\ vulnCounts' = Recount
    /\ vulnHistory' = Pushed(Recount, vulnHistory, FindingCap)
    /\ vulnBusy' = FALSE
    /\ vulnScan' = None
    /\ UNCHANGED <<now, vulnResults, scansDone, vulnAsk, vulnStuck>>

\* An exception skips the hosts that are left and the counts, not the flag.
FailScan ==
    /\ vulnScan \notin {None, {}}
    /\ vulnBusy' = FALSE
    /\ vulnScan' = None
    /\ UNCHANGED <<now, vulnResults, vulnCounts, vulnHistory, scansDone, vulnAsk, vulnStuck>>

-----------------------------------------------------------------------------
(* The web fuzzer: run tests the flag in one critical section and sets it in   *)
(* another, with the target's look-up in between.                              *)

Accepts(target, method) == target.known /\ target.private /\ (method = "GET" \/ WriteAllowed)

AskFuzz(c, target, method) ==
    /\ fuzzAsks[c] = "idle"
    /\ fuzzRuns[c] = None
    /\ fuzzStarted < MaxFuzzRuns
    /\ ~fuzzing
    /\ Accepts(target, method)
    /\ fuzzAsks' = [fuzzAsks EXCEPT ![c] = "passed"]
    /\ fuzzStarted' = fuzzStarted + 1
    /\ UNCHANGED <<now, fuzzRuns, fuzzing, fuzzStop, fuzzFindings, fuzzHistory, fuzzStuck>>

RaiseFuzz(c) ==
    /\ fuzzAsks[c] = "passed"
    /\ fuzzAsks' = [fuzzAsks EXCEPT ![c] = "raised"]
    /\ fuzzing' = TRUE
    /\ fuzzStop' = FALSE
    /\ UNCHANGED <<now, fuzzRuns, fuzzFindings, fuzzHistory, fuzzStarted, fuzzStuck>>

\* The thread starts, or does not and leaves the flag up.
StartFuzz(c, starts) ==
    /\ fuzzAsks[c] = "raised"
    /\ fuzzAsks' = [fuzzAsks EXCEPT ![c] = "idle"]
    /\ fuzzRuns' = IF starts THEN [fuzzRuns EXCEPT ![c] = [sent |-> 0, found |-> 0]] ELSE fuzzRuns
    /\ fuzzStuck' = (fuzzStuck \/ (~starts /\ fuzzing))
    /\ UNCHANGED <<now, fuzzing, fuzzStop, fuzzFindings, fuzzHistory, fuzzStarted>>

StopFuzz ==
    /\ ~fuzzStop
    /\ fuzzStop' = TRUE
    /\ UNCHANGED <<now, fuzzAsks, fuzzRuns, fuzzing, fuzzFindings, fuzzHistory, fuzzStarted, fuzzStuck>>

\* A reply is [error, status, reflected, slow].
Classify(reply) ==
    CASE reply.error \in {"timeout", "conn_reset"} -> "timeout"
      [] reply.error = None /\ reply.status >= 500 -> "server_error"
      [] reply.error = None /\ reply.status < 500 /\ reply.reflected -> "reflection"
      [] reply.error = None /\ reply.status < 500 /\ ~reply.reflected /\ reply.slow -> "latency"
      [] OTHER -> None

Replies ==
    [error : {"timeout", "conn_reset", "other"}, status : {0}, reflected : {FALSE}, slow : {FALSE}]
       \cup [error : {None}, status : {200, 500}, reflected : BOOLEAN, slow : BOOLEAN]

SendFuzz(c, verdict) ==
    /\ fuzzRuns[c] # None
    /\ ~fuzzStop
    /\ fuzzRuns[c].sent < MaxSent
    /\ fuzzRuns' = [fuzzRuns EXCEPT ![c] = [sent |-> @.sent + 1,
                                            found |-> @.found + IF verdict = None THEN 0 ELSE 1]]
    /\ fuzzFindings' = IF verdict = None THEN fuzzFindings ELSE Pushed(verdict, fuzzFindings, FindingCap)
    /\ UNCHANGED <<now, fuzzAsks, fuzzing, fuzzStop, fuzzHistory, fuzzStarted, fuzzStuck>>

\* The run is over, stopped or broke off with an exception.
EndFuzz(c) ==
    /\ fuzzRuns[c] # None
    /\ fuzzRuns' = [fuzzRuns EXCEPT ![c] = None]
    /\ fuzzing' = FALSE
    /\ fuzzStuck' = FALSE
    /\ fuzzHistory' = Pushed([sent |-> fuzzRuns[c].sent, stopped |-> fuzzStop], fuzzHistory, FindingCap)
    /\ UNCHANGED <<now, fuzzAsks, fuzzStop, fuzzFindings, fuzzStarted>>

-----------------------------------------------------------------------------
(* The patch manager. A command is what check_command finds in it:             *)
(* [empty, meta, parses, allowed, readonly, destructive].                      *)

CheckCommand(cmd) ==
    ~cmd.empty /\ ~cmd.meta /\ cmd.parses /\ cmd.allowed /\ cmd.readonly /\ ~cmd.destructive

TargetsOf(ids) == LET chosen == ids \cap HostIds
                  IN IF chosen = {} THEN {Hosts[1].id} ELSE chosen

\* apt answers in real mode only; without an answer the sample packages stand in.
ScanPackages(packages) ==
    /\ inventory' = IF patchSetup.demo \/ packages = None THEN "sample" ELSE packages
    /\ inventory' # inventory
    /\ UNCHANGED <<now, patchSetup, jobRecords, patchJobs>>

\* The mode is a word of the request: "check", "apply" or any other.
OpenJob(kind, mode, cmd, ids) ==
    /\ Len(jobRecords) < MaxJobs
    /\ jobRecords' = Append(jobRecords,
          [kind |-> kind, mode |-> mode, command |-> cmd, hosts |-> TargetsOf(ids),
           packages |-> IF kind = "patch" THEN inventory ELSE None,
           status |-> "running", thread |-> "none", dry |-> FALSE, ran |-> FALSE])
    /\ patchJobs' = Pushed(Len(jobRecords) + 1, patchJobs, JobCap)
    /\ UNCHANGED <<now, patchSetup, inventory>>

\* The dry run that goes on to run.
PreviewRuns(job) ==
    IF job.command # None /\ job.command.empty THEN "blocked"
    ELSE IF job.mode = "apply" /\ ~patchSetup.apply THEN "blocked" ELSE "thread"

\* What the request decides before it starts a thread; "thread" when it does.
Gate(job) ==
    IF job.kind = "patch"
    THEN IF job.mode = "apply" /\ ~patchSetup.apply THEN "blocked" ELSE "thread"
    ELSE IF job.command.empty THEN "blocked"
    ELSE IF job.mode # "apply" THEN "simulated"
    ELSE IF ~patchSetup.apply \/ ~CheckCommand(job.command) THEN "blocked"
    ELSE IF ~patchSetup.ansible THEN "simulated" ELSE "thread"

\* A thread that does not start leaves the job running for ever.
DecideJob(i, starts) ==
    /\ jobRecords[i].status = "running" /\ jobRecords[i].thread = "none"
    /\ LET gate == Gate(jobRecords[i])
       IN jobRecords' = [jobRecords EXCEPT ![i] =
             IF gate # "thread" THEN [@ EXCEPT !.status = gate]
             ELSE [@ EXCEPT !.thread = IF starts THEN "up" ELSE "lost"]]
    /\ UNCHANGED <<now, patchSetup, inventory, patchJobs>>

\* A patch run calls ansible outside demo mode only, a command in either.
Calls(job) == job.kind = "command" \/ (patchSetup.ansible /\ ~patchSetup.demo)

\* ansible ends, runs out of time or cannot be started at all; --check makes a
\* patch run a dry one.
ExecuteJob(i, outcome) ==
    /\ jobRecords[i].status = "running" /\ jobRecords[i].thread = "up"
    /\ jobRecords' = [jobRecords EXCEPT ![i] =
          IF Calls(@) THEN [@ EXCEPT !.status = IF outcome = "zero" THEN "success" ELSE "failed",
                                     !.dry = jobRecords[i].kind = "patch" /\ jobRecords[i].mode = "check",
                                     !.ran = outcome # "broken"]
                      ELSE [@ EXCEPT !.status = "simulated"]]
    /\ UNCHANGED <<now, patchSetup, inventory, patchJobs>>

-----------------------------------------------------------------------------
(* The engines share nothing but the inventory of hosts.                       *)

VulnInit ==
    /\ vulnBusy = FALSE /\ vulnScan = None /\ vulnCounts = 0 /\ vulnHistory = <<>> /\ scansDone = 0
    /\ vulnResults = [h \in HostIds |-> None] /\ vulnAsk = None /\ vulnStuck = FALSE

AptAnswers == [answers : BOOLEAN, upgradable : Updates, installed : {None, "backport", "upstream"}]

VulnNext ==
    \/ \E ids \in SUBSET (HostIds \cup {None}) : StartScan(ids)
    \/ \E ports \in PortsSeen, apt \in AptAnswers : ScanHost(ports, apt)
    \/ \E apt \in AptAnswers : ScanUnreachable(apt)
    \/ SelectHosts \/ BreakStart \/ EndScan \/ FailScan

FuzzInit ==
    /\ fuzzAsks = [c \in Scanners |-> "idle"] /\ fuzzRuns = [c \in Scanners |-> None]
    /\ fuzzing = FALSE /\ fuzzStop = FALSE /\ fuzzFindings = <<>> /\ fuzzHistory = <<>> /\ fuzzStarted = 0
    /\ fuzzStuck = FALSE

FuzzNext ==
    \/ \E c \in Scanners, t \in FuzzTargets, m \in {"GET", "POST"} : AskFuzz(c, t, m)
    \/ \E c \in Scanners, r \in Replies : SendFuzz(c, Classify(r))
    \/ \E c \in Scanners : RaiseFuzz(c) \/ EndFuzz(c)
    \/ \E c \in Scanners, starts \in BOOLEAN : StartFuzz(c, starts)
    \/ StopFuzz

Modes == {"check", "apply", "other"}

PatchInit ==
    /\ patchSetup \in [apply : BOOLEAN, ansible : BOOLEAN, demo : BOOLEAN]
    /\ inventory = "none" /\ jobRecords = <<>> /\ patchJobs = <<>>

PatchNext ==
    \/ \E packages \in {None, "listed"} : ScanPackages(packages)
    \/ \E m \in Modes, ids \in {{}, HostIds} : OpenJob("patch", m, None, ids)
    \/ \E m \in Modes, cmd \in Commands, ids \in {{}, HostIds} : OpenJob("command", m, cmd, ids)
    \/ \E i \in DOMAIN jobRecords, starts \in BOOLEAN : DecideJob(i, starts)
    \/ \E i \in DOMAIN jobRecords, o \in {"zero", "nonzero", "timeout", "broken"} : ExecuteJob(i, o)

\* The engines side by side, each in threads of its own.
EngineInit == now = 0 /\ VulnInit /\ FuzzInit /\ PatchInit
EngineNext ==
    \/ VulnNext /\ UNCHANGED <<fuzzRest, patchRest>>
    \/ FuzzNext /\ UNCHANGED <<vulnRest, patchRest>>
    \/ PatchNext /\ UNCHANGED <<vulnRest, fuzzRest>>
EngineSpec == EngineInit /\ [][EngineNext]_engineVars

-----------------------------------------------------------------------------
(* What the engines show is what they do.  A busy flag, which refuses the next *)
(* scan or run, belongs to a request that is starting one or to a worker that  *)
(* will lower it, whatever that worker throws; only a start that broke off     *)
(* under the flag, and nothing else, leaves it with nobody.  A job recorded as *)
(* blocked or simulated never reached a host.  A command that reached one was  *)
(* asked for, enabled and checked; a patch run that did was a dry run or       *)
(* enabled, unless its mode was a word the gate does not know.                 *)
EnginesTellTruth ==
    /\ vulnBusy <=> (vulnScan # None \/ vulnAsk # None \/ vulnStuck)
    /\ fuzzing => fuzzStuck \/ \E c \in Scanners : fuzzRuns[c] # None \/ fuzzAsks[c] = "raised"
    /\ \A i \in DOMAIN jobRecords : LET job == jobRecords[i] IN
          /\ job.status \in {"blocked", "simulated"} => ~job.ran
          /\ job.ran /\ job.kind = "command" => job.mode = "apply" /\ patchSetup.apply /\ CheckCommand(job.command)
          /\ job.ran /\ ~job.dry => patchSetup.apply \/ (job.kind = "patch" /\ job.mode = "other")
=============================================================================

----------------------------- MODULE MCServices -----------------------------
(* Identities, logins and the services beside the pipeline, for TLC: a         *)
(* behaviour takes one of them, so the graph is the union of theirs.           *)
EXTENDS IdentityDirectory, LoginThrottle, SyslogReceiver, Lookups, LogTails,
        ScanJobs, HostSensors, SigmaRules, FeatureStore, RetentionSweep,
        AggregateCache, ModelRetrain, TLC

CONSTANTS u1, u2, t1, t2, s1, p1, p2, broken, Parts

VARIABLE part   \* the component under check

TwoNames == {u1, u2}
TwoThreads == {t1, t2}
OneSocket == {s1}
TwoPeers == {p1, p2}
OnePeer == {p1}
TwoRoles == {"analyst", "admin"}
WebPeer == {p2}
TwoPieces == {{}, {1, 3}}
CutAnywhere == {<<{1, 3}>>, <<{}, {0}, Lead>>, <<Trail, {0}, {}>>, <<{0}, Lead, Trail, {0}, {1, 3}, {0}>>}
TwoSubjects == {p1, p2}
BothServices == {"abuseipdb", "virustotal"}
SixReaders == {"access", "auth", "snort", "suricata", "zeek", "sysmon"}
Line(request, grade, excluded, external) ==
    [request |-> request, grade |-> grade, excluded |-> excluded, external |-> external]
ThreeLines == <<Line("scan", 1, TRUE, TRUE), Line("failed", 500, FALSE, TRUE), Line("tls", 3, FALSE, TRUE)>>
TwoHosts == <<[id |-> p1, conn |-> "local"], [id |-> p2, conn |-> "ssh"]>>
Cve(number, severity) == [number |-> number, severity |-> severity]
SomePorts == {{}, {[cves |-> {Cve(1, "low"), Cve(1, "high")}, exposed |-> "high", pkg |-> "openssh"]},
              {[cves |-> {Cve(2, "critical")}, exposed |-> None, pkg |-> None],
               [cves |-> {}, exposed |-> None, pkg |-> "openssh"]}}
OpensshOrNot == {{}, {"openssh"}}
ThreeTargets == {[known |-> TRUE, private |-> b] : b \in BOOLEAN} \cup {[known |-> FALSE, private |-> TRUE]}
Plain == [empty |-> FALSE, meta |-> FALSE, parses |-> TRUE, allowed |-> TRUE, readonly |-> TRUE, destructive |-> FALSE]
SomeCommands == {Plain, [Plain EXCEPT !.empty = TRUE], [Plain EXCEPT !.meta = TRUE], [Plain EXCEPT !.allowed = FALSE]}
Kind(binary, revshell, busy, protected) ==
    [binary |-> binary, revshell |-> revshell, tmpexec |-> revshell, webshell |-> FALSE, encoded |-> busy,
     busy |-> busy, protected |-> protected]
FourKinds == {Kind(None, FALSE, FALSE, TRUE), Kind("HIGH", FALSE, FALSE, FALSE),
              Kind("MEDIUM", FALSE, FALSE, FALSE), Kind(None, TRUE, TRUE, FALSE)}
ThreeNumbers == 1..3
TwoPorts == {"ssh", "odd"}
UsualPort == {"ssh"}
Tool(name) == [pid |-> 0, command |-> name, fields |-> [image |-> name, parent |-> None]]
Child(number) == [pid |-> number, command |-> "curl", fields |-> [image |-> "curl", parent |-> "nginx"]]
TwoEvents == {Tool("curl"), Child(1)}
Test(field, mods, wants) == [field |-> field, mods |-> mods, wants |-> wants]
Rule(id, level, selections, condition) == [id |-> id, level |-> level, selections |-> selections, condition |-> condition]
Tools == {{Test("image", {"endswith"}, {"curl", "wget"})}}
Servers == {{Test("parent", {"contains", "all"}, {"nginx"})}}
DownloadRule == Rule("download", "high", [tool |-> Tools], [kind |-> "empty"])
WebshellRule == Rule("webshell", "critical", [tool |-> Tools, server |-> Servers], [kind |-> "them", need |-> "all"])
NoServerRule == Rule("plain", "low", [tool |-> Tools, server |-> Servers],
                     [kind |-> "expr", expr |-> {{<<"tool", TRUE>>, <<"server", FALSE>>}}])
MildDownload == [DownloadRule EXCEPT !.level = "low"]
SixDocs == {DownloadRule, MildDownload, WebshellRule, NoServerRule, [title |-> "no detection"], broken}
TwoBundled == <<WebshellRule, DownloadRule>>
Equal == {<<x, x>> : x \in {"curl", "wget", "nginx"}}
SameForAll == [m \in {"contains", "startswith", "endswith", "re", "equals"} |-> Equal]
ThreeViewers == {t1, t2, u1}
LivesAsked == {0, 1}
AllTurns == [t \in Range(Turns) |-> 1]
FloorOfOne == [t \in Range(Turns) |-> IF t = "quiet" THEN 0 ELSE 1]

identityRest == <<users, sessions, trail, tokens, wires, thread, outside, asked>>
throttleRest == <<door, fails, lockedUntil, legacy, guesses, forgotten, logins>>
syslogRest == <<loops, link, slots, buf, inbox, ends, kept, heard, logEvents, originCount,
               hostCount, logStats, mapped, alertsOut, received>>
lookupsRest == <<asker, cache, served, calls, repStats, rows, watched, writers,
                crossed, asks>>
tailsRest == <<reader, logFile, inode, written, place, saved, backfilled,
              firstPass, taken, live, late, blind, torn, passedBy, dropped, slips,
              pastLines, failures, bruteAt, bruteAlerts, crashes>>
sigmaRest == <<ruleFiles, rules, reload, feeds, sigmaSeen, matched, swallowed,
              sigmaReports, unreported, fed, edits>>
featuresRest == <<buffer, uncommitted, features, lastFlush, recorded,
                 flushFaults, discarded, purged>>
sweepRest == <<items, sweep, history, destroyed, made, sweeps>>
countsRest == <<computed, readSince, inflight, landed, viewer, aggAsks, aggFaults>>
retrainRest == <<idleRows, liveRows, filesRest, usedRest, cuts>>
vars == <<part, now, identityRest, throttleRest, syslogRest, lookupsRest,
          tailsRest, vulnRest, fuzzRest, patchRest, edrRest, netRest,
          yaraRest, sigmaRest, featuresRest, sweepRest, countsRest,
          retrainRest>>

\* What is not under check starts one way and stays.
Init ==
    /\ part \in Parts
    /\ IdentityInit
    /\ ThrottleInit
    /\ SyslogInit
    /\ LookupInit
    /\ TailInit
    /\ VulnInit
    /\ FuzzInit
    /\ PatchInit
    /\ EdrInit
    /\ NetInit
    /\ YaraInit
    /\ SigmaInit
    /\ FeatureInit
    /\ SweepInit
    /\ AggInit
    /\ RetrainInit
    /\ part # "identity" => trail = <<>>
    /\ part # "tails" => reader = "access" /\ logFile = None
    /\ part # "patch" => patchSetup = [apply |-> FALSE, ansible |-> FALSE, demo |-> FALSE]
    /\ part # "net" => listening = {}

Next ==
    \/ part = "identity" /\ IdentityNext /\ UNCHANGED <<part, throttleRest,
                                                     syslogRest, lookupsRest,
                                                     tailsRest, vulnRest,
                                                     fuzzRest, patchRest,
                                                     edrRest, netRest,
                                                     yaraRest, sigmaRest,
                                                     featuresRest, sweepRest,
                                                     countsRest, retrainRest>>
    \/ part = "throttle" /\ ThrottleNext /\ UNCHANGED <<part, identityRest,
                                                     syslogRest, lookupsRest,
                                                     tailsRest, vulnRest,
                                                     fuzzRest, patchRest,
                                                     edrRest, netRest,
                                                     yaraRest, sigmaRest,
                                                     featuresRest, sweepRest,
                                                     countsRest, retrainRest>>
    \/ part = "syslog" /\ SyslogNext /\ UNCHANGED <<part, identityRest,
                                                 throttleRest, lookupsRest,
                                                 tailsRest, vulnRest,
                                                 fuzzRest, patchRest, edrRest,
                                                 netRest, yaraRest, sigmaRest,
                                                 featuresRest, sweepRest,
                                                 countsRest, retrainRest>>
    \/ part = "lookups" /\ LookupNext /\ UNCHANGED <<part, identityRest,
                                                  throttleRest, syslogRest,
                                                  tailsRest, vulnRest,
                                                  fuzzRest, patchRest,
                                                  edrRest, netRest, yaraRest,
                                                  sigmaRest, featuresRest,
                                                  sweepRest, countsRest,
                                                  retrainRest>>
    \/ part = "tails" /\ TailNext /\ UNCHANGED <<part, identityRest,
                                              throttleRest, syslogRest,
                                              lookupsRest, vulnRest, fuzzRest,
                                              patchRest, edrRest, netRest,
                                              yaraRest, sigmaRest,
                                              featuresRest, sweepRest,
                                              countsRest, retrainRest>>
    \/ part = "vuln" /\ VulnNext /\ UNCHANGED <<part, identityRest, throttleRest,
                                             syslogRest, lookupsRest,
                                             tailsRest, fuzzRest, patchRest,
                                             edrRest, netRest, yaraRest,
                                             sigmaRest, featuresRest,
                                             sweepRest, countsRest,
                                             retrainRest>>
    \/ part = "fuzz" /\ FuzzNext /\ UNCHANGED <<part, identityRest, throttleRest,
                                             syslogRest, lookupsRest,
                                             tailsRest, vulnRest, patchRest,
                                             edrRest, netRest, yaraRest,
                                             sigmaRest, featuresRest,
                                             sweepRest, countsRest,
                                             retrainRest>>
    \/ part = "patch" /\ PatchNext /\ UNCHANGED <<part, identityRest,
                                               throttleRest, syslogRest,
                                               lookupsRest, tailsRest,
                                               vulnRest, fuzzRest, edrRest,
                                               netRest, yaraRest, sigmaRest,
                                               featuresRest, sweepRest,
                                               countsRest, retrainRest>>
    \/ part = "edr" /\ EdrNext /\ UNCHANGED <<part, identityRest, throttleRest,
                                           syslogRest, lookupsRest, tailsRest,
                                           vulnRest, fuzzRest, patchRest,
                                           netRest, yaraRest, sigmaRest,
                                           featuresRest, sweepRest,
                                           countsRest, retrainRest>>
    \/ part = "net" /\ NetNext /\ UNCHANGED <<part, identityRest, throttleRest,
                                           syslogRest, lookupsRest, tailsRest,
                                           vulnRest, fuzzRest, patchRest,
                                           edrRest, yaraRest, sigmaRest,
                                           featuresRest, sweepRest,
                                           countsRest, retrainRest>>
    \/ part = "yara" /\ YaraNext /\ UNCHANGED <<part, identityRest, throttleRest,
                                             syslogRest, lookupsRest,
                                             tailsRest, vulnRest, fuzzRest,
                                             patchRest, edrRest, netRest,
                                             sigmaRest, featuresRest,
                                             sweepRest, countsRest,
                                             retrainRest>>
    \/ part = "sigma" /\ SigmaNext /\ UNCHANGED <<part, identityRest,
                                               throttleRest, syslogRest,
                                               lookupsRest, tailsRest,
                                               vulnRest, fuzzRest, patchRest,
                                               edrRest, netRest, yaraRest,
                                               featuresRest, sweepRest,
                                               countsRest, retrainRest>>
    \/ part = "features" /\ FeatureNext /\ UNCHANGED <<part, identityRest,
                                                    throttleRest, syslogRest,
                                                    lookupsRest, tailsRest,
                                                    vulnRest, fuzzRest,
                                                    patchRest, edrRest,
                                                    netRest, yaraRest,
                                                    sigmaRest, sweepRest,
                                                    countsRest, retrainRest>>
    \/ part = "sweep" /\ SweepNext /\ UNCHANGED <<part, identityRest,
                                               throttleRest, syslogRest,
                                               lookupsRest, tailsRest,
                                               vulnRest, fuzzRest, patchRest,
                                               edrRest, netRest, yaraRest,
                                               sigmaRest, featuresRest,
                                               countsRest, retrainRest>>
    \/ part = "counts" /\ AggNext /\ UNCHANGED <<part, identityRest,
                                              throttleRest, syslogRest,
                                              lookupsRest, tailsRest,
                                              vulnRest, fuzzRest, patchRest,
                                              edrRest, netRest, yaraRest,
                                              sigmaRest, featuresRest,
                                              sweepRest, retrainRest>>
    \/ part = "retrain" /\ RetrainNext /\ UNCHANGED <<part, identityRest,
                                                   throttleRest, syslogRest,
                                                   lookupsRest, tailsRest,
                                                   vulnRest, fuzzRest,
                                                   patchRest, edrRest,
                                                   netRest, yaraRest,
                                                   sigmaRest, featuresRest,
                                                   sweepRest, countsRest>>

Spec == Init /\ [][Next]_vars
=============================================================================

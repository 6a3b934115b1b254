# Verification of AI-SOC-DashBoard in TLA+

AI-SOC-DashBoard is a security operations console: detectors raise alerts,
alerts are de-duplicated, stored, correlated and triaged, and a SOAR engine
blocks addresses, by itself or after an analyst's approval.  It is one Python
process (Flask-SocketIO in threading mode) with several SQLite files; request
threads, a worker, timers and retention run beside each other under one
`threading.Lock` per component.  This directory models the parts of it that
decide and remember: who is blocked, who approved it, which alert and which
case is on record.

## 1. Inventory

| Component | State | Operations | What is hard | What makes it correct |
|---|---|---|---|---|
| **Block executor** `soar.py` (`_block_ip`, `manual_unblock`, `_expire_blocks`, `_save_blocklist`, `_load_blocklist`), `scripts/soc-ufw` | `blocked_ips`, `data/blocklist.txt`, the firewall's rules | block, unblock, expire, save, load | the membership test, the firewall command and the record are three pieces with no lock over all of them; commands fail or time out; the file is rewritten in place; a crash falls anywhere | a record that claims a rule has one; file = list; an overdue block leaves |
| **Approval gate** `soar.py` (`_queue_block_approval`, `review_approval`, `_claim_pending_approval`, `_expire_approvals`, `manual_block_request`), `soar_execution_store.py` | `executions` (a deque of 100), `soar_executions.db`, `_execution_id` | request, approve, reject, cancel, expire, recover, purge | expiry and several reviewers race; the deque forgets what the store keeps; answers are derived from a shared counter; a save that fails after the deque was changed; restarts | the outcome on record is true; the deque is never behind the store; a guarded address stays open; overdue requests are decided |
| **SOAR triage and playbooks** `soar.py`, `playbooks.py` | `_queue` (500), `_triaged_alerts`, `_ai_calls`, `_siem_probe_counter`, executions and their steps | hand over, enrich, contain, triage, gate, block, record, retry | one worker that any exception may end; requests between its steps; a model that does not answer | a decision on record is true, no execution runs with nobody at it, the queue drains |
| **Block decision gates** `block_decision.py` | log of decisions | evaluate, record, replay | gates judged at one time, recorded at another | replay of the log gives the recorded decision |
| **Alert store** `alert_store.py` | `alerts` (live), `alerts_archive` (second database), id counter, union view | draw an id, save, verdict, two kinds of move, purges, recovery, search | a move is two commits; readers take no lock; failing deletion, crash, re-run | nothing is lost; the verdict is the last one; no id twice; a reader misses nothing |
| **Aggregate cache** `alert_store.py` | `_agg_cache`, `_agg_inflight` | ask, join, compute, land, wake | single flight, the computing thread failing, followers that wait, rows read before the stamp | no answer older than asked for |
| **Threat detector, de-duplication** `threat_detector.py`, `alert_dedup.py` | deque of alerts, fingerprint table, storms, packet windows | report, judge, count, append, save, note the id, acknowledge, prune | a lock per structure and none over all; a window that every recurrence extends; ids that restart | every event is stored, counted into its like or suppressed on record |
| **SIEM correlation** `siem_correlation.py` | windows per IP and type, cool-downs | feed, evaluate, fire | evaluation and cool-down are two lock holds with two clocks | a hit is known when feed returns |
| **Incident manager** `incidents.py` | `incidents`, `_dirty`, timer, `incidents.db` | promote, merge, attach a block, update, auto-resolve, purge, load, import | debounced save, failing transaction, crash, one-time import | marks tell the truth; what an analyst recorded survives |
| **Retention** `retention.py`, the route in `api/detection_routes.py` | history of runs | preview, confirm, sweep turn by turn | the loop and an administrator sweep at once, analysts work and files are written in between, a turn fails | what is destroyed was due |
| **Identity and sessions** `identity.py`, `authorization.py`, `api/identity_routes.py`, `app.py`, `scripts/manage_users.py` | users, session versions, audit trail, registered sockets | log in, authorise, write, revoke, connect, emit, sweep | authorised and written at two times; revocation racing a connection; a second process | nobody acts without standing; a revoked session has no socket |
| **Login throttle** `auth.py` | failures and locks per address, sessions in memory | log in | lock tested before a slow check, failure counted after it | guesses are bounded |
| **AI analyst** `ai_analyst.py` | task queue, streak, breaker | call, fail, recover, stand in | late answers of several threads | a dead service is left alone |
| **Notifier** `notifier.py` | cool-downs, history | notify, reserve, send | clock read before the lock, push after it | pushes keep their distance |
| **Syslog receiver** `syslog_receiver.py` | slots, text buffers, deque of events, counters | accept, receive, split, record, escalate | lines and characters cut anywhere, exceptions and threads that do not start | the lines recorded are the lines received, no other slot is lost |
| **Look-ups and watchlist** `ip_reputation.py`, `virustotal.py`, `watchlist.py` | caches, rows | look up, add, remove, match | filled by calls and rows read outside the lock | an answer is the service's, and fresh |
| **Log readers** `access_log_parser.py`, `authlog_parser.py`, `snort_monitor.py`, `suricata_monitor.py`, `zeek_monitor.py`, `sysmon_parser.py` | offset, inode, saved state | poll, open, read, save, restart | half-written lines, rotation, exceptions behind a moved offset, failing saves, crash between pass and save | no line missed, the past not acted on |
| **Engines** `vuln_scanner.py`, `web_fuzzer.py`, `patch_manager.py` | busy flags, results, jobs | start, run, stop, check, execute | flags in front of threads that may fail or never start; dry run against real run | what they show is what they did |
| **Host sensors** `edr.py`, `net_monitor.py`, `yara_scanner.py`, `sigma_engine.py`, `purple_team.py` | sets of what was seen | collect, judge, report, reload | marked as seen before it is dealt with | what is passed over was handled |
| **ML analyst** `ml_feature_store.py`, `ml_analyst.py`, `scripts/retrain_ml.py` | row buffer, table, three model files, the model in use | record, flush, purge, retrain, load | an open transaction after a failed flush; three trainers and no lock over them; a start in a thread of its own; readers without the lock | no row twice; the model in use is one model |

Intelligence feeds, geography, reports, metrics, exports, the console, most HTTP
handlers and the front end are I/O or presentation over these.  The alert flows
detector -> de-duplication -> alert store -> SOAR queue and SIEM; SOAR promotes
true positives to incidents, asks for or carries out blocks and attaches them to
incidents; retention calls into every store; request threads call the same
methods as the worker.  `PROJECT.json` lists all components and, under
`hazards`, each place where this can go wrong.

## 2. What is modelled

### SoarBlocklist
`blocked`, `file` and `rules` are `blocked_ips`, `blocklist.txt` and the DROP
rules of the host.  A call is cut where the code takes or drops `self._lock` or
runs a command:

| Action | Code |
|---|---|
| `BlockIp` | `_block_ip` up to the end of the membership test |
| `Enforce` | the ufw / iptables command, outside the lock, with its three outcomes: done, refused, timed out with or without effect (`RunFirewall`) |
| `Record`, `WriteFile` | the second critical section; the save is two steps because the file is truncated first |
| `Finish` | the log line and the return |
| `ManualUnblock`, `ExpireBlocks`, `ReleaseRule` | the record leaves list and file under the lock, the rules follow outside of it, one address at a time |
| `Restart` | crash and `_load_blocklist`, line by line, which stops at the first line it cannot parse (`Loaded`) |

ufw ignores a rule that exists, iptables stacks it (`Inserted`, `Deleted`).
A reason is plain, or holds a `|` (its row ends the load), or a line break (its
row is cut: the address comes back without its end, and what follows the break
may be passed over, end the load or be a row of any address).  `behind` and
`misread` are history: the last save failed; a restart read such a file, or one
with a line break in it.

### SoarApproval and ApprovalLedger
`mem` is the deque, `db` the store, both keyed by execution id.  `pc`/`op` hold
each thread's place and locals between critical sections, so the duplicate
test, the opening and the publishing of a request, or the claim, the check and
the carrying out of a block, interleave with everything else.  `ExecutionStart`
evicts the oldest entry; `SetStatus` does nothing for an evicted one, as
`_set_execution_fields` does.  Where the code changes the entry and then saves
it, the save may fail (`StartFails`, `ClaimFails`, `SaveFails`): the exception
ends the call, or the sweep with all the requests it has not reached, and leaves
the deque ahead of the store (`Ahead`); `behind` holds the executions whose last
save did so.  `Restart` is `recover_interrupted` and the load
of the newest `Cap` rows.  The block itself is one step here (`CarryOutBlock`):
its inside is SoarBlocklist.  `claims` and `acted` are history.

`ApprovalLedger` is the promise: undecided → taken → carried out or declined →
closed.  It knows no thread, deque or database.  `KeepsLedger` maps `db` and
`acted` onto it.

### AlertArchive and AlertRecord
A detector's thread draws an id under `_id_lock` (`Draw`) and saves its row later
(`Save`) or not at all (`SaveFails`); `drawn` is what it holds in between.  `live`
and `arch` are the two tables, `mover` the move between its two commits
(it holds the lock, so writers wait and readers do not), `query` a reader's
statement over the union view, which opens its two read transactions at two
moments.  `Archive` computes its cutoff from the present time in both commits,
`Cutover` has a fixed one.  `Restart` is `_recover_interrupted_archive` and
`max_id`.  `AlertRecord` is the promise: a saved alert stays, with its last
verdict, until it is older than the retention.

### IncidentStore
`incidents`, `dirty`, `metaDirty`, `timer` and `nextId` are the fields of
`IncidentManager`; `db` and `dbNext` its tables, `legacy` the file
`incidents.json`.  Every method holds the lock throughout, so each is one step.
`SaveNow` is `_save_sqlite_inner`, `ScheduleSave` the debounced path, `Flush`
the timer's thread; `Purge` has its own transaction, whose failure leaves the
rows of what is gone from memory.  `LoadRows` and `ImportLegacy` are the two
branches of `_load_sqlite`.  `rev` stands for everything that accumulates in an
incident; `noted` and `purged` are history.

### AlertPipeline
One `call` per reporting thread walks through `_add_alert_inner`: `Report` (the
alert with its id; the clock is read), `Suppress` or `Judge` (the critical
section of `evaluate`) or, when `evaluate` raises, `Unjudged`; then for a
duplicate `Record`, `CountInMemory`, `CountInStore`, and for a new one
`AppendAlert`, `Save`, `NoteAlertId`.  `state` and `recent` are the fingerprint
table, `memory` the deque, `store` and `events` the two tables.  `Acknowledge`
and `ChangeRules` are requests, `PipelineRestart` keeps the tables and takes the
next id from them.

### SiemCorrelation
`Feed` reads the clock, `Evaluate` is the critical section of `feed` with its
rules (`IpHits`, `SpreadHits`), `BeginFire` and `Fire` are `_fire` with a clock
read of its own before the lock.  What fires goes to `reported`.

### PacketWindows
`OutsidePacket` and `InternalPacket` are `analyze_packet` under `_win_lock`,
`Prune` is `_prune_windows` with its three horizons.  The lists are sets whose
entries carry the number of their packet.  The window in which bytes are added
up may be longer than their pruning horizon, as a setting can make it.
`history` keeps what pruning may not take.

### BlockGates and SoarTriage
BlockGates is `block_decision.py` as functions: `EvaluateGates`, `DecisionOf`,
`Replay`, `TopBlockers`.  SoarTriage is the worker: `queue` is `_queue`, `work`
the item at hand with its place, `runs` the executions with their steps.

| Action | Code |
|---|---|
| `Hand`, `TakeAlert`, `TakeProbe`, `TakeMatch` | the three entries of the queue and `_worker_loop`'s dispatch |
| `Enrich`, `LookupAnswer`, `Exfil`, `Contain` | the playbooks that need no verdict |
| `AskVerdict`, `AiAnswer`, `Apply` | PB-AI-TRIAGE: rate limit, rule, model or stand-in, what is done with the verdict |
| `Gates`, `Block`, `LogBlock`, `Record` | PB-AUTO-BLOCK, the block, its log line, the decision's record |
| `TogglePlaybook`, `Unblock`, `Retry`, `RetryAnswer` | requests between these |
| `TriageRestart` | the process ends; queue, sets and counters are gone, executions interrupted |

An exception in an item ends the item (`CutShort`), as `_worker_loop` catches it.

### AiBreaker, PushNotices
`Begin`, `CallSucceeds`, `CallFails` are a call and its outcome; several threads
are between the two.  `Opened` is `_record_failure`'s test.  `Notify`,
`Reserve`, `Send` are `notify` up to its lock, under it, and after it.

### IdentityDirectory, LoginThrottle
`Authorise` is what a route checks, `Write` the transaction that compares the
actor again and writes change and audit row together; `Login`, `Issue`, `Adopt`
are the login route; `Connect` registers a socket and then looks at the session
(`Dial`); a change ends in `Sweep`, one socket at a time (`DropOne`).  `Operator`
is `manage_users.py`, another process on the same file.  LoginThrottle is the
front of it: `Knock` tests the lock, `LetIn` and `TurnAway` follow the slow
check, `OpenSession` and `EndSession` are the table of sessions where there is
no directory.  `_fails` is a function from addresses to the set of their failures,
each with its number; `since` keeps an address's place in the dict.

### SyslogReceiver, Lookups
A piece of text is the set of the keyword rules it holds, or the lead or the
trail of a character of several bytes; a chunk is a sequence of pieces and
newlines. Each chunk is decoded by itself (`Read`): the two halves of a
character that stand in different chunks become marks.  `Datagram` and `Accept`
are the two listeners; `Serve`, `Chunk`, `TakeLine` and `Hangup` the thread of a
connection: a `recv`, one turn of the inner loop per line, and the end.  An
exception out of the handler ends the connection, or the UDP loop, and a thread
that does not start loses its slot (`Accept`).  `inbox`, `kept` and `heard` are
histories: what a connection sent, the lines recorded of it with the place each
ends at, and all events.  Lookups holds both reputation services (`AskFor`,
`AnswerArrives`) and the watchlist (`AddIoc`, `RemoveIoc`, `ReadRows`,
`ReplaceCache`, `MatchAlert`).

### LogTails
Lines are numbered as they are written, and a file holds the lines behind the
number its rotation began with, two halves each: offsets count halves, so that a
reader can meet a line that is being written.  `place` is the reader's offset
and inode, `saved` what is on disk of it.  A behaviour has one of six readers,
by offset (access, ssh), by inode (Snort, Suricata, Zeek) or by record number
(Sysmon), and a writer that rotates.  `SaveState`, which may fail, and
`AccessRestart` are the saved offsets of the access log.  An exception out of a
line takes the rest of its chunk with it (`LostLines`).  Suricata's and Zeek's
readers put a line without its end back, and may go back too far (`SeekBack`);
Sysmon's reads a stretch of the log from its end backwards (`SysmonReads`); a
file that is gone is closed (`Lose`).

### ScanJobs, HostSensors, SigmaRules
Three engines and four sensors, each with a specification of its own, gathered
by kind: the engines put a flag or a job list before threads (a scan raises its
flag, then selects its hosts and starts its thread, and may break off between:
`StartScan`, `SelectHosts`, `BreakStart`; `RaiseFuzz`, `StartFuzz`); a patch's
mode is check, apply or another word; the sensors keep a set of what need not be
looked at again; `EngineSpec` and `SensorSpec` put them side by side.  The hosts
of a scan are a set of places in the inventory. SigmaRules has the matching of a
rule as operators (`MatchField`, `MatchSelection`, `EvalCondition`), the reload,
and what becomes of a match.

### FeatureStore, ModelRetrain
Rows from the buffer to the table, with the transaction a failed flush leaves
open (`uncommitted`); a row of the table carries its key, which SQLite takes
from the largest there is; `discarded` and `purged` keep what was lost and why.
ModelRetrain has three trainers that write three files one after the other and
install what they trained; the thread of the start, which loads the files one by
one (`LoadFile`, `PutLoaded`) or takes the synthetic profile (`TakeProfile`)
while requests train; and analyses, which read scaler and forest without the
lock (`BeginAnalysis`, `ReadModel`, `CountAnalysis`).

### RetentionSweep, AggregateCache
`BeginSweep` is the route's or the loop's start with preview and confirmation,
`MoveAlerts`, `ResolveQuiet`, `PurgeStore`, `ListFiles`, `RemoveFile` the turns
in the order of `Turns`, `StoreFails` and `ListingFails` their failures.  A file
may be written again at any time (`WriteFile`), also between the listing and
`RemoveFile`, which goes by its name.  AggregateCache is `aggregate` thread by
thread: `AskCounts`, `Board` (lead, and begin to read, or join), `Compute`
(stamp and cache what was read since), `Land`, `Wake`.

`SocClock` holds the clock and `None`, which the modules above share.

### Composed modules
**MCDetection**, **MCResponse** and **MCServices** extend several modules each.
Their parts share no state but the clock, so a behaviour picks one part at the
start and the graph is the union of the parts' graphs, not the product.  Where
components do meet, the meeting is inside a module: de-duplication, memory and
store in AlertPipeline; queue, verdict, gates and block in SoarTriage; directory
and sockets in IdentityDirectory; reputation and drill in HostSensors.

Each module carries a few operators marked as faulty variants: plausible bugs
that the properties must and do detect.

## 3. The runs

| Run | Question | Bounds |
|---|---|---|
| `soarblocklist_core` | does a record that claims a rule have one, is the file the list, do overdue blocks leave? | one address, worker + one request thread, simulate and iptables, reasons with and without `\|` and line breaks, one failing command or write, one crash, clock to 2, three rules: enough for a block to cross an unblock, an expiry, a failed save or a crash at each point |
| `soarblocklist_overlap` (violation) | the same under ufw | two threads, no failures |
| `soarapproval_core` | does the gate implement the ledger, tell the truth, protect guarded addresses, agree with its store? | worker and a request thread, both asking; two executions in a deque of one, so that eviction happens; two failing saves; one restart; an unblock, retention |
| `soarapproval_settle` | is every overdue request decided? | one asking thread, a deque nothing falls out of, no failing save (findings), clock to 2 |
| `alertarchive_cutover` | is nothing lost, and is the last verdict kept? | three alerts of two detector threads, one failure or crash, purges |
| `alertarchive_readers` | does a query miss nothing, are ids fresh? | one reader, two detector threads that draw ids and save, both moves, two failures or crashes |
| `alertarchive_boundary` (violation) | is nothing lost when the cutoff moves between the commits? | retention's move, no failures |
| `incidentstore_core` | do the marks tell the truth, is nothing unsaved forgotten, do an analyst's updates survive? | two incidents, three changes each, debounced and immediate saves, one failing transaction, one crash, with and without a legacy file |
| `detection_core` | does no event vanish, does a merged one point to its like, is a storm announced, a hit known, a slow scan or leak counted? | pipeline: two reporters, two fingerprints of which one can be silenced, three events, one failing write or restart, a deque of two (so that memory forgets a parent), a window longer than a storm; siem: two feeders, two addresses, three types, two feeds, thresholds of two; windows: one source outside and one inside, two ports, two sizes, four packets, counting windows as long as their horizons and one for bytes that is twice its own |
| `response_core` | are decisions true, has every running execution an owner, does the queue drain; is a dead service left alone; are pushes spaced? | triage: four alerts (one of demo origin, one from inside, one with a file hash), two of them handed over, a queue of one (so that it drops), four settings, one request in between, a confidence that is no number, one model call per window; breaker: two threads, four calls, threshold of two; pushes: two senders, two keys, three pushes |
| `response_degraded` (violation) | is an alert closed on a judgement only? | the same triage, with a stand-in among the answers |
| `services_core` | the properties of sixteen parts, table below | below |

Parts of `services_core`:

| Part | Property | Bounds |
|---|---|---|
| identity | `TrailHasAuthority`, `RevokedIsUnplugged` | two accounts, two request threads, one socket, two sessions an account, four requests |
| throttle | `GuessesAreBounded` | two threads, two addresses, two attempts, a table of two, four logins |
| syslog | `LinesSurviveChunks` | two connections for one slot, text cut in four ways (one through a character), exceptions, threads that do not start, two receptions |
| lookups | `CachesAreTrue` | two threads, an own and a foreign address, both services, one watched value, three calls |
| tails | `ReadersAreExact` | six readers, three lines of different kinds, two rotations, one crash, one slip back, exceptions and failing saves |
| vuln, fuzz, patch | `EnginesTellTruth` | two hosts and scans, broken starts; two threads, three targets and three runs, threads that do not start; four commands, three modes and two jobs, every set-up |
| edr, net, yara | `PassedOverWasHandled` | three processes of four kinds over three pids; two ports, two peers, four passes and a drill; one file written twice, two scanning threads |
| sigma | `SwallowedWasTold` | two rule files of six contents (one rule at two levels among them), two feeds, one edit, toggle or restart, a set of one (so that it is emptied) |
| features | `RowsAreOnce` | four rows, two failing flushes, purge, crash |
| sweep | `DestroyedWasDue` | two sweeps that cross, an item, which as a file may be written again, four units of time, failing turns |
| counts | `AnswersAreCurrent` | three threads (one leads, two follow), lives of 0 (`max_age=0`) and 1, one failure |
| retrain | `ModelIsOne` | three trainers, two trainings, two cuts (failing writes or restarts), one analysing thread, forced and unforced |

The bounds on ids, rules, requests and events stop new calls and never one under
way, except that an incident at `MaxRev` takes no further change.  Each bound is
large enough that two calls cross and that a table, a deque or a set with a
limit reaches it.  Deadlock is not checked: with its bounds used up, or with
nothing to do, the system rests.  `response_core` runs with the language model
configured (`Available`); without a key every call takes the stand-in's branch,
which a breaker that is open takes as well.

**Findings.** Three runs end in a counterexample against what the repository
says of itself:

* *overlap*: an unblock's delete command may run after the next block's insert:
  the list says `ufw`, the firewall has no rule.
* *boundary*: `archive_older_than` asks for the time twice; an alert that becomes
  old enough in between is deleted without having been copied.
* *degraded*: without a key, after a failure or with the breaker open,
  `_mock_analysis` answers with a random verdict, and triage, which never looks
  at `degraded`, closes the alert on it.

Twenty-two more have no run of their own: the property they touch says what is
true all the same and names the exception, or the bounds keep them out, as said
where it is defined (`PROJECT.json` quotes the lines).

* Blocks: a `|` in a reason ends the load of the list at the next start, a line
  break splits the row and what follows is read as another; a request pushed out
  of the deque of 100 never expires; the deque's entry is changed before it is
  saved, so that a failing save leaves a request nobody can claim; the answer of
  `manual_block_request` may be `executed` for a request that waits.
* Records: `incidents.json` is imported again once retention has emptied the
  table; a follower of `aggregate` takes the cache at any age after its leader
  failed, and with `max_age=0` joins a computation that began before it asked;
  retention destroys a file that was written after the listing.
* Detection: a window of bytes longer than 360 seconds is pruned before its time;
  Sigma marks rule and process without the level, so that a mild match silences
  a severe one.
* Model: a manual retraining does not take `_retrain_lock`; what a start loads or
  fits in its thread replaces what a request installed meanwhile; an analysis
  under way judges with two models.
* Syslog: a character cut by a `recv` turns into marks, and an exception ends the
  connection or the loop; a connection's thread that does not start loses a slot
  and ends the accepting loop.
* Log readers: a source whose first pass could not read counts as backfilled; the
  offset is moved before the lines are processed; a line without its end is put
  back by the length of another text; Sysmon's newest records hide the older ones.
* Engines: a scan's flag stays up when its start breaks off; a patch's mode that is
  neither `check` nor `apply` passes the gate and runs for real; two fuzzing runs
  can start side by side.

**Seen and not run.** While modelling, these were met as well.  They contradict
no text of the repository, and the properties are stated so as not to hide them:

* Blocks: two iptables rules for one record when two calls block one address at
  once; a rule without a record after a crash between save and removal; a
  `KeyError` in `_block_ip`'s log line when an unblock was faster, which leaves
  a block without a decision on record and an approved request
  `processing_approval`; two requests for one address with two requesting
  threads, or with one when the first has been pushed out of the full deque, a
  second is opened, retention makes room and a restart loads both.
* Triage: a confidence that is not a number ends the item after the alert was
  acknowledged; the verdict overwrites a status an analyst set meanwhile; a full
  queue drops silently; two retries of one execution are not prevented.
* Alerts: ids of alerts whose save failed are used again after a restart; a
  duplicate counted before its parent has an id is recorded with none; counts
  and times in the fingerprint table may go backwards; severity and confidence
  are not part of a fingerprint, so a critical alert merges into a mild one and
  SOAR never sees it; the table is never pruned.
* Archive: recovery keeps the archived copy although the live row got a newer
  verdict after a failed deletion (hence the antecedent of `VerdictKept`); with
  both kinds of move a verdict can go back as well: a cutover copies and fails to
  delete, the alert is judged, and a retention move whose clock passes the
  alert's age between its two statements copies nothing and deletes the judged
  row, so that the older copy stays; a reader may see an alert twice during a
  move.
* Look-ups: failures are cached for the full life, so SOAR's retry gets the
  cached error; crossing writers leave the watchlist's cache behind until the
  next write (`CachesAreTrue` excepts it).
* Log readers: the access, ssh and Snort readers take a half-written line for a
  whole one; a new file that has outgrown the old offset is taken for the old
  one; a rotated file is opened at its end; a crash between pass and save takes
  lines again.  Syslog: a last line without its end is dropped at the close.
* Logins: up to one more guess per thread passes the lock; a right password in
  flight clears it.
* Engines: `run_command` runs for real in demo mode; a failed `apt` fills the
  inventory with samples; unknown host ids fall back to the local host or to all;
  a failed query lists no update, so that local CVEs count as patched.
* Sensors: a file that could not be scanned is not tried again until it changes;
  `(pid, rule)` is never pruned, so a recycled pid is passed over; the process is
  named before and killed after; a reload of Sigma rules turns disabled ones on
  again, and two crossing reloads may install the older reading.
* Retention: a failing alert store ends the sweep; the preview leaves three
  stores out; ML: a failed flush drops the buffer, and rows already inserted ride
  on the next commit; a file torn by a crash sends the next start back to the
  synthetic profile or mixes two trainings; a profile that cannot be saved ends
  the start before its loops.

**Fairness.** `WF(Tick)`: time passes.  `WF` on the pieces of a call under way:
a running thread goes on; a firewall command ends within its five-second
timeout.  `SF` on the worker's expiry, its sweep and `Record`, which take a lock
others also take: `threading.Lock` is not fair, but a thread that keeps asking
for a lock that is free again and again gets it.  `_worker_loop` looks for
expired blocks and requests every 30 seconds before it takes the next alert, so
a busy queue does not starve them.  For `QueueDrains`: `WF` on the worker's next
step and on the answer a retry waits for; both calls to services have timeouts.
No fairness is assumed of request threads starting calls, of failures or of
restarts.

## 4. What is proved

TLAPS checks every theorem for all values of the constants: any number of
threads, addresses, accounts, alerts, files, calls, failures and restarts, any
capacity and any timeout, under the assumptions the modules name.  Most of these
type the constants or keep `None` apart from what it is not (`NoneIsNo...`).
The others: a deque has room for one entry, pauses and thresholds are positive
where the code's defaults are, there are finitely many account names
(`NamesAreFew`), an address is no port (`PeersAreNoPorts`), a login lock lasts
at least as long as failures count (`ThrottleNumbers`; both are 300 seconds and
nothing sets them), and the flood and scan rules count over no longer a span than
pruning leaves (`SpansBelowHorizons`; numbers written in the code).  The window of
bytes, which a setting gives, need only be positive (`ExfilSpanIsSet`).

Each theorem rests on an inductive invariant, checked by TLC before it was
proved; what the properties lack to be inductive is its content.

| Module | Theorems | Inductive invariant beyond types and the property |
|---|---|---|
| SoarBlocklist_proofs | `FileIsList` | none: whoever changes the list holds the lock until the file is written or the write has failed |
| | `RuleIsThere` | a count: an address on record as enforced has as many rules as the deletions still to come, and one |
| | `RuleIsThereApart`, `OneCallerRuleIsThere` | `ApartIInv`: `TakenOffIsGone` (who is about to remove a rule has taken the record off the list and out of the file), `ClaimsHaveRules` (what list, file or a thread behind its insert claims has a rule) |
| SoarApproval_proofs | `DequeAgrees`, `OneDecision`, `StatusIsTruth`, `GuardHolds`, `GateKeepsLedger` | `IInv`: `Tables` (where a save failed the deque is ahead of the store, else they agree; what only the deque holds is closed), `Untouched` (what runs or waits was neither claimed nor carried out), `Owned` (who is past an opening or a claim owns the execution alone, with the status its place calls for), `Addressed` |
| IncidentStore_proofs | `MarksAreTrue`, `ChangeIsOnItsWay`, `UpdateSurvives`, `IdIsFree` | `IInv`: `IdsBelowNext` (also the ids of rows a failed purge left), `NotedIsStored`; `Marked` is the state between a handler's change and its save |
| AlertArchive_proofs | `IdIsFresh`, `ReadersMissNothing`, `VerdictSurvivesCrashes`, `VerdictSurvivesMoves` | `IInv`: `FreshIds` (an id that was drawn is in no table, in one hand, and below the counter), `QueryIsSound` (what a reader opened first it still covers, and nobody holds an id it looked for), `RowsAreTrue`, `CopiesAreTrue`, `CutoverHasCopied`, `LeftCopiesAreReplaced` (the copy a failed deletion left is old enough for the next move to replace) |
| | `StoreKeepsRecord`, `CutoversKeepRecord`, `VerdictSurvivesSteadyMoves` | `MoveHasCopied`: what a move is about to delete stands in the archive with the verdict it has now |
| Detection_proofs | `EventsAreKept`, `MergesAreSound`, `StormsAreHeard` | `PipelineIInv`: `CallsKeep` (from the verdict on, a call holds what its last write needs), `ParentsAreSound`, `StormsAreTold` (the thread that saw the storm begin is on its way to announce it) |
| | `HitsAreKnown` | `SiemIInv`: `FoundIsFired`, what was found is with its thread or raised less than a cool-down before |
| | `YoungIsKept` | `WinIInv`: `WindowsAre`, what is kept is part of what was seen, in its order; `EndsAreKept`, as long as anything of a source is kept its last bytes are |
| | `LinesAlwaysSurvive` | `SyslogIInv`: `StreamsAre`, what is left in a buffer is the end of the stream as it was decoded, behind a newline, the recorded lines are those up to there (`Upto`), and no newline waits while the thread is in `recv` |
| | `ReadersAreAlwaysExact` | `TailIInv`: `BehindIsMet` (what is behind the place, and behind the saved one, was taken or is one of the exceptions), `AheadIsNew` (what may still be taken was taken by runs that crashed, or before the reader went back, at most), `PlacesAreWithin`, `CutsArePassed` (a reader stands in the middle of a line only where it opened the file), `PastIsKnown` (what a first pass found stays behind a place that counts as backfilled) |
| SoarTriage_proofs | `ExecutionsAreOwned`, `DecisionsAreTrue` | `TrIInv`: `WorkIs`, `RunsAre` (each execution is in one hand), `HandedOnce` (an alert is in the queue, with the worker or behind it, once), `DecisionsAre` (the gates at hand are those of some setting of the playbook, and blocks and decisions tell of each other) |
| Guards_proofs | `DeadServiceRests` | `BreakerIInv`: `StreakCounts`, the counter is the length of the row of failures the answers end with, in whatever order the threads' answers came |
| | `PushesKeepDistance` | `PushIInv`: `TurnsAreRecorded`, `TurnsAreSpaced`, for the turns between `_reserve` and the socket |
| | `GuessesStayBounded` | `ThrottleIInv`: the entry of an address counts every wrong guess of the window that is open, or the address is locked for the rest of it and the window's guesses with the threads past the lock stay within the bound (`CalmOrLocked`) |
| | `EnginesAreTrue` | `EngineIInv`: `FlagsAreLowered` (a flag belongs to a start, a worker or a start that broke off), `JobsAreSound` (a job keeps what its gate saw) |
| Services_proofs | `NothingGoesEarly` | `SweepIInv`: `ItemsAreSound`, `SweepsAreProper` (a file that was listed is still due, or was written since) |
| | `CountsAreCurrent` | `AggIInv`: `EventsInOrder`, `Prompt` (some steps take no time; who computes reads after it asked), `Awaited` (who waits for a landed event finds counts that are young enough) |
| | `ModelInUseIsOne` | `RetrainIInv`: `WrittenSoFar` (an undisturbed writer is alone and what it wrote so far is its own), `FilesAreOne`, `LoadIsOne` (what the start has got and has still to get), `UsedIsOne`, `AnalysesAreOne` (who is not late has read the model in use only) |
| | `NothingIsPassedOver` | `NetIInv`, `YaraIInv`: `ScansAgree`, `SeenWasHandled` (a mark stands for a version that was read or is being read) |
| | `CachesTellTruth` | `LookupIInv`: `CacheIsBacked`, `AnswersAreBacked`, `ListIsCarried` (a writer alone carries the list as it is) |
| | `TrailTellsAll`, `RevokedLoseSockets` | `IdIInv`: `TokensInOrder` (later tokens expire no earlier), `DialsAreApart`, `Plugged` (a registered socket may stay, or some thread owes it a look) |
| | `SwallowedIsTold` | `SigmaIInv`: `SeenWasTold`, every key that is marked or was passed over has matched, and every severe match was told, refused or is with a feed |
| | `EveryRowIsOnce` | `FeatureIInv`: the numbers recorded are table, lost and purged up to a point and the buffer from there (`Filed`, `Waiting`), and ids grow with numbers |

`TypeCorrect` is proved beside them for the first four modules.  Two refinements
are proved, `GateKeepsLedger` and `StoreKeepsRecord`: initial states map to
initial states, each step to a step of the abstract specification or a stutter.

**Hypotheses of theorems**, where a theorem needs more than the assumptions:

* `RuleIsThere`: blocks are made by iptables or not at all.  With ufw the
  property is false, which the run `soarblocklist_overlap` shows.
  `RuleIsThereApart` has any firewall and no two calls for one address that cross
  (`CallsApart` of that module): what the run shows takes a crossing.
  `OneCallerRuleIsThere` replaces the condition by a single calling thread.
* `VerdictSurvivesMoves`: only one of the two kinds of move is run (`OneKind`).
  `VerdictSurvivesCrashes` has both kinds and excludes failing deletions.
  `VerdictSurvivesSteadyMoves` has both kinds and failing deletions, and retention's
  clock stands still between its two statements (`Steady`): the one way in which a
  verdict goes back without a restart needs the clock to pass there.
* `StoreKeepsRecord`: the same `Steady`, because the cutoff that moves loses alerts
  (run `alertarchive_boundary`), and no failing deletion that a restart follows
  (`Untroubled`), where recovery brings an older verdict back.
  `CutoversKeepRecord` has no retention move and needs no `Steady`.
* `HitsAreKnown`: the cool-down is above zero (`SIEM_CORR_COOLDOWN`, 300 seconds
  unless set).

**Only model-checked.**  `ExpiredBlockLeaves`, `OverdueIsDecided` and
`QueueDrains` are liveness properties, beyond the prover.  Every invariant and
every other action property of the passing runs is stated by a theorem.  The gates of
BlockGates are evaluated on every combination of their inputs by TLC and used in
`DecisionsAreTrue`.

## 5. Abstractions

An address, an account, a fingerprint or a file is a model value, and its safety
class a set (`Protected`, `guarded`, `Own`, `Inside`).  Times are small
integers: a lifetime, a timeout or a retention is one or two units, the clock
moves between any two steps.  Free text matters only where it holds a separator
or a line end; what a pattern finds in a text is the text's kind.  The model's
answers, those of reputation services, of `apt`, `ansible`, `nmap` and of a
fuzzed server are chosen freely from the kinds the code tells apart.  Step
records are kept only in SoarTriage; progress, logging, Socket.IO events to the
browser and telemetry are left out.  Where a method holds its lock throughout,
the lock is implicit in the atomicity of its step.  SQLite commits are atomic
and durable; a failing one changes nothing, except where the connection keeps
its transaction (FeatureStore).  The order in which SQLite opens its read
transactions (`ReadOrder`) is external to the repository.  The JSON back end of
the incident manager and its `.bak` file are not modelled.

Conditions the bounds put on inputs: de-duplication is switched on; no version
of a scanned file has size and second of an earlier one; in AggregateCache no
time passes between a thread's first look and its turn at the board, nor between
the caching of counts and the release of the followers (its six statements take
any time), and one window stands for all.

## 6. Not modelled

* Numeric detection: the isolation forest's scores, labels, feature extraction,
  the prior of `decision_support.py`.  TLC has no reals, and what they decide is
  an input of the models.
* Parsers' patterns, XML of `nmap`, packets of libpcap, psutil, hashes: I/O and
  pattern matching whose outcome is an input.
* Feeds, geography, the catalogue of techniques, reports, metrics, telemetry,
  exports, provenance: tables and presentation.
* Console, hunting and correlation queries: single statements over the stores.
* Handlers that only forward to a method that is modelled; the front end;
  scripts run by hand other than `manage_users.py` and `retrain_ml.py`.

## 7. Plan

All components with control of their own are modelled, and every safety property
of theirs that a run checks is proved, under the hypotheses of section 4.  For
the three findings that have a run the proofs say what the counterexample needs:
a crossing of two calls (`RuleIsThereApart`), a clock that passes between two
statements (`StoreKeepsRecord`, `VerdictSurvivesSteadyMoves`); the third needs
no crossing, only a stand-in that answers.  What stays with TLC is liveness.  If
the code changes, the hypotheses are the places to look at: a cutoff computed
once in `archive_older_than`, or a lock for each address that `_block_ip`,
`manual_unblock` and `_expire_blocks` hold around record and command, would let
them go.

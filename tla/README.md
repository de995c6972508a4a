# TLA+ models of tcpdumpw (src/tcpdumpw/main.go)

This directory holds the formal models of the capture orchestrator, the
`tcpdumpw` sidecar program (`src/tcpdumpw/main.go`), and of the uploader's
start script (`src/scripts/start_pcapfsn`). TLC model-checks them on small
instances. For every value of the constants, TLAPS proves:

- type correctness;
- the central safety invariants;
- that the scheduled mode implements an abstract single-flight job state machine.

## 1. The system

`main.go` is one process made of several parts:

| Part (spec §2) | Code | State it owns |
|---|---|---|
| Device Selector | `createTasks` lines 190-191 | none: a regex match over host interfaces |
| Task Factory | `createTasks` 187-277 | the `tasks` slice |
| Execution Context Manager | `start` 128-153 | a WaitGroup, an optional deadline, one goroutine per task |
| Job Registry | `jobs` (cmap), 49, 364 | job id -> `tcpdumpJob` |
| Scheduler | gocron, configured at 319-347 | trigger, in-flight run, listeners |
| Correlation & Logging | `jid`, `xid` (atomics), `jlog` 88-107 | current job and execution id |
| Lifecycle Controller | `main` 279-386 | control flow, exit code, signal handler |
| Uploader start script | `src/scripts/start_pcapfsn` | the poll loop, the exported flags |

How the parts interact:

- `main` builds the tasks.
- With `-use_cron=false`, `main` runs `start` once and returns.
- Otherwise `main` does the following in order:
  - loads the time zone, falling back to UTC;
  - creates the scheduler and the job;
  - stores `jid` and the job record;
  - starts the scheduler and installs the signal handler;
  - blocks on `ctx.Done()`.
- Each trigger runs three steps:
  - `beforeTcpdump` logs, then mints a new `xid`;
  - `tcpdump` reads `jid` and `xid`, looks the job up, and calls `start`;
  - `afterTcpdump` logs completion and resets `xid` to nil. gocron skips it when `tcpdump` returned an error.
- gocron runs with `WithLimitConcurrentJobs(1, Reschedule)` and `WithSingletonMode(Reschedule)`. A trigger that fires while a run is in flight is dropped.
- The signal handler logs and calls `cancel()`.
- `main` then wakes and runs `StopJobs`, `RemoveJob` and `Shutdown`. `StopJobs` waits for the running job.

The hard behaviours are these:

- interleavings of triggers, the signal, the deadline and the engines;
- the global `xid` shared by every run and by every log call;
- the `<-ctx.Done()` then `wg.Wait()` order in `start`;
- the order of registration against `s.Start()`;
- per-interface partial failures in `createTasks`.

## 2. Modules

- **Orchestrator.tla** models the Lifecycle Controller, the Scheduler, the Execution Context Manager, the Job Registry and Correlation. It covers every step of `main` and of each scheduled run.
  - Constants:
    - `UseCron` is `-use_cron`.
    - `Timeout` is `-timeout`; only 0 versus > 0 matters.
    - `MaxTasks` bounds `len(tasks)`.
    - `MaxFires` bounds the number of cron triggers.
  - Runs are `1..MaxFires`, one per trigger. In unscheduled mode, run 1 is the single `start`.
  - State:
    - `mpc`: where `main` is;
    - `exitCode`;
    - `ntasks`;
    - `timezone` and `tzLogged`;
    - `sched`, the gocron state;
    - `sjob`;
    - `jid`, `xid`, `jobs`;
    - `cancelled`: the root context has been cancelled;
    - `sig`;
    - `fires`;
    - per run: `rpc`, the goroutine's position; `rctx`, the id tagged on its context; `deadline`; `eng`, the engine of each task;
    - `log`: jlog lines as records `[ev, xid, run]`.
  - Each main-goroutine step is one action, named after its call:
    - `CreateTasks` covers the `len==0` exit and the unscheduled `start`;
    - `LoadLocation`, `NewScheduler` (exit 2), `NewJob` (exit 3), `Register`, `StartScheduler`, `NotifySignals`, `MainWakes`;
    - `StopJobs` and `StopJobsDone`, `RemoveJob`, `Shutdown`;
    - `OneShotExit`.
  - Signal actions:
    - `SignalCaught`, after `signal.Notify`;
    - `SignalKills`, before it or in unscheduled mode, where Go's default action kills the process;
    - `HandleSignal`.
  - The trigger fires as `FireStart` when no run is in flight, and as `FireSkip` when one is (singleton reschedule).
  - Per run:
    - `BeforeRun` (`beforeTcpdump`);
    - `Tcpdump` (both the found and the not-found paths);
    - `Deadline` (the `WithTimeout` timer);
    - `EngineStops` (an engine honouring the done context) and `EngineEnds` (an engine ending by itself);
    - `StartReturns` (past `<-ctx.Done()` and `wg.Wait()`);
    - `AfterRun` (`afterTcpdump`).
- **TaskFactory.tla** models `createTasks`.
  - Constants and inputs:
    - The constant `Devices` is what `FindDevicesByRegex` returns.
    - The flags `-tcpdump`, `-jsondump` and `-jsonlog` are chosen in `Init`.
    - `outcome[d]` fixes which constructors succeed for device d: `InterfaceByName`, `NewTcpdump`, `NewPcap`, `NewPcapWriter` and `NewStdoutPcapWriter`.
  - `ConfigureIface(d)` is one loop iteration. `IfaceTasks` returns the tasks that iteration appends, following lines 195-273 branch by branch:
    - `RawTasks` is the tcpdump engine of lines 206-227;
    - `JsonTasks` is the gopacket engine of lines 229-273, including the guard at line 230 and the dead branch at line 258.
- **DeviceSelector.tla** models lines 190-191. `Selected(p, n)` is the expression `fmt.Sprintf("^(?:ipvlan-)?%s\\d+.*", p)` read the way Go's regexp reads it, followed by `MatchString`, which is a leftmost search. Names and patterns are sequences of one-character strings, and of the metacharacters a pattern may carry, `.` and `|` are modelled:
  - `Cuts` is the set of the pattern's `|` positions plus both ends. `Adjacent` picks two neighbouring cuts, and the alternative is the part between them. The first alternative keeps `^(?:ipvlan-)?`, the last keeps `\d+.*`, and the ones between keep neither. The definitions use sets and `SubSeq` rather than SequencesExt, so the proof module can reason about them.
  - `Starts` says where an alternative may begin: the first is anchored (optionally after `ipvlan-`, tested with `IsPrefix`), and the others search.
  - `FindDevices` decides one host interface. `SpecSelected` is spec §4.1's definition: an optional `ipvlan-`, the literal pattern, then a digit.
- **StartPcapFsn.tla** models `start_pcapfsn`:
  - `Check` is the `[[ -d ]] && echo && break` line, and `Sleep` is `sleep 1`.
  - `Mount` is the environment creating the directory.
  - `Config` holds the `PCAP_JSONDUMP` and `PCAP_RT_ENV` adjustments, and `Exec` builds the flags with their `${VAR:-default}` values.
  - The environment variables are chosen in `Init`. `PCAP_EXT` is modelled as its list of comma-separated items, so an unset value becomes `<<"">>` and `",json"` becomes `<<"", "json">>`.
- **SingleFlight.tla** is the abstract specification of the scheduled job (spec §3, the Job's states):
  - it is unregistered, then alternates between idle and running one execution with a fresh id, and is removed only from idle;
  - `Orchestrator` instantiates it as `SF` with the mapping below.
- **MC_Orchestrator.tla**, **MC_TaskFactory.tla** and **MC_DeviceSelector.tla** are the TLC instantiations. The device names are model values, and the selector's names are short character sequences.
- **OrchestratorProofs.tla**, **OrchestratorRunsProofs.tla**, **OrchestratorExitProofs.tla**, **OrchestratorRefinement.tla**, **TaskFactoryProofs.tla** and **DeviceSelectorProofs.tla** hold the TLAPS proofs.

### Refinement mapping (Orchestrator to SingleFlight)

- `JobPhase`:
  - "running" while gocron has a run between `BeforeJobRuns` and `AfterJobRuns` (`Active # {}`);
  - "removed" once `s.RemoveJob` has run (`jid` set, job no longer in the scheduler);
  - "idle" while the job is in a started or stopping scheduler;
  - "unregistered" before that.
- `CurrentRun` is the run in flight, or nil.
- `StartedRuns` is the set of runs a trigger has begun.

Under this mapping:

- `FireStart` is `Begin`;
- `AfterRun` is `End`;
- `StartScheduler` is `Register`;
- `RemoveJob` is `Remove`;
- every other step is a stutter.

Each action maps to the lines in `PROJECT.json` "map". gocron is not code of this repository. Its behaviour is modelled from its documented contract, attached to the lines that configure it:

- singleton reschedule;
- listeners run before and after the task;
- `AfterJobRuns` is skipped when the task returns an error;
- `StopJobs` waits for running jobs.

## 3. Runs

| run | cfg | checks | result |
|---|---|---|---|
| cron | MC_cron.cfg | TypeOK, JobAlwaysFound, ExecutionIdsDistinct, CompleteCarriesOwnXid, EnginesOfOneExecution, GracefulExitQuiescent, ExecutionTerminates, SignalLeadsToExit, CronImplementsSingleFlight, XidStableWhileInUse | pass (7,673 states) |
| oneshot | MC_oneshot.cfg | EnginesOfOneExecution, GracefulExitQuiescent, OneShotTerminates | pass |
| task_factory | MC_TaskFactory.cfg | TypeOK, IndependentRawCapture, DecodedTaskHasWriter | pass (33,076 states) |
| no_timeout | MC_no_timeout.cfg | TasksEndedLeadsToReturn | violation |
| signal_race | MC_signal_race.cfg | NoStartAfterSignal | violation |
| tz_fallback | MC_tz_fallback.cfg | TzFallbackNamesRequested | violation |
| started_xid | MC_started_xid.cfg | StartedCarriesOwnXid | violation |
| task_factory_spec | MC_TaskFactory_spec.cfg | DecodedTaskAsSpecified | violation |
| device_selector | MC_DeviceSelector.cfg | SelectedAsSpecified | pass (742 states) |
| device_selector_meta | MC_DeviceSelector_meta.cfg | SelectedAsSpecified | violation |
| stop_timeout | MC_stop_timeout.cfg (SpecStopTimeout) | GracefulExitQuiescent | violation |
| start_pcapfsn | MC_StartPcapFsn.cfg | ExecOnceDirExists | pass (462 states) |

### What the passing runs show

- **Runs and logging**
  - Every run finds its job, because `jid` and `jobs` are stored before `s.Start`.
  - Each run's context carries an id of its own, never nil.
  - "execution complete" is stamped with the run's own id.
  - The global `xid` never changes while a run that reads it is between `beforeTcpdump` and `afterTcpdump` (`XidStableWhileInUse`, an action property).
- **Engines**
  - At most one execution captures at a time.
  - Its engines run only inside `start`.
- **Shutdown**
  - A normal exit leaves nothing in flight.
  - A handled signal leads to exit status 0.
  - Every run, and the one-shot `main`, ends unless the process is killed.
- **Task construction**
  - A failure on one interface never costs another its tcpdump task.
  - No JSON task is built with an empty writer list.
- **Refinement:** in the scheduled mode every behaviour is one SingleFlight allows (`CronImplementsSingleFlight`, checked as a PROPERTY).
- **Device selection:** for every pattern of letters and digits (including the empty pattern of an unset `PCAP_IFACE`), the regex keeps exactly the names of spec §4.1. This covers:
  - `e0` and `ipvlan-e0` for pattern `e`;
  - not `ex`, `xe0` or `ipvlan-`.
- **Uploader script:** once the directory exists, `pcap_fsn` is exec'd.

### Violations (the findings in PROJECT.json)

1. **`-timeout 0`** (main.go:147). `start` waits for `ctx.Done()` even after every engine has returned. So the execution never ends, and singleton mode then drops every later trigger. Spec §4.4 says `start` returns when the scope ends OR the tasks finish.
2. **Signal race** (main.go:382). Between the signal and `StopJobs`, a trigger can still log "execution started" after "signaled". This contradicts spec §8 scenario 4.
3. **Time-zone fallback** (main.go:311). `*timezone` is set to "UTC" before the error line formats it, so the line names UTC instead of the zone that failed.
4. **Stamp of "execution started"** (main.go:123). The line is logged before `xid.Store(uuid.New())`, so it carries nil or the previous id.
5. **JSON guard** (main.go:230). `!*jsondump || !*jsonlog` builds JSON tasks only when BOTH flags are set. Its comment and spec §4.2 say JSON setup is skipped only when neither flag is set.
6. **Unescaped interface pattern** (main.go:190). `PCAP_IFACE` is formatted into the expression without `regexp.QuoteMeta`:
   - a `.` matches any character: pattern `.` selects `ipvlan-00`;
   - a `|` splits the whole expression into alternatives that lose the anchor or the digit suffix.

   Spec §4.1 says the pattern is matched literally.
7. **StopJobs timeout** (main.go:384). gocron's `StopJobs` returns `ErrStopJobsTimedOut` when the running job outlasts the stop timeout. main ignores the error, removes the job, shuts down and exits 0 while the execution still captures.
   - `SpecStopTimeout` adds `StopJobsTimesOut` to `Next` for this run only.
   - The default specification assumes each execution drains within the stop timeout. Its engines are context aware (main.go:129) and stop on `cancel()`.

### Bounds

- **cron run:** 2 tasks and 3 triggers. These bounds are enough for:
  - a trigger to be skipped while a run is in flight;
  - a second and a third execution to reuse the global `xid` after a reset;
  - a signal to land in every phase;
  - the deadline and the engines' own ends to interleave.
- **oneshot run:** 4 tasks, matching two interfaces that each have a raw task and a JSON task.
- **Violation runs:** each uses the smallest instance that shows its violation.
- **device_selector runs:**
  - the host names are every name of up to three characters over `e`, `0`, `x`, plus those of up to two characters with `ipvlan-` in front;
  - the patterns are every pattern of up to two characters: over `e`, `0` for the passing run, and over `e`, `.`, `|` for the violation.
  - So both anchoring positions, the missing and the present digit, and names longer than the pattern all occur.
- **start_pcapfsn run:** every value of the environment variables the script tests, with the directory present at start, mounted later, or never.
- **task_factory run:**
  - 2 devices;
  - every flag combination (8);
  - every outcome of the 5 constructors per device (32 each).

Every property of a passing run has a mutant in PROJECT.json: a plausible bug in the mapped code that TLC then catches.

### Fairness (FairSpec)

- **Weak fairness** applies to:
  - the main goroutine;
  - the signal handler goroutine;
  - each run's goroutine steps;
  - the deadline timer;
  - an engine returning once its context is done (`pcap` engines are context aware, main.go:129).
- **No fairness** applies to the OS signal, the cron trigger, or an engine ending by itself. These belong to the environment and may never happen.
- **In StartPcapFsn**, the shell's own steps are weakly fair. The mount, which belongs to the other container, has no fairness.

## 4. Proofs (OrchestratorProofs.tla, checked by tlapm)

- **`TypeCorrect`**: `Spec => []TypeOK`. It rests on two lemmas:
  - `InitTypeOK`;
  - `NextTypeOK`, which has one case per action, with helper lemmas for a jlog line (`LineType`) and for `start`'s effect (`StartTasksType`).
- **`EnginesOfOneExecutionHolds`**: `Spec => []EnginesOfOneExecution`, for every number of tasks and triggers. The property is not inductive by itself, so the proof goes through the strengthening `IInvEngines == TypeOK /\ SingleActive /\ RunningInWait /\ InitQuiet`:
  - **SingleActive:** gocron has at most one run between `BeforeJobRuns` and `AfterJobRuns`.
  - **RunningInWait:** an engine runs only while its run is inside `start`.
  - **InitQuiet:** before `createTasks` returns, nothing is in flight and no scheduler exists.
  - **Why the strengthening is needed:** `FireStart` relies on no run being in flight, and `StartReturns` relies on `wg.Wait`. The Cardinality step uses `FS_EmptySet` and `FS_Singleton`.
  - **Checks:** TLC checked `IInvEngines` on the cron and oneshot instances before the proof was written. The proof establishes initiation (`IInvInit`) and consecution (`IInvStep`) for every action.

### OrchestratorRunsProofs.tla

- **`JobAlwaysFoundHolds`**, **`ExecutionIdsDistinctHolds`** and **`CompleteCarriesOwnXidHolds`** prove `Spec => []P` for the three run properties that the cron run checks.
- None of these properties is inductive. They rest on `IInvRuns`, which TLC checked on the cron and oneshot instances first. `IInvRuns` is `IInvEngines` together with four facts:
  - **MainOrder:** `main` passes its steps in order. Each position of `mpc` fixes:
    - the scheduler's state;
    - whether the job is in the scheduler;
    - whether `jid` and `jobs` are stored;
    - that nothing is in flight once `s.RemoveJob` is reached.

    The unscheduled mode never leaves `oneshot`.
  - **ScheduledRuns:**
    - a started or stopping scheduler has the job registered;
    - every run in flight belongs to it;
    - a run has been begun only under a trigger count already reached.
  - **RunIds:**
    - from `beforeTcpdump` to `afterTcpdump`, the global `xid` is the run's own id;
    - the run's context is tagged with that id from `tcpdump()` on.
  - **CompleteLogged:**
    - no "job not found" line exists;
    - every "execution complete" line names a finished run and carries the id that run's context was tagged with.
- **Why the strengthening is needed:**
  - `Tcpdump` needs ScheduledRuns and MainOrder to exclude the not-found path;
  - `BeforeRun` and `AfterRun` need SingleActive to know that no other run reads `xid`;
  - `FireStart` needs the trigger count to know that the new id is fresh.
- **Proof structure:**
  - initiation is `IInvRunsInit`;
  - consecution is `IInvRunsStep`, with one case per action;
  - it uses the lemmas `RunsUntouched`, `CompleteKept` (appending a jlog line) and `CompleteSame`.
- **`XidStableHolds`**: `Spec => XidStableWhileInUse`, the action property. The lemma `XidWriters` shows that only `BeforeRun` and `AfterRun` write `xid`. In the scheduled mode, RunIds and SingleActive then show that no other run is in flight while one of them writes. In the unscheduled mode, ScheduledRuns shows that only run 1 exists.

### OrchestratorExitProofs.tla

- **`GracefulExitQuiescentHolds`**: `Spec => []GracefulExitQuiescent`, for every number of tasks and triggers and every timeout. It rests on `IInvExit == IInvRuns /\ OneShotOnly /\ ExitDrained`, which TLC checked on the cron and oneshot instances first:
  - **OneShotOnly:** the unscheduled mode never begins a run other than run 1;
  - **ExitDrained:** once `main` has exited with status 0, every run is finished or never begun.
- **Why the strengthening is needed:** `OneShotExit` exits once run 1 is done, and only OneShotOnly says that no other run exists. `Shutdown` exits after `StopJobs`, and MainOrder says nothing is in flight there. After the exit, only the engines' own ends can still move. `RunningInWait` then says that they capture nothing.
- `IInvExitStep` has one case per action, with two helper steps: one for a step that moves no run, and one for a step of a run already begun.

### TaskFactoryProofs.tla

- **`TaskFactoryTypeOK`**, **`DecodedTaskHasWriterHolds`** and **`IndependentRawCaptureHolds`** hold for every set of devices, every flag setting and every pattern of constructor failures.
- They rest on `IInvTasks == TypeOK /\ RawConfigured /\ DecodedTaskHasWriter`. **RawConfigured** says that every device already configured, whose interface resolved and whose engine was built, has its tcpdump task. `IndependentRawCapture` is the same statement at the return.
- **Lemmas about the operators:**
  - `RawTasksType` and `JsonTasksType` give what each branch appends;
  - `IfaceTasksType` gives what one iteration appends. It uses `ConcatProperties`.
- **Step proof:** `IInvTasksStep` shows that appending keeps the earlier tasks in place, so the facts about earlier devices carry over.

### DeviceSelectorProofs.tla

- **`SelectedAsSpecifiedHolds`**: `ASSUME \A p \in Patterns : Literal(p) PROVE Spec => []SelectedAsSpecified`. It holds for every host name and every pattern without `.` or `|`, in the model's reading of a pattern, where every other character, including regexp metacharacters such as `*`, `+` or `(`, is a literal (section 5). So the theorem covers patterns of letters, digits and dashes, which is what a deployment's `PCAP_IFACE` carries; it says nothing of a pattern with another metacharacter. The hypothesis is needed: the run device_selector_meta shows the property fails for patterns with metacharacters.
- **`SelectedLiteral`** is the lemma it rests on: for a literal pattern, `Selected(p, n) <=> SpecSelected(p, n)`. Its argument:
  - **`LiteralCuts`:** there is one alternative, the whole pattern;
  - the anchored starts are positions 1 and 8;
  - **`PrefixChars` and `PrefixConcat`:** a match at either start is `IsPrefix` of `<<>> \o p` or of `ipvlan- \o p`, followed by a digit.
- **Constants:** `StringsAssumption` says that patterns and names are sequences of strings. The lemma `CharsSeq` makes the literal `ipvlan-` a sequence over the same characters.
- **The invariant:** `IInvSel` is the property together with the constants' ranges.

### OrchestratorRefinement.tla

- **`CronRefinement`**: `ASSUME UseCron PROVE Spec => CronImplementsSingleFlight`. Its lemmas are:
  - `RefineInit`: the initial state maps to SingleFlight's;
  - `RefineStep`: between two `IInvRuns` states, each step is a SingleFlight step or a stutter under the mapping;
  - `RefineSame` and `RefineStutter`, for the many stuttering steps.
- The temporal step combines these with `IInvRunsHolds` by PTL.

### What stays with TLC alone

- **Liveness properties:**
  - `ExecutionTerminates`, `SignalLeadsToExit`, `OneShotTerminates`, `ExecOnceDirExists`;
  - they need fairness and ENABLED, which are out of the prover's reach.
- **`GracefulExitQuiescent` under `SpecStopTimeout`:** the property fails there, which the stop_timeout run shows.
- **`DecodedTaskAsSpecified` and `TzFallbackNamesRequested`:** the code violates them, as the runs show.
- **`SelectedAsSpecified` for patterns with `.` or `|`:** the code violates it (device_selector_meta). Only the literal case is proved.
- **The uploader script's `ExecOnceDirExists`:** a liveness property.

## 5. Not modelled

- **Device matching, beyond `.` and `|`:** other regexp metacharacters in `PCAP_IFACE` are not modelled, nor is `regexp.MustCompile`'s panic on a pattern that does not compile (listed as a hazard). TaskFactory still takes the selector's result as the constant `Devices`.
- **The pcap engines and writers:** they are external. Only their run/stop contract is modelled.
- **gocron's stop timeout in `StopJobs`:** modelled only in the variant `SpecStopTimeout`, since its length against the engines' flush time is not in the code.
- **A signal before `signal.Notify`** (main.go:374): the model delivers SIGTERM only after the handler is installed. The few instructions between `s.Start()` and `Notify` are listed as a hazard.
- **Log formatting and fields:** log lines are reduced to event, stamp and run.
- **`pcap_fsn`**, which the start script execs: it is external. The script's `echo` and `ls -l` lines are logging.

## 6. Plan for later work

- Compose `DeviceSelector` with `TaskFactory`, so that `Devices` is the selector's result over a set of host interfaces.
- Model regexp compile errors for `PCAP_IFACE`, so that the panic path of `createTasks` is covered.

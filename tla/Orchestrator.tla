---------------------------- MODULE Orchestrator ----------------------------
(***************************************************************************)
(* The capture orchestrator of tcpdumpw (src/tcpdumpw/main.go): the main   *)
(* goroutine's lifecycle, the gocron trigger of the one scheduled job in   *)
(* singleton/reschedule mode, the BeforeJobRuns/AfterJobRuns hooks, the    *)
(* job function tcpdump() with start() fanning one goroutine out per       *)
(* capture task, the per-execution deadline, and the signal goroutine.     *)
(*                                                                         *)
(* Data is abstracted: a uuid is a small integer (NilID = uuid.Nil; the    *)
(* execution id minted by uuid.New() for run r is r, which keeps ids       *)
(* unique as uuid.New() does), a task is an index, a log line keeps only   *)
(* its event kind, the xid it was stamped with and the goroutine that      *)
(* emitted it.                                                             *)
(***************************************************************************)
EXTENDS Integers, Sequences, FiniteSets

CONSTANTS
    UseCron,   \* flag -use_cron
    Timeout,   \* flag -timeout, in seconds (0 = no deadline)
    MaxTasks,  \* bound on the number of tasks createTasks returns
    MaxFires   \* bound on the number of cron triggers

ASSUME ConstantsAssumption ==
    /\ UseCron \in BOOLEAN
    /\ Timeout \in Nat
    /\ MaxTasks \in Nat \ {0}
    /\ MaxFires \in Nat \ {0}

Runs  == 1..MaxFires     \* one possible execution per trigger (run 1 is the
                         \* unscheduled execution when UseCron is FALSE)
Tasks == 1..MaxTasks

NilID == 0               \* uuid.Nil
JobID == 1               \* the id gocron assigns to the one job
NoCtx == -1              \* the run has not built its execution context yet

MainPC == {"init", "tz", "newsched", "newjob", "register", "start",
           "notify", "wait", "stopjobs", "stopwait", "remove", "shutdown",
           "oneshot", "exited", "killed"}
RunPC  == {"none", "before", "tcpdump", "wait", "after", "done"}
EngPC  == {"idle", "running", "stopped"}
Events == {"started", "complete", "notfound", "signaled"}
Entry  == [ev : Events, xid : {NilID} \cup Runs, run : {0} \cup Runs]

VARIABLES
    mpc,        \* where the main goroutine is in main()
    exitCode,   \* the process exit status once mpc = "exited"
    ntasks,     \* len(tasks) returned by createTasks
    timezone,   \* *timezone: "requested" or, after the fallback, "UTC"
    tzLogged,   \* the time zone named by the fallback's ERROR line
    sched,      \* the gocron scheduler s
    sjob,       \* the job is registered in s
    jid,        \* the atomic jid
    xid,        \* the atomic xid
    jobs,       \* the keys of the cmap jobs
    cancelled,  \* cancel() of the root context was called
    sig,        \* the OS termination signal
    fires,      \* cron triggers so far
    rpc,        \* rpc[r]: where the goroutine of execution r is
    rctx,       \* rctx[r]: the xid tagged on execution r's context
    deadline,   \* deadline[r]: the context.WithTimeout timer of r
    eng,        \* eng[r][t]: engine of task t in execution r
    log         \* the jlog lines, in order

vars == <<mpc, exitCode, ntasks, timezone, tzLogged, sched, sjob, jid, xid,
          jobs, cancelled, sig, fires, rpc, rctx, deadline, eng, log>>
mainVars == <<mpc, exitCode, ntasks, timezone, tzLogged, sched, sjob, jid,
              jobs>>
runVars  == <<rpc, rctx, deadline, eng>>

Line(e, r) == [ev |-> e, xid |-> xid, run |-> r]   \* jlog stamps xid.Load()

-----------------------------------------------------------------------------
(* Derived state *)

Alive == mpc \notin {"exited", "killed"}
\* The run gocron counts as running, from BeforeJobRuns to AfterJobRuns.
Active == {r \in Runs : rpc[r] \in {"before", "tcpdump", "wait", "after"}}
\* signal.Notify has been called: a signal is delivered to the channel.
HandlerInstalled == UseCron /\ mpc \in {"wait", "stopjobs", "stopwait",
                                        "remove", "shutdown"}
\* ctx.Done() of execution r is closed.
CtxDone(r) == cancelled \/ deadline[r] = "fired"

\* Mutant: the context.WithTimeout branch is lost; no deadline is armed.
StartTasksNoTimeout(r, n) ==
    /\ eng' = [eng EXCEPT ![r] = [t \in Tasks |->
                                    IF t <= n THEN "running" ELSE "idle"]]
    /\ deadline' = [deadline EXCEPT ![r] = "none"]

\* start(): wg.Add(len(tasks)), the optional WithTimeout, one goroutine
\* per task calling t.engine.Start(ctx, t.writers).
StartTasks(r, n) ==
    /\ eng' = [eng EXCEPT ![r] = [t \in Tasks |->
                                    IF t <= n THEN "running" ELSE "idle"]]
    /\ deadline' = [deadline EXCEPT ![r] = IF Timeout > 0 THEN "armed"
                                                          ELSE "none"]

-----------------------------------------------------------------------------
(* The main goroutine *)

Init ==
    /\ mpc = "init"
    /\ exitCode = 0
    /\ ntasks = 0
    /\ timezone = "requested"
    /\ tzLogged = "none"
    /\ sched = "none"
    /\ sjob = FALSE
    /\ jid = NilID
    /\ xid = NilID
    /\ jobs = {}
    /\ cancelled = FALSE
    /\ sig = "none"
    /\ fires = 0
    /\ rpc = [r \in Runs |-> "none"]
    /\ rctx = [r \in Runs |-> NoCtx]
    /\ deadline = [r \in Runs |-> "none"]
    /\ eng = [r \in Runs |-> [t \in Tasks |-> "idle"]]
    /\ log = <<>>

\* createTasks, the empty-result exit, and the unscheduled start().
CreateTasks ==
    /\ mpc = "init"
    /\ \E n \in 0..MaxTasks :
         /\ ntasks' = n
         /\ \/ /\ n = 0
               /\ mpc' = "exited" /\ exitCode' = 1
               /\ UNCHANGED runVars
            \/ /\ n > 0 /\ UseCron
               /\ mpc' = "tz"
               /\ UNCHANGED <<exitCode, runVars>>
            \/ /\ n > 0 /\ ~UseCron
               /\ mpc' = "oneshot"
               /\ rpc' = [rpc EXCEPT ![1] = "wait"]
               /\ rctx' = [rctx EXCEPT ![1] = NilID]
               /\ StartTasks(1, n)
               /\ UNCHANGED exitCode
    /\ UNCHANGED <<timezone, tzLogged, sched, sjob, jid, xid, jobs,
                   cancelled, sig, fires, log>>

\* Mutant: main does not wait for the unscheduled start() (go start(...)).
OneShotExitNoWait ==
    /\ mpc = "oneshot"
    /\ mpc' = "exited" /\ exitCode' = 0
    /\ UNCHANGED <<ntasks, timezone, tzLogged, sched, sjob, jid, xid, jobs,
                   cancelled, sig, fires, runVars, log>>

\* The unscheduled start() has returned: main returns.
OneShotExit ==
    /\ mpc = "oneshot"
    /\ rpc[1] = "done"
    /\ mpc' = "exited" /\ exitCode' = 0
    /\ UNCHANGED <<ntasks, timezone, tzLogged, sched, sjob, jid, xid, jobs,
                   cancelled, sig, fires, runVars, log>>

\* time.LoadLocation(*timezone), with the fallback to UTC: *timezone is
\* overwritten before the ERROR line formats it.
LoadLocation ==
    /\ mpc = "tz"
    /\ mpc' = "newsched"
    /\ \/ UNCHANGED <<timezone, tzLogged>>
       \/ /\ timezone' = "UTC"
          /\ tzLogged' = timezone'
    /\ UNCHANGED <<exitCode, ntasks, sched, sjob, jid, xid, jobs, cancelled,
                   sig, fires, runVars, log>>

\* gocron.NewScheduler, exiting with 2 when it fails.
NewScheduler ==
    /\ mpc = "newsched"
    /\ \/ /\ sched' = "created" /\ mpc' = "newjob"
          /\ UNCHANGED exitCode
       \/ /\ mpc' = "exited" /\ exitCode' = 2
          /\ UNCHANGED sched
    /\ UNCHANGED <<ntasks, timezone, tzLogged, sjob, jid, xid, jobs,
                   cancelled, sig, fires, runVars, log>>

\* s.NewJob, calling s.Shutdown() and exiting with 3 when it fails.
NewJob ==
    /\ mpc = "newjob"
    /\ \/ /\ sjob' = TRUE /\ mpc' = "register"
          /\ UNCHANGED <<sched, exitCode>>
       \/ /\ sched' = "shutdown"
          /\ mpc' = "exited" /\ exitCode' = 3
          /\ UNCHANGED sjob
    /\ UNCHANGED <<ntasks, timezone, tzLogged, jid, xid, jobs, cancelled,
                   sig, fires, runVars, log>>

\* Mutant: jid.Store(j.ID()) is dropped.
RegisterNoJid ==
    /\ mpc = "register"
    /\ jobs' = jobs \cup {JobID}
    /\ mpc' = "start"
    /\ UNCHANGED <<exitCode, ntasks, timezone, tzLogged, sched, sjob, jid, xid,
                   cancelled, sig, fires, runVars, log>>

\* Mutant: the job is stored under jid.Load() read before jid.Store.
RegisterStaleJid ==
    /\ mpc = "register"
    /\ jid' = JobID
    /\ jobs' = jobs \cup {jid}
    /\ mpc' = "start"
    /\ UNCHANGED <<exitCode, ntasks, timezone, tzLogged, sched, sjob, xid,
                   cancelled, sig, fires, runVars, log>>

\* jid.Store(j.ID()), the tcpdumpJob record, jobs.Store(j.ID(), job).
Register ==
    /\ mpc = "register"
    /\ jid' = JobID
    /\ jobs' = jobs \cup {JobID}
    /\ mpc' = "start"
    /\ UNCHANGED <<exitCode, ntasks, timezone, tzLogged, sched, sjob, xid,
                   cancelled, sig, fires, runVars, log>>

\* s.Start(): from here on the trigger fires.
StartScheduler ==
    /\ mpc = "start"
    /\ sched' = "started"
    /\ mpc' = "notify"
    /\ UNCHANGED <<exitCode, ntasks, timezone, tzLogged, sjob, jid, xid, jobs,
                   cancelled, sig, fires, runVars, log>>

\* signal.Notify and the handler goroutine; main then blocks on ctx.Done().
NotifySignals ==
    /\ mpc = "notify"
    /\ mpc' = "wait"
    /\ UNCHANGED <<exitCode, ntasks, timezone, tzLogged, sched, sjob, jid,
                   xid, jobs, cancelled, sig, fires, runVars, log>>

\* <-ctx.Done() returns.
MainWakes ==
    /\ mpc = "wait"
    /\ cancelled
    /\ mpc' = "stopjobs"
    /\ UNCHANGED <<exitCode, ntasks, timezone, tzLogged, sched, sjob, jid,
                   xid, jobs, cancelled, sig, fires, runVars, log>>

\* s.StopJobs(): the executor stops scheduling ...
StopJobs ==
    /\ mpc = "stopjobs"
    /\ sched' = "stopped"
    /\ mpc' = "stopwait"
    /\ UNCHANGED <<exitCode, ntasks, timezone, tzLogged, sjob, jid, xid, jobs,
                   cancelled, sig, fires, runVars, log>>

\* Mutant: StopJobs returns without waiting for the running job.
StopJobsDoneNoWait ==
    /\ mpc = "stopwait"
    /\ mpc' = "remove"
    /\ UNCHANGED <<exitCode, ntasks, timezone, tzLogged, sched, sjob, jid,
                   xid, jobs, cancelled, sig, fires, runVars, log>>

\* ... and returns once the running job has finished.
StopJobsDone ==
    /\ mpc = "stopwait"
    /\ Active = {}
    /\ mpc' = "remove"
    /\ UNCHANGED <<exitCode, ntasks, timezone, tzLogged, sched, sjob, jid,
                   xid, jobs, cancelled, sig, fires, runVars, log>>

\* ... or gives up after gocron's stop timeout with ErrStopJobsTimedOut,
\* which main ignores, while the running job has not finished.
StopJobsTimesOut ==
    /\ mpc = "stopwait"
    /\ Active # {}
    /\ mpc' = "remove"
    /\ UNCHANGED <<exitCode, ntasks, timezone, tzLogged, sched, sjob, jid,
                   xid, jobs, cancelled, sig, fires, runVars, log>>

\* s.RemoveJob(j.ID()).
RemoveJob ==
    /\ mpc = "remove"
    /\ sjob' = FALSE
    /\ mpc' = "shutdown"
    /\ UNCHANGED <<exitCode, ntasks, timezone, tzLogged, sched, jid, xid,
                   jobs, cancelled, sig, fires, runVars, log>>

\* s.Shutdown(); main returns.
Shutdown ==
    /\ mpc = "shutdown"
    /\ sched' = "shutdown"
    /\ mpc' = "exited" /\ exitCode' = 0
    /\ UNCHANGED <<ntasks, timezone, tzLogged, sjob, jid, xid, jobs,
                   cancelled, sig, fires, runVars, log>>

-----------------------------------------------------------------------------
(* The OS signal and the handler goroutine *)

\* SIGTERM/SIGINT arrives after signal.Notify: it is queued on the channel.
SignalCaught ==
    /\ Alive /\ sig = "none" /\ HandlerInstalled
    /\ sig' = "pending"
    /\ UNCHANGED <<mainVars, xid, cancelled, fires, runVars, log>>

\* It arrives before signal.Notify, or in the unscheduled mode that never
\* calls it: Go's default action terminates the process.
SignalKills ==
    /\ Alive /\ sig = "none" /\ ~HandlerInstalled
    /\ mpc' = "killed"
    /\ UNCHANGED <<exitCode, ntasks, timezone, tzLogged, sched, sjob, jid,
                   jobs, xid, cancelled, sig, fires, runVars, log>>

\* Mutant: the handler logs the signal but never calls cancel().
HandleSignalNoCancel ==
    /\ Alive /\ sig = "pending"
    /\ sig' = "handled"
    /\ log' = Append(log, Line("signaled", 0))
    /\ UNCHANGED <<mainVars, xid, cancelled, fires, runVars>>

\* The handler goroutine logs the signal and calls cancel().
HandleSignal ==
    /\ Alive /\ sig = "pending"
    /\ sig' = "handled"
    /\ log' = Append(log, Line("signaled", 0))
    /\ cancelled' = TRUE
    /\ UNCHANGED <<mainVars, xid, fires, runVars>>

-----------------------------------------------------------------------------
(* The gocron trigger and the job's goroutine *)

\* Mutant: neither the concurrency limit nor singleton mode is set.
FireStartNoLimit ==
    /\ Alive /\ sched = "started" /\ sjob /\ fires < MaxFires
    /\ fires' = fires + 1
    /\ rpc' = [rpc EXCEPT ![fires + 1] = "before"]
    /\ UNCHANGED <<mainVars, xid, cancelled, sig, rctx, deadline, eng, log>>

\* The cron trigger fires with no run of the job in flight: a new run.
FireStart ==
    /\ Alive /\ sched = "started" /\ sjob /\ fires < MaxFires
    /\ Active = {}
    /\ fires' = fires + 1
    /\ rpc' = [rpc EXCEPT ![fires + 1] = "before"]
    /\ UNCHANGED <<mainVars, xid, cancelled, sig, rctx, deadline, eng, log>>

\* It fires while a run is in flight: LimitModeReschedule drops it.
FireSkip ==
    /\ Alive /\ sched = "started" /\ sjob /\ fires < MaxFires
    /\ Active # {}
    /\ fires' = fires + 1
    /\ UNCHANGED <<mainVars, xid, cancelled, sig, runVars, log>>

\* Mutant: beforeTcpdump never stores a fresh uuid.
BeforeRunNoMint(r) ==
    /\ Alive /\ rpc[r] = "before"
    /\ log' = IF JobID \in jobs THEN Append(log, Line("started", r)) ELSE log
    /\ rpc' = [rpc EXCEPT ![r] = "tcpdump"]
    /\ UNCHANGED <<mainVars, xid, cancelled, sig, fires, rctx, deadline, eng>>

\* beforeTcpdump: log with the current xid, then store a fresh uuid.
BeforeRun(r) ==
    /\ Alive /\ rpc[r] = "before"
    /\ log' = IF JobID \in jobs THEN Append(log, Line("started", r)) ELSE log
    /\ xid' = r
    /\ rpc' = [rpc EXCEPT ![r] = "tcpdump"]
    /\ UNCHANGED <<mainVars, cancelled, sig, fires, rctx, deadline, eng>>

\* tcpdump(): read jid and xid, look the job up, start() its tasks with a
\* context tagged jid/xid; on a failed lookup it returns an error, and
\* gocron then skips the AfterJobRuns listener.
Tcpdump(r) ==
    /\ Alive /\ rpc[r] = "tcpdump"
    /\ IF jid \in jobs
         THEN /\ rctx' = [rctx EXCEPT ![r] = xid]
              /\ StartTasks(r, ntasks)
              /\ rpc' = [rpc EXCEPT ![r] = "wait"]
              /\ UNCHANGED log
         ELSE /\ log' = Append(log, Line("notfound", r))
              /\ rpc' = [rpc EXCEPT ![r] = "done"]
              /\ UNCHANGED <<rctx, deadline, eng>>
    /\ UNCHANGED <<mainVars, xid, cancelled, sig, fires>>

\* The WithTimeout deadline of run r expires.
Deadline(r) ==
    /\ Alive /\ rpc[r] = "wait" /\ deadline[r] = "armed"
    /\ deadline' = [deadline EXCEPT ![r] = "fired"]
    /\ UNCHANGED <<mainVars, xid, cancelled, sig, fires, rpc, rctx, eng, log>>

\* The engine honours the done context and returns.
EngineStops(r, t) ==
    /\ Alive /\ eng[r][t] = "running" /\ CtxDone(r)
    /\ eng' = [eng EXCEPT ![r][t] = "stopped"]
    /\ UNCHANGED <<mainVars, xid, cancelled, sig, fires, rpc, rctx, deadline,
                   log>>

\* The engine returns by itself (a capture limit, a failure).
EngineEnds(r, t) ==
    /\ Alive /\ eng[r][t] = "running" /\ ~CtxDone(r)
    /\ eng' = [eng EXCEPT ![r][t] = "stopped"]
    /\ UNCHANGED <<mainVars, xid, cancelled, sig, fires, rpc, rctx, deadline,
                   log>>

\* Mutant: start() returns on <-ctx.Done() without wg.Wait().
StartReturnsNoWait(r) ==
    /\ Alive /\ rpc[r] = "wait"
    /\ CtxDone(r)
    /\ rpc' = [rpc EXCEPT ![r] = IF UseCron THEN "after" ELSE "done"]
    /\ UNCHANGED <<mainVars, xid, cancelled, sig, fires, rctx, deadline, eng,
                   log>>

\* start() passes <-ctx.Done() and wg.Wait() and returns.
StartReturns(r) ==
    /\ Alive /\ rpc[r] = "wait"
    /\ CtxDone(r)
    /\ \A t \in Tasks : eng[r][t] # "running"
    /\ rpc' = [rpc EXCEPT ![r] = IF UseCron THEN "after" ELSE "done"]
    /\ UNCHANGED <<mainVars, xid, cancelled, sig, fires, rctx, deadline, eng,
                   log>>

\* afterTcpdump: log completion with the current xid, reset xid to nil.
AfterRun(r) ==
    /\ Alive /\ rpc[r] = "after"
    /\ log' = IF JobID \in jobs THEN Append(log, Line("complete", r)) ELSE log
    /\ xid' = NilID
    /\ rpc' = [rpc EXCEPT ![r] = "done"]
    /\ UNCHANGED <<mainVars, cancelled, sig, fires, rctx, deadline, eng>>

-----------------------------------------------------------------------------

Terminated == ~Alive /\ UNCHANGED vars

MainStep == CreateTasks \/ OneShotExit \/ LoadLocation \/ NewScheduler
            \/ NewJob \/ Register \/ StartScheduler \/ NotifySignals
            \/ MainWakes \/ StopJobs \/ StopJobsDone \/ RemoveJob \/ Shutdown

RunStep(r) == BeforeRun(r) \/ Tcpdump(r) \/ Deadline(r) \/ StartReturns(r)
              \/ AfterRun(r) \/ \E t \in Tasks : EngineStops(r, t)

Next ==
    \/ MainStep
    \/ SignalCaught \/ SignalKills \/ HandleSignal
    \/ FireStart \/ FireSkip
    \/ \E r \in Runs : RunStep(r)
    \/ \E r \in Runs, t \in Tasks : EngineEnds(r, t)
    \/ Terminated

\* Goroutines and timers progress; the OS signal, the cron trigger and an
\* engine's own termination are the environment's and may never happen.
Fairness ==
    /\ WF_vars(MainStep)
    /\ WF_vars(HandleSignal)
    /\ \A r \in Runs : /\ WF_vars(BeforeRun(r))
                       /\ WF_vars(Tcpdump(r))
                       /\ WF_vars(Deadline(r))
                       /\ WF_vars(StartReturns(r))
                       /\ WF_vars(AfterRun(r))
                       /\ \A t \in Tasks : WF_vars(EngineStops(r, t))

Spec == Init /\ [][Next]_vars
FairSpec == Spec /\ Fairness

\* The same system when an execution may take longer to drain than
\* gocron's stop timeout (an engine slow to flush on cancellation).
NextStopTimeout == Next \/ StopJobsTimesOut
SpecStopTimeout == Init /\ [][NextStopTimeout]_vars /\ Fairness

-----------------------------------------------------------------------------
(* Refinement mapping to SingleFlight, the job state machine of the       *)
(* scheduled mode.  The job is running while gocron has a run between     *)
(* BeforeJobRuns and AfterJobRuns; it is removed once s.RemoveJob has      *)
(* undone the registration; it is idle while registered in a started or   *)
(* stopping scheduler.  The execution in flight is the active run, and the *)
(* executions begun are the runs a trigger has started.                    *)

JobPhase ==
    IF Active # {} THEN "running"
    ELSE IF jid = JobID /\ ~sjob THEN "removed"
    ELSE IF sjob /\ sched \in {"started", "stopped"} THEN "idle"
    ELSE "unregistered"

CurrentRun == IF Active = {} THEN NilID ELSE CHOOSE r \in Active : TRUE

StartedRuns == {r \in Runs : rpc[r] # "none"}

SF == INSTANCE SingleFlight WITH Execs <- Runs, None <- NilID,
        phase <- JobPhase, current <- CurrentRun, started <- StartedRuns

-----------------------------------------------------------------------------
(* Properties *)

TypeOK ==
    /\ mpc \in MainPC
    /\ exitCode \in 0..3
    /\ ntasks \in 0..MaxTasks
    /\ timezone \in {"requested", "UTC"}
    /\ tzLogged \in {"none", "requested", "UTC"}
    /\ sched \in {"none", "created", "started", "stopped", "shutdown"}
    /\ sjob \in BOOLEAN
    /\ jid \in {NilID, JobID}
    /\ xid \in {NilID} \cup Runs
    /\ jobs \subseteq {JobID}
    /\ cancelled \in BOOLEAN
    /\ sig \in {"none", "pending", "handled"}
    /\ fires \in 0..MaxFires
    /\ rpc \in [Runs -> RunPC]
    /\ rctx \in [Runs -> {NoCtx, NilID} \cup Runs]
    /\ deadline \in [Runs -> {"none", "armed", "fired"}]
    /\ eng \in [Runs -> [Tasks -> EngPC]]
    /\ log \in Seq(Entry)


-----------------------------------------------------------------------------
(* The inductive invariant behind EnginesOfOneExecution (proved in        *)
(* OrchestratorProofs): gocron never has two runs of the job in flight,   *)
(* an engine only captures while its execution is inside start(), and     *)
(* nothing runs, and the scheduler does not exist, before createTasks    *)
(* returns.                                                               *)

SingleActive == \A r1, r2 \in Active : r1 = r2
RunningInWait ==
    \A r \in Runs, t \in Tasks : eng[r][t] = "running" => rpc[r] = "wait"
InitQuiet == mpc = "init" => Active = {} /\ sched = "none"

IInvEngines == TypeOK /\ SingleActive /\ RunningInWait /\ InitQuiet

(* The inductive invariant behind JobAlwaysFound, ExecutionIdsDistinct,   *)
(* CompleteCarriesOwnXid and the refinement: main() moves through its     *)
(* steps in order, registering the job before s.Start() and stopping the  *)
(* scheduler before it removes the job; a run is triggered only by the    *)
(* started scheduler, under a trigger count it has not reached yet; while *)
(* a run is inside tcpdump(), start() or afterTcpdump the global xid is   *)
(* its own, and so is its context once tcpdump() has built it.            *)

Registered == jid = JobID /\ JobID \in jobs

MainOrder ==
    /\ mpc = "init" => sig = "none" /\ log = <<>>
    /\ mpc \in {"init", "oneshot"} \/ ~Alive \/ UseCron
    /\ mpc = "oneshot" => ~UseCron
    /\ mpc \in {"init", "tz", "newsched", "oneshot"} => sched = "none"
    /\ mpc \in {"newjob", "register", "start"} => sched = "created"
    /\ mpc \in {"notify", "wait", "stopjobs"} => sched = "started"
    /\ mpc \in {"stopwait", "remove", "shutdown"} => sched = "stopped"
    /\ mpc \in {"init", "tz", "newsched", "newjob", "oneshot"} => ~sjob
    /\ mpc \in {"register", "start", "notify", "wait", "stopjobs", "stopwait",
               "remove"} => sjob
    /\ mpc = "shutdown" => ~sjob
    /\ mpc \in {"init", "tz", "newsched", "newjob", "register", "oneshot"}
          => jid = NilID
    /\ mpc \in {"start", "notify", "wait", "stopjobs", "stopwait", "remove",
               "shutdown"} => Registered
    /\ mpc \in {"remove", "shutdown"} => Active = {}

ScheduledRuns ==
    /\ sched \in {"started", "stopped"} => Registered
    /\ UseCron => \A r \in Active : sjob /\ sched \in {"started", "stopped"}
    /\ ~UseCron => \A r \in Runs : rpc[r] \in {"none", "wait", "done"}
    /\ UseCron => \A r \in Runs : rpc[r] # "none" => r <= fires

RunIds ==
    UseCron =>
      \A r \in Runs :
         /\ rpc[r] \in {"tcpdump", "wait", "after"} => xid = r
         /\ rpc[r] \in {"none", "before", "tcpdump"} => rctx[r] = NoCtx
         /\ rpc[r] \in {"wait", "after"} => rctx[r] = r
         /\ rpc[r] = "done" => rctx[r] \in {NoCtx, r}

CompleteLogged ==
    \A i \in DOMAIN log :
       /\ log[i].ev # "notfound"
       /\ log[i].ev = "complete" =>
             /\ log[i].run \in Runs /\ rpc[log[i].run] = "done"
             /\ log[i].xid = log[i].run /\ rctx[log[i].run] = log[i].run

IInvRuns == IInvEngines /\ MainOrder /\ ScheduledRuns /\ RunIds /\ CompleteLogged

(* The inductive invariant behind GracefulExitQuiescent: the unscheduled  *)
(* mode only ever starts run 1 (no trigger fires without the scheduler),  *)
(* and main reaches its exit with status 0 only once every execution has  *)
(* finished or never begun.                                               *)

OneShotOnly == ~UseCron => \A r \in Runs \ {1} : rpc[r] = "none"
ExitDrained ==
    (mpc = "exited" /\ exitCode = 0) => \A r \in Runs : rpc[r] \in {"none", "done"}

IInvExit == IInvRuns /\ OneShotOnly /\ ExitDrained

\* Every execution the trigger starts finds its job: tcpdump() never takes
\* the "job not found" path (main() must store jid and the jobs entry before
\* s.Start() lets the trigger fire).
JobAlwaysFound ==
    \A i \in DOMAIN log : log[i].ev # "notfound"

\* Each scheduled execution runs its engines under a context tagged with an
\* execution id of its own: never uuid.Nil, never that of another execution
\* (beforeTcpdump's xid.Store must precede the read in tcpdump()).
ExecutionIdsDistinct ==
    UseCron =>
      \A r1, r2 \in {r \in Runs : rctx[r] # NoCtx} :
         /\ rctx[r1] # NilID
         /\ r1 # r2 => rctx[r1] # rctx[r2]

\* The "execution complete" line afterTcpdump logs for an execution is
\* stamped with the id that execution's engines ran under, not with the id
\* of another execution or with nil (the global xid is shared by every run).
CompleteCarriesOwnXid ==
    \A i \in DOMAIN log :
       log[i].ev = "complete" => log[i].xid = rctx[log[i].run]

\* The "execution started" line of an execution carries that execution's
\* id (spec 4.5: the before-run event belongs to the execution it opens;
\* beforeTcpdump logs before its xid.Store(uuid.New())).
StartedCarriesOwnXid ==
    \A i \in DOMAIN log : log[i].ev = "started" => log[i].xid = log[i].run

\* At any instant the capture engines that run belong to one execution, and
\* that execution is still inside start(): no two executions capture at
\* once, and none is reported finished while its engines capture.
EnginesOfOneExecution ==
    LET capturing == {r \in Runs : \E t \in Tasks : eng[r][t] = "running"}
    IN  /\ Cardinality(capturing) <= 1
        /\ \A r \in capturing : rpc[r] = "wait"

\* When the process exits normally (status 0) no execution is in flight and
\* no engine is capturing: shutdown drains the running execution first.
GracefulExitQuiescent ==
    (mpc = "exited" /\ exitCode = 0) =>
       \A r \in Runs : /\ rpc[r] \in {"none", "done"}
                       /\ \A t \in Tasks : eng[r][t] # "running"

\* What no step may do: overwrite the global xid while a scheduled run
\* that reads it (tcpdump() tags its context with it, afterTcpdump logs
\* it) sits in tcpdump(), start() or afterTcpdump and does not move.  The
\* xid is one atomic shared by every run; only gocron's singleton mode
\* keeps a second run's beforeTcpdump from storing over it.
XidStableWhileInUse ==
    [][\A r \in Runs :
         (rpc[r] \in {"tcpdump", "wait", "after"} /\ rpc'[r] = rpc[r])
            => xid' = xid]_vars

\* No "execution started" line follows the handler's "signaled" line: after
\* a termination signal the scheduler starts no further execution (spec
\* section 8, scenario 4).
NoStartAfterSignal ==
    \A i, j \in DOMAIN log :
       (log[i].ev = "signaled" /\ log[j].ev = "started") => j < i

\* The ERROR line of the time-zone fallback names the zone that failed to
\* load (main.go logs *timezone after overwriting it with "UTC").
TzFallbackNamesRequested ==
    tzLogged \in {"none", "requested"}

\* Every execution the trigger starts comes to an end (its after-run hook
\* runs) unless the process is killed: the per-execution timeout bounds it.
ExecutionTerminates ==
    \A r \in Runs : rpc[r] = "before" ~> (rpc[r] = "done" \/ mpc = "killed")

\* Once every engine of an execution has returned by itself, start()
\* returns (spec 4.4: wait for the scope to end OR all tasks to finish).
TasksEndedLeadsToReturn ==
    \A r \in Runs :
       (rpc[r] = "wait" /\ \A t \in Tasks : eng[r][t] # "running")
          ~> (rpc[r] # "wait" \/ mpc = "killed")

\* The unscheduled execution ends, and main() returns, unless the process
\* is killed: with a timeout, the deadline stops the engines.
OneShotTerminates ==
    mpc = "oneshot" ~> mpc \in {"exited", "killed"}

\* In the scheduled mode the job behaves as SingleFlight allows: one
\* execution at a time, each with a fresh id, begun only while the job is
\* registered and idle, and the job removed only when no execution runs
\* (gocron's singleton mode with StopJobs waiting before s.RemoveJob).
\* Checked by the runs of the scheduled mode (UseCron = TRUE) only.
CronImplementsSingleFlight == SF!Spec

\* A handled termination signal leads to a normal exit with status 0.
SignalLeadsToExit ==
    sig = "handled" ~> (mpc = "exited" /\ exitCode = 0)

=============================================================================

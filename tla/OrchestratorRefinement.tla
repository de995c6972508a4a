----------------------- MODULE OrchestratorRefinement -----------------------
(***************************************************************************)
(* Proof that the scheduled mode of main.go implements SingleFlight under  *)
(* the mapping JobPhase / CurrentRun / StartedRuns of Orchestrator: the    *)
(* trigger begins an execution only while the job is registered and idle, *)
(* each with a fresh id, AfterJobRuns returns the job to idle, and         *)
(* s.RemoveJob removes it only once StopJobs has drained the execution.    *)
(***************************************************************************)
EXTENDS OrchestratorRunsProofs

USE ConstantsAssumption

sfVars == <<JobPhase, CurrentRun, StartedRuns>>

\* The initial state maps to SingleFlight's: unregistered, nothing begun.
LEMMA RefineInit == Init => SF!Init
<1> SUFFICES ASSUME Init PROVE SF!Init
  OBVIOUS
<1>1. Active = {} /\ StartedRuns = {}
  BY DEF Init, Active, StartedRuns
<1>2. QED
  BY <1>1 DEF Init, SF!Init, JobPhase, CurrentRun, JobID, NilID

\* A step that moves no run and leaves the scheduler, the job and jid
\* alone is a stutter of SingleFlight.
LEMMA RefineStutter ==
    ASSUME UNCHANGED <<rpc, jid, sjob, sched>>
    PROVE  UNCHANGED sfVars
BY DEF sfVars, JobPhase, CurrentRun, StartedRuns, Active

\* A step that keeps the runs in flight and the runs begun, and leaves the
\* scheduler, the job and jid alone, is a stutter of SingleFlight.
LEMMA RefineSame ==
    ASSUME Active' = Active, StartedRuns' = StartedRuns,
           UNCHANGED <<jid, sjob, sched>>
    PROVE  UNCHANGED sfVars
BY DEF sfVars, JobPhase, CurrentRun

\* In the scheduled mode every step of Orchestrator between states of
\* IInvRuns is a step of SingleFlight or leaves its variables unchanged.
LEMMA RefineStep ==
    ASSUME UseCron, IInvRuns, IInvRuns', [Next]_vars
    PROVE  [SF!Next]_sfVars
<1>0. /\ SingleActive /\ MainOrder /\ ScheduledRuns /\ RunIds
      /\ mpc \in MainPC
      /\ rpc \in [Runs -> RunPC]
      /\ fires \in 0..MaxFires
  BY DEF IInvRuns, IInvEngines, TypeOK
\* A run in flight belongs to the started or stopping scheduler.
<1>A. Active # {} => sjob /\ sched \in {"started", "stopped"}
  BY <1>0 DEF ScheduledRuns
<1>1. CASE \/ CreateTasks \/ OneShotExit \/ LoadLocation \/ NotifySignals
           \/ MainWakes \/ StopJobsDone \/ SignalCaught \/ SignalKills
           \/ HandleSignal \/ FireSkip \/ Terminated \/ UNCHANGED vars
           \/ \E r \in Runs : Deadline(r) \/ \E t \in Tasks : EngineStops(r, t)
           \/ \E r \in Runs, t \in Tasks : EngineEnds(r, t)
  <2>1. UNCHANGED <<rpc, jid, sjob, sched>>
    BY <1>1 DEF CreateTasks, OneShotExit, LoadLocation, NotifySignals,
                MainWakes, StopJobsDone, SignalCaught, SignalKills,
                HandleSignal, FireSkip, Terminated, vars, Deadline,
                EngineStops, EngineEnds, runVars, mainVars
  <2>2. QED
    BY <2>1, RefineStutter
<1>2. CASE NewScheduler \/ NewJob \/ Register
  <2>1. /\ mpc \in {"newsched", "newjob", "register"}
        /\ sched \in {"none", "created"}
        /\ UNCHANGED rpc
        /\ sched' \in {"none", "created", "shutdown"}
        /\ jid = NilID
    BY <1>0, <1>2 DEF NewScheduler, NewJob, Register, MainOrder, runVars
  <2>2. Active = {} /\ Active' = {} /\ StartedRuns' = StartedRuns
    BY <1>A, <2>1 DEF Active, StartedRuns
  <2>3. JobPhase = "unregistered" /\ JobPhase' = "unregistered"
    <3>1. ~sjob \/ mpc = "register"
      BY <1>0, <2>1 DEF MainOrder
    <3>2. jid' = JobID => sjob'
      <4>1. CASE Register
        BY <1>0, <4>1 DEF Register, MainOrder
      <4>2. CASE NewScheduler \/ NewJob
        BY <2>1, <4>2 DEF NewScheduler, NewJob, NilID, JobID
      <4>3. QED
        BY <1>2, <4>1, <4>2
    <3>3. QED
      BY <2>1, <2>2, <3>1, <3>2 DEF JobPhase, NilID, JobID
  <2>4. QED
    BY <2>2, <2>3 DEF sfVars, CurrentRun
<1>3. CASE StartScheduler
  <2>1. /\ mpc = "start" /\ sched = "created" /\ sjob /\ jid = JobID
        /\ sched' = "started"
        /\ UNCHANGED <<rpc, sjob, jid>>
    BY <1>0, <1>3 DEF StartScheduler, MainOrder, Registered, runVars
  <2>2. Active = {} /\ Active' = {} /\ StartedRuns' = StartedRuns
    BY <1>A, <2>1 DEF Active, StartedRuns
  <2>3. JobPhase = "unregistered" /\ JobPhase' = "idle"
    BY <2>1, <2>2 DEF JobPhase
  <2>4. SF!Register
    BY <2>2, <2>3 DEF SF!Register, CurrentRun
  <2>5. QED
    BY <2>4 DEF SF!Next
<1>4. CASE StopJobs \/ Shutdown
  <2>1. /\ UNCHANGED <<rpc, sjob, jid>>
        /\ \/ sched = "started" /\ sched' = "stopped" /\ sjob
           \/ Active = {} /\ jid = JobID /\ ~sjob
    BY <1>0, <1>4 DEF StopJobs, Shutdown, MainOrder, Registered, runVars
  <2>2. Active' = Active /\ StartedRuns' = StartedRuns
    BY <2>1 DEF Active, StartedRuns
  <2>3. JobPhase' = JobPhase
    BY <2>1, <2>2 DEF JobPhase
  <2>4. QED
    BY <2>2, <2>3 DEF sfVars, CurrentRun
<1>5. CASE RemoveJob
  <2>1. /\ Active = {} /\ sched = "stopped" /\ sjob /\ jid = JobID
        /\ sjob' = FALSE
        /\ UNCHANGED <<rpc, sched, jid>>
    BY <1>0, <1>5 DEF RemoveJob, MainOrder, Registered, runVars
  <2>2. Active' = {} /\ StartedRuns' = StartedRuns
    BY <2>1 DEF Active, StartedRuns
  <2>3. JobPhase = "idle" /\ JobPhase' = "removed"
    BY <2>1, <2>2 DEF JobPhase
  <2>4. SF!Remove
    BY <2>1, <2>2, <2>3 DEF SF!Remove, CurrentRun
  <2>5. QED
    BY <2>4 DEF SF!Next
<1>6. CASE FireStart
  <2> DEFINE k == fires + 1
  <2>1. /\ sched = "started" /\ sjob /\ Active = {} /\ fires < MaxFires
        /\ rpc' = [rpc EXCEPT ![k] = "before"]
        /\ UNCHANGED <<sched, sjob, jid>>
    BY <1>6 DEF FireStart, mainVars
  <2>2. k \in Runs /\ rpc[k] = "none"
    BY <1>0, <2>1 DEF ScheduledRuns, Runs
  <2>3. Active' = {k}
    BY <1>0, <2>1, <2>2 DEF Active
  <2>4. StartedRuns' = StartedRuns \cup {k} /\ k \notin StartedRuns
    BY <1>0, <2>1, <2>2 DEF StartedRuns
  <2>5. JobPhase = "idle" /\ JobPhase' = "running"
    BY <2>1, <2>3 DEF JobPhase
  <2>6. CurrentRun' = k
    BY <2>3 DEF CurrentRun
  <2>7. SF!Begin(k)
    BY <2>4, <2>5, <2>6 DEF SF!Begin
  <2>8. QED
    BY <2>2, <2>7 DEF SF!Next
<1>7. ASSUME NEW r \in Runs, RunStep(r)
      PROVE  [SF!Next]_sfVars
  <2>0. UNCHANGED <<sched, sjob, jid, jobs>>
    BY <1>7 DEF RunStep, BeforeRun, Tcpdump, Deadline, StartReturns,
                AfterRun, EngineStops, mainVars
  \* The run moves between two states in flight.
  <2>1. CASE \/ BeforeRun(r) /\ rpc' = [rpc EXCEPT ![r] = "tcpdump"]
             \/ Tcpdump(r) /\ rpc' = [rpc EXCEPT ![r] = "wait"]
             \/ StartReturns(r) /\ rpc' = [rpc EXCEPT ![r] = "after"]
    <3>1. rpc[r] \in {"before", "tcpdump", "wait"}
      BY <2>1 DEF BeforeRun, Tcpdump, StartReturns
    <3>2. Active' = Active /\ StartedRuns' = StartedRuns
      BY <1>0, <2>1, <3>1 DEF Active, StartedRuns
    <3>3. QED
      BY <2>0, <3>2, RefineSame
  <2>2. CASE BeforeRun(r) \/ StartReturns(r)
    BY <2>1, <2>2 DEF BeforeRun, StartReturns
  <2>3. CASE Tcpdump(r)
    <3>1. rpc[r] = "tcpdump"
      BY <2>3 DEF Tcpdump
    <3>2. r \in Active
      BY <1>0, <3>1 DEF Active
    <3>3. jid \in jobs
      BY <1>0, <1>A, <3>2 DEF ScheduledRuns, Registered
    <3>4. rpc' = [rpc EXCEPT ![r] = "wait"]
      BY <2>3, <3>3 DEF Tcpdump
    <3>5. QED
      BY <2>1, <2>3, <3>4
  <2>4. CASE AfterRun(r)
    <3>1. rpc[r] = "after" /\ rpc' = [rpc EXCEPT ![r] = "done"]
      BY <2>4 DEF AfterRun
    <3>2. r \in Active /\ Active = {r}
      BY <1>0, <3>1 DEF Active, SingleActive
    <3>3. Active' = {}
      BY <1>0, <3>1, <3>2 DEF Active
    <3>4. StartedRuns' = StartedRuns
      BY <1>0, <3>1 DEF StartedRuns
    <3>5. sjob /\ sched \in {"started", "stopped"}
      BY <1>A, <3>2
    <3>6. JobPhase = "running" /\ JobPhase' = "idle"
      BY <2>0, <3>2, <3>3, <3>5 DEF JobPhase
    <3>7. SF!End
      BY <3>3, <3>4, <3>6 DEF SF!End, CurrentRun
    <3>8. QED
      BY <3>7 DEF SF!Next
  <2>5. CASE Deadline(r) \/ \E t \in Tasks : EngineStops(r, t)
    BY <1>1, <2>5
  <2>6. QED
    BY <1>7, <2>2, <2>3, <2>4, <2>5 DEF RunStep
<1>8. QED
  BY <1>1, <1>2, <1>3, <1>4, <1>5, <1>6, <1>7 DEF Next, MainStep

\* In the scheduled mode main.go's job behaves as SingleFlight: gocron's
\* singleton mode, the registration before s.Start() and StopJobs' wait
\* before s.RemoveJob make every behaviour of Orchestrator a behaviour of
\* the job state machine, for any number of tasks and triggers.
THEOREM CronRefinement == ASSUME UseCron PROVE Spec => CronImplementsSingleFlight
<1>1. IInvRuns /\ IInvRuns' /\ [Next]_vars => [SF!Next]_sfVars
  BY RefineStep
<1>2. QED
  BY <1>1, RefineInit, IInvRunsHolds, IInvRunsStep, PTL
     DEF Spec, CronImplementsSingleFlight, SF!Spec, sfVars, SF!avars

=============================================================================

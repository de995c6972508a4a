----------------------- MODULE OrchestratorExitProofs -----------------------
(***************************************************************************)
(* Proof, for every value of the constants, that a normal exit (status 0) *)
(* leaves no execution in flight and no engine capturing.  It rests on    *)
(* IInvExit of Orchestrator: IInvRuns, the unscheduled mode starting run  *)
(* 1 only, and every run finished or never begun once main exits with 0.  *)
(***************************************************************************)
EXTENDS OrchestratorRunsProofs

USE ConstantsAssumption

\* The initial state satisfies IInvExit.
LEMMA IInvExitInit == Init => IInvExit
<1> SUFFICES ASSUME Init PROVE IInvExit
  OBVIOUS
<1>1. IInvRuns
  BY IInvRunsInit
<1>2. OneShotOnly /\ ExitDrained
  BY DEF Init, OneShotOnly, ExitDrained
<1>3. QED
  BY <1>1, <1>2 DEF IInvExit

\* Every step preserves IInvExit.
LEMMA IInvExitStep == IInvExit /\ [Next]_vars => IInvExit'
<1> SUFFICES ASSUME IInvExit, [Next]_vars PROVE IInvExit'
  OBVIOUS
<1>0. /\ IInvRuns' /\ OneShotOnly /\ ExitDrained
      /\ MainOrder /\ InitQuiet
  BY IInvRunsStep DEF IInvExit, IInvRuns, IInvEngines
<1>T. /\ mpc \in MainPC
      /\ rpc \in [Runs -> RunPC]
      /\ 1 \in Runs
  <2>1. 1 \in Runs
    BY DEF Runs
  <2>2. QED
    BY <2>1 DEF IInvExit, IInvRuns, IInvEngines, TypeOK
<1> SUFFICES OneShotOnly' /\ ExitDrained'
  BY <1>0 DEF IInvExit
\* A step that moves no run and does not newly exit with status 0.
<1>S. ASSUME UNCHANGED rpc,
             (mpc' = "exited" /\ exitCode' = 0) => (mpc = "exited" /\ exitCode = 0)
      PROVE  OneShotOnly' /\ ExitDrained'
  BY <1>0, <1>S DEF OneShotOnly, ExitDrained
\* A step of the goroutine of a run that has begun, while main is alive.
<1>Q. ASSUME NEW q \in Runs, rpc[q] # "none", Alive,
             \A p \in Runs \ {q} : rpc'[p] = rpc[p],
             UNCHANGED <<mpc, exitCode>>
      PROVE  OneShotOnly' /\ ExitDrained'
  <2>1. OneShotOnly'
    BY <1>0, <1>Q DEF OneShotOnly
  <2>2. ExitDrained'
    BY <1>Q DEF ExitDrained, Alive
  <2>3. QED
    BY <2>1, <2>2
<1>1. CASE CreateTasks
  <2>1. PICK n \in 0..MaxTasks :
          \/ n = 0 /\ mpc' = "exited" /\ exitCode' = 1 /\ UNCHANGED rpc
          \/ mpc' = "tz" /\ UNCHANGED rpc
          \/ mpc' = "oneshot" /\ rpc' = [rpc EXCEPT ![1] = "wait"]
    BY <1>1 DEF CreateTasks, runVars
  <2>2. mpc = "init"
    BY <1>1 DEF CreateTasks
  <2>3. CASE UNCHANGED rpc
    BY <2>1, <2>2, <2>3, <1>S
  <2>4. CASE mpc' = "oneshot" /\ rpc' = [rpc EXCEPT ![1] = "wait"]
    <3>1. OneShotOnly'
      BY <1>0, <1>T, <2>4 DEF OneShotOnly
    <3>2. ExitDrained'
      BY <2>4 DEF ExitDrained
    <3>3. QED
      BY <3>1, <3>2
  <2>5. QED
    BY <2>1, <2>3, <2>4
<1>2. CASE OneShotExit
  <2>1. mpc = "oneshot" /\ rpc[1] = "done" /\ UNCHANGED rpc
    BY <1>2 DEF OneShotExit, runVars
  <2>2. ~UseCron
    BY <1>0, <2>1 DEF MainOrder
  <2>3. \A r \in Runs : rpc[r] \in {"none", "done"}
    BY <1>0, <2>1, <2>2 DEF OneShotOnly
  <2>4. QED
    BY <1>0, <2>1, <2>3 DEF OneShotOnly, ExitDrained
<1>3. CASE Shutdown
  <2>1. mpc = "shutdown" /\ UNCHANGED rpc
    BY <1>3 DEF Shutdown, runVars
  <2>2. Active = {}
    BY <1>0, <2>1 DEF MainOrder
  <2>3. \A r \in Runs : rpc[r] \in {"none", "done"}
    BY <1>T, <2>2 DEF Active, RunPC
  <2>4. QED
    BY <1>0, <2>1, <2>3 DEF OneShotOnly, ExitDrained
<1>4. CASE \/ LoadLocation \/ NewScheduler \/ NewJob \/ Register
           \/ StartScheduler \/ NotifySignals \/ MainWakes \/ StopJobs
           \/ StopJobsDone \/ RemoveJob
  BY <1>4, <1>S DEF LoadLocation, NewScheduler, NewJob, Register,
                    StartScheduler, NotifySignals, MainWakes, StopJobs,
                    StopJobsDone, RemoveJob, runVars
<1>5. CASE SignalCaught \/ SignalKills \/ HandleSignal \/ FireSkip
  BY <1>5, <1>S DEF SignalCaught, SignalKills, HandleSignal, FireSkip,
                    Alive, mainVars, runVars
<1>6. CASE FireStart
  <2>1. Alive /\ sched = "started" /\ UNCHANGED <<mpc, exitCode>>
    BY <1>6 DEF FireStart, mainVars
  <2>2. UseCron
    BY <1>0, <1>T, <2>1 DEF MainOrder, Alive
  <2>3. QED
    BY <2>1, <2>2 DEF OneShotOnly, ExitDrained, Alive
<1>7. ASSUME NEW r \in Runs, RunStep(r)
      PROVE  OneShotOnly' /\ ExitDrained'
  <2>1. CASE BeforeRun(r)
    BY <1>T, <2>1, <1>Q DEF BeforeRun, mainVars
  <2>2. CASE Tcpdump(r)
    BY <1>T, <2>2, <1>Q DEF Tcpdump, mainVars
  <2>3. CASE StartReturns(r)
    BY <1>T, <2>3, <1>Q DEF StartReturns, mainVars
  <2>4. CASE AfterRun(r)
    BY <1>T, <2>4, <1>Q DEF AfterRun, mainVars
  <2>5. CASE Deadline(r) \/ \E t \in Tasks : EngineStops(r, t)
    BY <2>5, <1>S DEF Deadline, EngineStops, Alive, mainVars
  <2>6. QED
    BY <1>7, <2>1, <2>2, <2>3, <2>4, <2>5 DEF RunStep
<1>8. CASE \E r \in Runs, t \in Tasks : EngineEnds(r, t)
  BY <1>8, <1>S DEF EngineEnds, Alive, mainVars
<1>9. CASE Terminated \/ UNCHANGED vars
  BY <1>9, <1>S DEF Terminated, vars
<1>10. QED
  BY <1>1, <1>2, <1>3, <1>4, <1>5, <1>6, <1>7, <1>8, <1>9
     DEF Next, MainStep

\* A normal exit (status 0) leaves no execution in flight and no engine
\* capturing: the unscheduled main waits for start() to return, and the
\* scheduled main removes the job only after StopJobs saw no run in flight.
THEOREM GracefulExitQuiescentHolds == Spec => []GracefulExitQuiescent
<1>1. IInvExit => GracefulExitQuiescent
  BY DEF IInvExit, IInvRuns, IInvEngines, RunningInWait, ExitDrained,
         GracefulExitQuiescent
<1>2. QED
  BY <1>1, IInvExitInit, IInvExitStep, PTL DEF Spec

=============================================================================

------------------------- MODULE OrchestratorProofs -------------------------
(***************************************************************************)
(* Proofs about Orchestrator for every value of the constants: the type    *)
(* invariant, and that the capture engines running at any instant belong   *)
(* to a single execution that is still inside start().                     *)
(***************************************************************************)
EXTENDS Orchestrator, FiniteSetTheorems, TLAPS

USE ConstantsAssumption

\* The jlog line appended by any goroutine is a log entry.
LEMMA LineType ==
    ASSUME TypeOK, NEW e \in Events, NEW r \in {0} \cup Runs
    PROVE  Append(log, Line(e, r)) \in Seq(Entry)
<1>1. Line(e, r) \in Entry
  BY DEF TypeOK, Line, Entry
<1>2. QED
  BY <1>1 DEF TypeOK

\* The engines and the deadline start() sets up are well typed.
LEMMA StartTasksType ==
    ASSUME TypeOK, NEW r \in Runs, NEW n \in 0..MaxTasks, StartTasks(r, n)
    PROVE  /\ eng' \in [Runs -> [Tasks -> EngPC]]
           /\ deadline' \in [Runs -> {"none", "armed", "fired"}]
BY DEF TypeOK, StartTasks, EngPC

\* The initial state of main() is well typed.
LEMMA InitTypeOK == Init => TypeOK
<1>1. Init => log \in Seq(Entry)
  BY DEF Init
<1>2. Init => /\ rpc \in [Runs -> RunPC]
              /\ rctx \in [Runs -> {NoCtx, NilID} \cup Runs]
              /\ deadline \in [Runs -> {"none", "armed", "fired"}]
              /\ eng \in [Runs -> [Tasks -> EngPC]]
  BY DEF Init, RunPC, EngPC
<1>3. Init => /\ fires \in 0..MaxFires
              /\ ntasks \in 0..MaxTasks
              /\ xid \in {NilID} \cup Runs
              /\ jid \in {NilID, JobID}
  BY DEF Init, NilID
<1>4. Init => /\ mpc \in MainPC
              /\ exitCode \in 0..3
              /\ timezone \in {"requested", "UTC"}
              /\ tzLogged \in {"none", "requested", "UTC"}
  BY DEF Init, MainPC
<1>5. Init => /\ sched \in {"none", "created", "started", "stopped",
                            "shutdown"}
              /\ sjob \in BOOLEAN
              /\ jobs \subseteq {JobID}
              /\ cancelled \in BOOLEAN
              /\ sig \in {"none", "pending", "handled"}
  BY DEF Init
<1>6. QED
  BY <1>1, <1>2, <1>3, <1>4, <1>5 DEF TypeOK

\* Every step of main(), of the signal handler, of a trigger or of an
\* execution keeps the state well typed.
LEMMA NextTypeOK == TypeOK /\ [Next]_vars => TypeOK'
<1> SUFFICES ASSUME TypeOK, [Next]_vars PROVE TypeOK'
  OBVIOUS
<1>1. CASE CreateTasks
  <2>1. PICK n \in 0..MaxTasks :
           /\ ntasks' = n
           /\ \/ /\ n = 0
                 /\ mpc' = "exited" /\ exitCode' = 1
                 /\ UNCHANGED runVars
              \/ /\ n > 0 /\ UseCron
                 /\ mpc' = "tz"
                 /\ UNCHANGED <<exitCode, runVars>>
              \/ /\ n > 0 /\ ~UseCron
                 /\ mpc' = "oneshot"
                 /\ rpc' = [rpc EXCEPT ![1] = "wait"]
                 /\ rctx' = [rctx EXCEPT ![1] = NilID]
                 /\ StartTasks(1, n)
                 /\ UNCHANGED exitCode
    BY <1>1 DEF CreateTasks
  <2>2. 1 \in Runs
    BY DEF Runs
  <2>3. UNCHANGED <<timezone, tzLogged, sched, sjob, jid, xid, jobs,
                    cancelled, sig, fires, log>>
    BY <1>1 DEF CreateTasks
  <2>4. CASE n > 0 /\ ~UseCron
    <3>1. /\ mpc' = "oneshot"
          /\ rpc' = [rpc EXCEPT ![1] = "wait"]
          /\ rctx' = [rctx EXCEPT ![1] = NilID]
          /\ StartTasks(1, n)
          /\ UNCHANGED exitCode
      BY <2>1, <2>4
    <3>2. /\ eng' \in [Runs -> [Tasks -> EngPC]]
          /\ deadline' \in [Runs -> {"none", "armed", "fired"}]
      BY <2>1, <2>2, <3>1, StartTasksType
    <3>3. /\ rpc' \in [Runs -> RunPC]
          /\ rctx' \in [Runs -> {NoCtx, NilID} \cup Runs]
      BY <2>2, <3>1 DEF TypeOK, RunPC, NilID
    <3>4. /\ mpc' \in MainPC
          /\ ntasks' \in 0..MaxTasks
          /\ exitCode' \in 0..3
      BY <2>1, <3>1 DEF TypeOK, MainPC
    <3>5. QED
      BY <2>3, <3>2, <3>3, <3>4 DEF TypeOK
  <2>5. QED
    BY <2>1, <2>3, <2>4 DEF TypeOK, runVars, MainPC
<1>2. CASE OneShotExit
  BY <1>2 DEF OneShotExit, TypeOK, runVars, MainPC
<1>3. CASE LoadLocation
  BY <1>3 DEF LoadLocation, TypeOK, runVars, MainPC
<1>4. CASE NewScheduler
  BY <1>4 DEF NewScheduler, TypeOK, runVars, MainPC
<1>5. CASE NewJob
  <2>1. sjob' \in BOOLEAN
    BY <1>5, Zenon DEF NewJob, TypeOK
  <2>2. QED
    BY <1>5, <2>1 DEF NewJob, TypeOK, runVars, MainPC
<1>6. CASE Register
  BY <1>6 DEF Register, TypeOK, runVars, MainPC, JobID
<1>7. CASE StartScheduler
  BY <1>7 DEF StartScheduler, TypeOK, runVars, MainPC
<1>8. CASE NotifySignals
  BY <1>8 DEF NotifySignals, TypeOK, runVars, MainPC
<1>9. CASE MainWakes
  BY <1>9 DEF MainWakes, TypeOK, runVars, MainPC
<1>10. CASE StopJobs
  BY <1>10 DEF StopJobs, TypeOK, runVars, MainPC
<1>11. CASE StopJobsDone
  BY <1>11 DEF StopJobsDone, TypeOK, runVars, MainPC
<1>12. CASE RemoveJob
  BY <1>12 DEF RemoveJob, TypeOK, runVars, MainPC
<1>13. CASE Shutdown
  BY <1>13 DEF Shutdown, TypeOK, runVars, MainPC
<1>14. CASE SignalCaught
  BY <1>14 DEF SignalCaught, TypeOK, runVars, mainVars
<1>15. CASE SignalKills
  BY <1>15 DEF SignalKills, TypeOK, runVars, MainPC
<1>16. CASE HandleSignal
  <2>1. log' \in Seq(Entry)
    BY <1>16, LineType DEF HandleSignal, Events
  <2>2. cancelled' \in BOOLEAN
    BY <1>16, Zenon DEF HandleSignal
  <2>3. QED
    BY <1>16, <2>1, <2>2 DEF HandleSignal, TypeOK, runVars, mainVars
<1>17. CASE FireStart
  <2>1. fires + 1 \in Runs
    BY <1>17 DEF FireStart, TypeOK, Runs
  <2>2. QED
    BY <1>17, <2>1 DEF FireStart, TypeOK, mainVars, RunPC
<1>18. CASE FireSkip
  BY <1>18 DEF FireSkip, TypeOK, runVars, mainVars
<1>19. ASSUME NEW r \in Runs, RunStep(r) PROVE TypeOK'
  <2>1. CASE BeforeRun(r)
    <3>1. Append(log, Line("started", r)) \in Seq(Entry)
      BY LineType DEF Events
    <3>2. log' \in Seq(Entry)
      BY <2>1, <3>1 DEF BeforeRun, TypeOK
    <3>3. QED
      BY <2>1, <3>2 DEF BeforeRun, TypeOK, mainVars, RunPC
  <2>2. CASE Tcpdump(r)
    <3>1. CASE jid \in jobs
      <4>1. ntasks \in 0..MaxTasks
        BY DEF TypeOK
      <4>2. QED
        BY <2>2, <3>1, <4>1, StartTasksType
           DEF Tcpdump, TypeOK, mainVars, RunPC
    <3>2. CASE jid \notin jobs
      <4>1. Append(log, Line("notfound", r)) \in Seq(Entry)
        BY LineType DEF Events
      <4>2. log' \in Seq(Entry)
        BY <2>2, <3>2, <4>1 DEF Tcpdump
      <4>3. QED
        BY <2>2, <3>2, <4>2 DEF Tcpdump, TypeOK, mainVars, RunPC
    <3>3. QED
      BY <3>1, <3>2
  <2>3. CASE Deadline(r)
    BY <2>3 DEF Deadline, TypeOK, mainVars
  <2>4. CASE StartReturns(r)
    BY <2>4 DEF StartReturns, TypeOK, mainVars, RunPC
  <2>5. CASE AfterRun(r)
    <3>1. Append(log, Line("complete", r)) \in Seq(Entry)
      BY LineType DEF Events
    <3>2. log' \in Seq(Entry)
      BY <2>5, <3>1 DEF AfterRun, TypeOK
    <3>3. QED
      BY <2>5, <3>2 DEF AfterRun, TypeOK, mainVars, RunPC
  <2>6. CASE \E t \in Tasks : EngineStops(r, t)
    BY <2>6 DEF EngineStops, TypeOK, mainVars, EngPC
  <2>7. QED
    BY <1>19, <2>1, <2>2, <2>3, <2>4, <2>5, <2>6 DEF RunStep
<1>20. CASE \E r \in Runs, t \in Tasks : EngineEnds(r, t)
  BY <1>20 DEF EngineEnds, TypeOK, mainVars, EngPC
<1>21. CASE Terminated
  BY <1>21 DEF Terminated, TypeOK, vars
<1>22. CASE UNCHANGED vars
  BY <1>22 DEF TypeOK, vars
<1>23. QED
  BY <1>1, <1>2, <1>3, <1>4, <1>5, <1>6, <1>7, <1>8, <1>9, <1>10, <1>11,
     <1>12, <1>13, <1>14, <1>15, <1>16, <1>17, <1>18, <1>19, <1>20, <1>21,
     <1>22
     DEF Next, MainStep

\* Every reachable state is well typed.
THEOREM TypeCorrect == Spec => []TypeOK
<1>1. Init => TypeOK
  BY InitTypeOK
<1>2. TypeOK /\ [Next]_vars => TypeOK'
  BY NextTypeOK
<1>3. QED
  BY <1>1, <1>2, PTL DEF Spec

-----------------------------------------------------------------------------
(* EnginesOfOneExecution.  It is not inductive by itself: a trigger could   *)
(* start a run while another run's engines still capture, unless one knows  *)
(* that gocron has at most one run in flight (SingleActive), that engines   *)
(* capture only inside start() (RunningInWait), and that nothing is in      *)
(* flight before createTasks returns (InitQuiet).                           *)

\* A step that puts no run in flight keeps at most one run in flight.
LEMMA SingleActiveShrinks ==
    ASSUME SingleActive, Active' \subseteq Active
    PROVE  SingleActive'
BY DEF SingleActive

\* A step of main(), the signal path, a skipped trigger or a deadline moves
\* no run and no engine; leaving "init" is its only effect on InitQuiet.
LEMMA QuietStep ==
    ASSUME IInvEngines, TypeOK', UNCHANGED <<rpc, eng>>,
           mpc' = "init" => mpc = "init" /\ sched' = sched
    PROVE  IInvEngines'
BY DEF IInvEngines, SingleActive, RunningInWait, InitQuiet, Active

\* The initial state satisfies the inductive invariant.
LEMMA IInvInit == Init => IInvEngines
<1> SUFFICES ASSUME Init PROVE IInvEngines
  OBVIOUS
<1>1. Active = {}
  BY DEF Init, Active
<1>2. \A r \in Runs, t \in Tasks : eng[r][t] = "idle"
  BY DEF Init
<1>3. QED
  BY <1>1, <1>2, InitTypeOK
     DEF IInvEngines, SingleActive, RunningInWait, InitQuiet, Init

\* Every step preserves the inductive invariant.
LEMMA IInvStep == IInvEngines /\ [Next]_vars => IInvEngines'
<1> SUFFICES ASSUME IInvEngines, [Next]_vars PROVE IInvEngines'
  OBVIOUS
<1>0. TypeOK /\ TypeOK'
  BY NextTypeOK DEF IInvEngines
<1> USE DEF IInvEngines
<1>1. CASE CreateTasks
  <2>1. PICK n \in 0..MaxTasks :
           /\ ntasks' = n
           /\ \/ /\ n = 0
                 /\ UNCHANGED runVars
              \/ /\ n > 0 /\ UseCron
                 /\ UNCHANGED runVars
              \/ /\ n > 0 /\ ~UseCron
                 /\ mpc' = "oneshot"
                 /\ rpc' = [rpc EXCEPT ![1] = "wait"]
                 /\ StartTasks(1, n)
    BY <1>1 DEF CreateTasks
  <2>2. Active = {} /\ mpc' # "init"
    BY <1>1 DEF CreateTasks, InitQuiet
  <2>3. CASE UNCHANGED runVars
    BY <1>0, <2>2, <2>3, QuietStep DEF runVars
  <2>4. CASE mpc' = "oneshot" /\ rpc' = [rpc EXCEPT ![1] = "wait"]
             /\ StartTasks(1, n)
    <3>1. 1 \in Runs
      BY DEF Runs
    <3>2. Active' \subseteq {1}
      BY <1>0, <2>2, <2>4 DEF Active, TypeOK
    <3>3. SingleActive'
      BY <3>2 DEF SingleActive
    <3>4. ASSUME NEW r \in Runs, NEW t \in Tasks, eng'[r][t] = "running"
          PROVE  rpc'[r] = "wait"
      <4>1. CASE r = 1
        BY <1>0, <2>4, <3>1, <4>1 DEF TypeOK
      <4>2. CASE r # 1
        <5>1. eng[r][t] = "running"
          BY <2>4, <3>4, <4>2 DEF StartTasks
        <5>2. r \in Active
          BY <5>1 DEF RunningInWait, Active
        <5>3. QED
          BY <2>2, <5>2
      <4>3. QED
        BY <4>1, <4>2
    <3>5. QED
      BY <1>0, <2>4, <3>3, <3>4 DEF RunningInWait, InitQuiet
  <2>5. QED
    BY <2>1, <2>3, <2>4
<1>2. CASE OneShotExit \/ LoadLocation \/ NewScheduler \/ NewJob
           \/ Register \/ StartScheduler \/ NotifySignals \/ MainWakes
           \/ StopJobs \/ StopJobsDone \/ RemoveJob \/ Shutdown
  <2>1. UNCHANGED <<rpc, eng>> /\ mpc' # "init"
    BY <1>2 DEF OneShotExit, LoadLocation, NewScheduler, NewJob, Register,
                StartScheduler, NotifySignals, MainWakes, StopJobs,
                StopJobsDone, RemoveJob, Shutdown, runVars
  <2>2. QED
    BY <1>0, <2>1, QuietStep
<1>3. CASE SignalCaught \/ SignalKills \/ HandleSignal \/ FireSkip
           \/ Terminated \/ UNCHANGED vars
  <2>1. UNCHANGED <<rpc, eng>>
    BY <1>3 DEF SignalCaught, SignalKills, HandleSignal, FireSkip,
                Terminated, vars, runVars
  <2>2. mpc' = "init" => mpc = "init" /\ sched' = sched
    BY <1>3 DEF SignalCaught, SignalKills, HandleSignal, FireSkip,
                Terminated, vars, mainVars
  <2>3. QED
    BY <1>0, <2>1, <2>2, QuietStep
<1>4. CASE FireStart
  <2>1. /\ Active = {} /\ sched = "started"
        /\ fires + 1 \in Runs
        /\ rpc' = [rpc EXCEPT ![fires + 1] = "before"]
        /\ UNCHANGED <<mpc, sched, eng>>
    BY <1>0, <1>4 DEF FireStart, TypeOK, Runs, mainVars
  <2>2. Active' \subseteq {fires + 1}
    BY <1>0, <2>1 DEF Active, TypeOK
  <2>3. \A r \in Runs, t \in Tasks : eng[r][t] # "running"
    BY <2>1 DEF RunningInWait, Active
  <2>4. QED
    BY <1>0, <2>1, <2>2, <2>3 DEF SingleActive, RunningInWait, InitQuiet
<1>5. ASSUME NEW r \in Runs, RunStep(r) PROVE IInvEngines'
  <2>1. UNCHANGED <<mpc, sched>>
    BY <1>5 DEF RunStep, BeforeRun, Tcpdump, Deadline, StartReturns,
                AfterRun, EngineStops, mainVars
  <2>2. CASE BeforeRun(r) \/ StartReturns(r) \/ AfterRun(r)
             \/ (Tcpdump(r) /\ jid \notin jobs) \/ Deadline(r)
    <3>1. /\ UNCHANGED eng
          /\ rpc[r] \in {"before", "tcpdump", "wait", "after"}
          /\ rpc' = [rpc EXCEPT ![r] = rpc'[r]]
          /\ rpc'[r] # "wait" => \A t \in Tasks : eng[r][t] # "running"
      BY <1>0, <2>2 DEF BeforeRun, StartReturns, AfterRun, Tcpdump, Deadline,
                        RunningInWait, TypeOK
    <3>2. Active' \subseteq Active
      BY <1>0, <3>1 DEF Active, TypeOK
    <3>3. QED
      BY <1>0, <2>1, <3>1, <3>2, SingleActiveShrinks
         DEF RunningInWait, InitQuiet, Active, TypeOK
  <2>3. CASE Tcpdump(r) /\ jid \in jobs
    <3>1. /\ rpc[r] = "tcpdump"
          /\ rpc' = [rpc EXCEPT ![r] = "wait"]
          /\ StartTasks(r, ntasks)
      BY <2>3 DEF Tcpdump
    <3>2. Active' = Active
      BY <1>0, <3>1 DEF Active, TypeOK
    <3>3. RunningInWait'
      BY <1>0, <3>1 DEF RunningInWait, StartTasks, TypeOK
    <3>4. QED
      BY <1>0, <2>1, <3>2, <3>3 DEF SingleActive, InitQuiet
  <2>4. CASE \E t \in Tasks : EngineStops(r, t)
    <3>1. PICK t \in Tasks : EngineStops(r, t)
      BY <2>4
    <3>2. /\ UNCHANGED rpc
          /\ eng' = [eng EXCEPT ![r][t] = "stopped"]
      BY <3>1 DEF EngineStops
    <3>3. QED
      BY <1>0, <2>1, <3>2 DEF SingleActive, RunningInWait, InitQuiet,
                             Active, TypeOK
  <2>5. QED
    BY <1>5, <2>2, <2>3, <2>4 DEF RunStep
<1>6. CASE \E r \in Runs, t \in Tasks : EngineEnds(r, t)
  <2>1. PICK r \in Runs, t \in Tasks : EngineEnds(r, t)
    BY <1>6
  <2>2. /\ UNCHANGED <<rpc, mpc, sched>>
        /\ eng' = [eng EXCEPT ![r][t] = "stopped"]
    BY <2>1 DEF EngineEnds, mainVars
  <2>3. QED
    BY <1>0, <2>2 DEF SingleActive, RunningInWait, InitQuiet, Active, TypeOK
<1>7. QED
  BY <1>1, <1>2, <1>3, <1>4, <1>5, <1>6 DEF Next, MainStep

\* The engines running at any instant belong to one execution, and that
\* execution is inside start(): the singleton mode of gocron's scheduler
\* and start()'s wg.Wait() never let two executions capture at once.
THEOREM EnginesOfOneExecutionHolds == Spec => []EnginesOfOneExecution
<1>1. IInvEngines => EnginesOfOneExecution
  <2> SUFFICES ASSUME IInvEngines PROVE EnginesOfOneExecution
    OBVIOUS
  <2> DEFINE capturing == {r \in Runs : \E t \in Tasks : eng[r][t] = "running"}
  <2>1. capturing \subseteq Active
    BY DEF IInvEngines, RunningInWait, Active
  <2>2. \A r \in capturing : rpc[r] = "wait"
    BY DEF IInvEngines, RunningInWait
  <2>3. Cardinality(capturing) <= 1
    <3>1. CASE capturing = {}
      BY <3>1, FS_EmptySet
    <3>2. CASE capturing # {}
      <4>1. PICK r0 \in capturing : TRUE
        BY <3>2
      <4>2. capturing = {r0}
        BY <2>1, <4>1 DEF IInvEngines, SingleActive
      <4>3. Cardinality({r0}) = 1
        BY FS_Singleton
      <4>4. QED
        BY <4>2, <4>3
    <3>3. QED
      BY <3>1, <3>2
  <2>4. QED
    BY <2>2, <2>3 DEF EnginesOfOneExecution
<1>2. QED
  BY <1>1, IInvInit, IInvStep, PTL DEF Spec

=============================================================================

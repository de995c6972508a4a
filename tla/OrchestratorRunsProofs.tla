----------------------- MODULE OrchestratorRunsProofs -----------------------
(***************************************************************************)
(* Proofs, for every value of the constants, that every scheduled run     *)
(* finds its job, runs under an execution id of its own and logs its      *)
(* completion with that id, and that the scheduled mode implements the    *)
(* SingleFlight job state machine.  All rest on the inductive invariant   *)
(* IInvRuns of Orchestrator.                                              *)
(***************************************************************************)
EXTENDS OrchestratorProofs

USE ConstantsAssumption

\* A step that moves no run, mints no id and logs nothing keeps the run
\* conjuncts of the invariant.
LEMMA RunsUntouched ==
    ASSUME RunIds, CompleteLogged, UNCHANGED <<rpc, rctx, xid, log>>
    PROVE  RunIds' /\ CompleteLogged'
BY DEF RunIds, CompleteLogged

\* The initial state satisfies IInvRuns.
LEMMA IInvRunsInit == Init => IInvRuns
<1> SUFFICES ASSUME Init PROVE IInvRuns
  OBVIOUS
<1>1. IInvEngines
  BY IInvInit
<1>2. Active = {}
  BY DEF Init, Active
<1>3. MainOrder
  BY <1>2 DEF Init, MainOrder, Alive
<1>4. ScheduledRuns
  BY <1>2 DEF Init, ScheduledRuns
<1>5. RunIds /\ CompleteLogged
  BY DEF Init, RunIds, CompleteLogged
<1>6. QED
  BY <1>1, <1>3, <1>4, <1>5 DEF IInvRuns

\* A jlog line that is not "job not found", and that names a finished run
\* stamped with that run's id if it says "execution complete", keeps
\* CompleteLogged, provided no finished run changes.
LEMMA CompleteKept ==
    ASSUME log \in Seq(Entry), CompleteLogged,
           NEW x,
           x.ev # "notfound",
           x.ev = "complete" => /\ x.run \in Runs /\ rpc'[x.run] = "done"
                                /\ x.xid = x.run /\ rctx'[x.run] = x.run,
           log' = log \/ log' = Append(log, x),
           \A q \in Runs : rpc[q] = "done" => rpc'[q] = "done" /\ rctx'[q] = rctx[q]
    PROVE  CompleteLogged'
<1>1. CASE log' = log
  BY <1>1 DEF CompleteLogged, Entry
<1>2. CASE log' = Append(log, x)
  <2> SUFFICES ASSUME NEW i \in DOMAIN log'
               PROVE  /\ log'[i].ev # "notfound"
                      /\ log'[i].ev = "complete" =>
                            /\ log'[i].run \in Runs /\ rpc'[log'[i].run] = "done"
                            /\ log'[i].xid = log'[i].run
                            /\ rctx'[log'[i].run] = log'[i].run
    BY DEF CompleteLogged
  <2>1. DOMAIN log' = 1..(Len(log) + 1)
    BY <1>2
  <2>2. CASE i \in 1..Len(log)
    <3>1. log'[i] = log[i] /\ i \in DOMAIN log
      BY <1>2, <2>2
    <3>2. /\ log[i].ev # "notfound"
          /\ log[i].ev = "complete" =>
                /\ log[i].run \in Runs /\ rpc[log[i].run] = "done"
                /\ log[i].xid = log[i].run /\ rctx[log[i].run] = log[i].run
      BY <3>1 DEF CompleteLogged
    <3>3. QED
      BY <3>1, <3>2
  <2>3. CASE i = Len(log) + 1
    BY <1>2, <2>3
  <2>4. QED
    BY <2>1, <2>2, <2>3
<1>3. QED
  BY <1>1, <1>2

\* A step that keeps the log and every finished run keeps CompleteLogged.
LEMMA CompleteSame ==
    ASSUME CompleteLogged, log' = log,
           \A q \in Runs : rpc[q] = "done" => rpc'[q] = "done" /\ rctx'[q] = rctx[q]
    PROVE  CompleteLogged'
BY DEF CompleteLogged

\* Every step preserves IInvRuns.
LEMMA IInvRunsStep == IInvRuns /\ [Next]_vars => IInvRuns'
<1> SUFFICES ASSUME IInvRuns, [Next]_vars PROVE IInvRuns'
  OBVIOUS
<1>0. /\ IInvEngines'
      /\ SingleActive /\ InitQuiet
      /\ MainOrder /\ ScheduledRuns /\ RunIds /\ CompleteLogged
  BY IInvStep DEF IInvRuns, IInvEngines
<1>T. /\ mpc \in MainPC
      /\ sched \in {"none", "created", "started", "stopped", "shutdown"}
      /\ fires \in 0..MaxFires
      /\ rpc \in [Runs -> RunPC]
      /\ rctx \in [Runs -> {NoCtx, NilID} \cup Runs]
      /\ log \in Seq(Entry)
  BY DEF IInvRuns, IInvEngines, TypeOK
<1> SUFFICES MainOrder' /\ ScheduledRuns' /\ RunIds' /\ CompleteLogged'
  BY <1>0 DEF IInvRuns
\* A run in flight belongs to the started or stopping scheduler, or is the
\* unscheduled start().
<1>A. Alive /\ Active # {} =>
         \/ UseCron /\ sjob /\ sched \in {"started", "stopped"}
         \/ ~UseCron /\ mpc = "oneshot"
  <2> SUFFICES ASSUME Alive, NEW r0 \in Active
               PROVE  \/ UseCron /\ sjob /\ sched \in {"started", "stopped"}
                      \/ ~UseCron /\ mpc = "oneshot"
    OBVIOUS
  <2>1. CASE UseCron
    BY <1>0, <2>1 DEF ScheduledRuns
  <2>2. CASE ~UseCron
    <3>1. mpc \in {"init", "oneshot"}
      BY <1>0, <2>2 DEF MainOrder, Alive
    <3>2. mpc # "init"
      BY <1>0 DEF InitQuiet
    <3>3. QED
      BY <2>2, <3>1, <3>2
  <2>3. QED
    BY <2>1, <2>2
\* A main-goroutine step that leaves the runs alone keeps RunIds and
\* CompleteLogged, and the set of runs in flight.
<1>M. ASSUME UNCHANGED <<rpc, rctx, xid, log, fires>>
      PROVE  /\ RunIds' /\ CompleteLogged' /\ Active' = Active
             /\ (UseCron => \A r \in Runs : rpc'[r] # "none" => r <= fires')
             /\ (~UseCron => \A r \in Runs : rpc'[r] \in {"none", "wait", "done"})
  <2>1. RunIds' /\ CompleteLogged'
    BY <1>0, <1>M, RunsUntouched
  <2>2. Active' = Active
    BY <1>M DEF Active
  <2>3. QED
    BY <1>0, <1>M, <2>1, <2>2 DEF ScheduledRuns
<1>1. CASE CreateTasks
  <2>1. /\ mpc = "init" /\ Active = {} /\ sched = "none" /\ log = <<>>
        /\ UNCHANGED <<sched, sjob, jid, jobs, xid, fires, log, sig>>
    BY <1>0, <1>1 DEF CreateTasks, InitQuiet, MainOrder
  <2>2. ~sjob /\ jid = NilID
    BY <1>0, <2>1 DEF MainOrder
  <2>3. PICK n \in 0..MaxTasks :
           \/ n = 0 /\ mpc' = "exited" /\ UNCHANGED runVars
           \/ n > 0 /\ UseCron /\ mpc' = "tz" /\ UNCHANGED runVars
           \/ /\ n > 0 /\ ~UseCron /\ mpc' = "oneshot"
              /\ rpc' = [rpc EXCEPT ![1] = "wait"]
    BY <1>1 DEF CreateTasks
  <2>4. CASE n = 0 \/ UseCron
    <3>1. UNCHANGED runVars /\ mpc' \in {"exited", "tz"}
          /\ (mpc' = "tz" => UseCron)
      BY <2>3, <2>4
    <3>2. /\ RunIds' /\ CompleteLogged' /\ Active' = Active
          /\ (UseCron => \A r \in Runs : rpc'[r] # "none" => r <= fires')
          /\ (~UseCron => \A r \in Runs : rpc'[r] \in {"none", "wait", "done"})
      BY <1>M, <2>1, <3>1 DEF runVars
    <3>3. MainOrder'
      BY <2>1, <2>2, <3>1, <3>2 DEF MainOrder, Alive
    <3>4. ScheduledRuns'
      BY <2>1, <2>2, <3>2 DEF ScheduledRuns
    <3>5. QED
      BY <3>2, <3>3, <3>4
  <2>5. CASE n # 0 /\ ~UseCron
    <3>1. mpc' = "oneshot" /\ rpc' = [rpc EXCEPT ![1] = "wait"]
      BY <2>3, <2>5
    <3>2. RunIds' /\ CompleteLogged'
      BY <2>1, <2>5 DEF RunIds, CompleteLogged
    <3>3. MainOrder'
      BY <2>1, <2>2, <2>5, <3>1 DEF MainOrder, Alive
    <3>4. ScheduledRuns'
      BY <1>0, <1>T, <2>1, <2>2, <2>5, <3>1 DEF ScheduledRuns, Runs
    <3>5. QED
      BY <3>2, <3>3, <3>4
  <2>6. QED
    BY <2>4, <2>5
<1>2. CASE OneShotExit
  <2>1. UNCHANGED <<rpc, rctx, xid, log, fires, sched, sjob, jid, jobs>>
        /\ mpc = "oneshot" /\ mpc' = "exited"
    BY <1>2 DEF OneShotExit, runVars
  <2>2. QED
    BY <1>0, <1>M, <2>1 DEF MainOrder, ScheduledRuns, Alive, Registered
<1>3. CASE LoadLocation
  <2>1. UNCHANGED <<rpc, rctx, xid, log, fires, sched, sjob, jid, jobs>>
        /\ mpc = "tz" /\ mpc' = "newsched"
    BY <1>3 DEF LoadLocation, runVars
  <2>2. QED
    BY <1>0, <1>M, <2>1 DEF MainOrder, ScheduledRuns, Alive, Registered
<1>4. CASE NewScheduler
  <2>1. UNCHANGED <<rpc, rctx, xid, log, fires, sjob, jid, jobs>>
        /\ mpc = "newsched"
        /\ \/ sched' = "created" /\ mpc' = "newjob"
           \/ mpc' = "exited" /\ UNCHANGED sched
    BY <1>4 DEF NewScheduler, runVars
  <2>2. sched = "none" /\ ~sjob /\ jid = NilID /\ UseCron
    BY <1>0, <2>1 DEF MainOrder, Alive
  <2>3. Active = {}
    BY <1>A, <2>1, <2>2 DEF Alive
  <2>4. MainOrder'
    BY <1>0, <1>M, <2>1, <2>2, <2>3 DEF MainOrder, Alive, Registered
  <2>5. ScheduledRuns'
    BY <1>0, <1>M, <2>1, <2>2, <2>3 DEF ScheduledRuns, Registered
  <2>6. QED
    BY <1>M, <2>1, <2>4, <2>5
<1>5. CASE NewJob
  <2>1. UNCHANGED <<rpc, rctx, xid, log, fires, jid, jobs>>
        /\ mpc = "newjob"
        /\ \/ sjob' = TRUE /\ mpc' = "register" /\ UNCHANGED sched
           \/ sched' = "shutdown" /\ mpc' = "exited" /\ UNCHANGED sjob
    BY <1>5 DEF NewJob, runVars
  <2>2. sched = "created" /\ ~sjob /\ jid = NilID /\ UseCron
    BY <1>0, <2>1 DEF MainOrder, Alive
  <2>3. Active = {}
    BY <1>A, <2>1, <2>2 DEF Alive
  <2>4. MainOrder'
    BY <1>0, <1>M, <2>1, <2>2, <2>3 DEF MainOrder, Alive, Registered
  <2>5. ScheduledRuns'
    BY <1>0, <1>M, <2>1, <2>2, <2>3 DEF ScheduledRuns, Registered
  <2>6. QED
    BY <1>M, <2>1, <2>4, <2>5
<1>6. CASE Register
  <2>1. UNCHANGED <<rpc, rctx, xid, log, fires, sched, sjob>>
        /\ mpc = "register" /\ mpc' = "start"
        /\ jid' = JobID /\ jobs' = jobs \cup {JobID}
    BY <1>6 DEF Register, runVars
  <2>2. sched = "created" /\ sjob /\ UseCron
    BY <1>0, <2>1 DEF MainOrder, Alive
  <2>3. Active = {}
    BY <1>A, <2>1, <2>2 DEF Alive
  <2>4. MainOrder'
    BY <1>0, <1>M, <2>1, <2>2, <2>3 DEF MainOrder, Alive, Registered
  <2>5. ScheduledRuns'
    BY <1>0, <1>M, <2>1, <2>2, <2>3 DEF ScheduledRuns, Registered
  <2>6. QED
    BY <1>M, <2>1, <2>4, <2>5
<1>7. CASE StartScheduler
  <2>1. UNCHANGED <<rpc, rctx, xid, log, fires, sjob, jid, jobs>>
        /\ mpc = "start" /\ mpc' = "notify" /\ sched' = "started"
    BY <1>7 DEF StartScheduler, runVars
  <2>2. sched = "created" /\ sjob /\ UseCron /\ Registered
    BY <1>0, <2>1 DEF MainOrder, Alive
  <2>3. Active = {}
    BY <1>A, <2>1, <2>2 DEF Alive
  <2>4. MainOrder'
    BY <1>0, <1>M, <2>1, <2>2, <2>3 DEF MainOrder, Alive, Registered
  <2>5. ScheduledRuns'
    BY <1>0, <1>M, <2>1, <2>2, <2>3 DEF ScheduledRuns, Registered
  <2>6. QED
    BY <1>M, <2>1, <2>4, <2>5
<1>8. CASE NotifySignals \/ MainWakes
  <2>1. UNCHANGED <<rpc, rctx, xid, log, fires, sched, sjob, jid, jobs>>
        /\ \/ mpc = "notify" /\ mpc' = "wait"
           \/ mpc = "wait" /\ mpc' = "stopjobs"
    BY <1>8 DEF NotifySignals, MainWakes, runVars
  <2>2. QED
    BY <1>0, <1>M, <2>1 DEF MainOrder, ScheduledRuns, Alive, Registered
<1>9. CASE StopJobs
  <2>1. UNCHANGED <<rpc, rctx, xid, log, fires, sjob, jid, jobs>>
        /\ mpc = "stopjobs" /\ mpc' = "stopwait" /\ sched' = "stopped"
    BY <1>9 DEF StopJobs, runVars
  <2>2. sched = "started" /\ sjob /\ UseCron /\ Registered
    BY <1>0, <2>1 DEF MainOrder, Alive
  <2>3. MainOrder'
    BY <1>0, <1>M, <2>1, <2>2 DEF MainOrder, Alive, Registered
  <2>4. ScheduledRuns'
    BY <1>0, <1>M, <2>1, <2>2 DEF ScheduledRuns, Registered
  <2>5. QED
    BY <1>M, <2>1, <2>3, <2>4
<1>10. CASE StopJobsDone
  <2>1. UNCHANGED <<rpc, rctx, xid, log, fires, sched, sjob, jid, jobs>>
        /\ mpc = "stopwait" /\ mpc' = "remove" /\ Active = {}
    BY <1>10 DEF StopJobsDone, runVars
  <2>2. QED
    BY <1>0, <1>M, <2>1 DEF MainOrder, ScheduledRuns, Alive, Registered
<1>11. CASE RemoveJob
  <2>1. UNCHANGED <<rpc, rctx, xid, log, fires, sched, jid, jobs>>
        /\ mpc = "remove" /\ mpc' = "shutdown" /\ sjob' = FALSE
    BY <1>11 DEF RemoveJob, runVars
  <2>2. Active = {} /\ sched = "stopped" /\ Registered
    BY <1>0, <2>1 DEF MainOrder
  <2>3. QED
    BY <1>0, <1>M, <2>1, <2>2 DEF MainOrder, ScheduledRuns, Alive, Registered
<1>12. CASE Shutdown
  <2>1. UNCHANGED <<rpc, rctx, xid, log, fires, sjob, jid, jobs>>
        /\ mpc = "shutdown" /\ mpc' = "exited" /\ sched' = "shutdown"
    BY <1>12 DEF Shutdown, runVars
  <2>2. Active = {}
    BY <1>0, <2>1 DEF MainOrder
  <2>3. QED
    BY <1>0, <1>M, <2>1, <2>2 DEF MainOrder, ScheduledRuns, Alive, Registered
<1>13. CASE SignalCaught \/ FireSkip
  <2>1. UNCHANGED <<rpc, rctx, xid, log, mpc, sched, sjob, jid, jobs>>
        /\ fires' \in {fires, fires + 1}
    BY <1>13 DEF SignalCaught, FireSkip, runVars, mainVars
  <2>2. /\ RunIds' /\ CompleteLogged' /\ Active' = Active
    BY <1>0, <2>1, RunsUntouched DEF Active
  <2>3. mpc # "init"
    <3>1. CASE SignalCaught
      BY <3>1 DEF SignalCaught, HandlerInstalled
    <3>2. CASE FireSkip
      BY <1>0, <3>2 DEF FireSkip, MainOrder
    <3>3. QED
      BY <1>13, <3>1, <3>2
  <2>4. MainOrder'
    BY <1>0, <2>1, <2>2, <2>3 DEF MainOrder, Alive, Registered
  <2>5. ScheduledRuns'
    BY <1>0, <1>T, <2>1, <2>2 DEF ScheduledRuns, Registered
  <2>6. QED
    BY <2>2, <2>4, <2>5
<1>14. CASE SignalKills
  <2>1. UNCHANGED <<rpc, rctx, xid, log, fires, sched, sjob, jid, jobs>>
        /\ mpc' = "killed"
    BY <1>14 DEF SignalKills, runVars
  <2>2. QED
    BY <1>0, <1>M, <2>1 DEF MainOrder, ScheduledRuns, Alive, Registered
<1>15. CASE Terminated \/ UNCHANGED vars
  <2>1. UNCHANGED <<rpc, rctx, xid, log, fires, mpc, sched, sjob, jid, jobs,
                    sig>>
    BY <1>15 DEF Terminated, vars
  <2>2. QED
    BY <1>0, <1>M, <2>1 DEF MainOrder, ScheduledRuns, Alive, Registered
<1>16. CASE HandleSignal
  <2>1. UNCHANGED <<rpc, rctx, xid, fires, sched, sjob, jid, jobs, mpc>>
        /\ sig = "pending"
        /\ log' = Append(log, Line("signaled", 0))
    BY <1>16 DEF HandleSignal, runVars, mainVars
  <2>2. mpc # "init"
    BY <1>0, <2>1 DEF MainOrder
  <2>3. CompleteLogged'
    <3>1. \A i \in DOMAIN log' :
             log'[i] = IF i \in DOMAIN log THEN log[i] ELSE Line("signaled", 0)
      BY <1>T, <2>1
    <3>2. Line("signaled", 0).ev = "signaled"
      BY DEF Line
    <3>3. QED
      BY <1>0, <1>T, <2>1, <3>1, <3>2 DEF CompleteLogged
  <2>4. RunIds' /\ Active' = Active
    BY <1>0, <2>1 DEF RunIds, Active
  <2>5. MainOrder'
    BY <1>0, <2>1, <2>2, <2>4 DEF MainOrder, Alive, Registered
  <2>6. ScheduledRuns'
    BY <1>0, <2>1, <2>4 DEF ScheduledRuns, Registered
  <2>7. QED
    BY <2>3, <2>4, <2>5, <2>6
<1>17. CASE FireStart
  <2> DEFINE k == fires + 1
  <2>1. /\ Alive /\ sched = "started" /\ sjob /\ Active = {}
        /\ fires < MaxFires /\ fires' = k
        /\ rpc' = [rpc EXCEPT ![k] = "before"]
        /\ UNCHANGED <<mpc, sched, sjob, jid, jobs, xid, rctx, log, sig>>
    BY <1>17 DEF FireStart, mainVars
  <2>2. UseCron /\ mpc \in {"notify", "wait", "stopjobs"} /\ Registered
    BY <1>0, <1>T, <2>1 DEF MainOrder, MainPC, Alive
  <2>3. k \in Runs /\ rpc[k] = "none"
    BY <1>0, <1>T, <2>1, <2>2 DEF ScheduledRuns, Runs
  <2>4. Active' = {k}
    BY <1>T, <2>1, <2>3 DEF Active
  <2>5. MainOrder'
    BY <1>0, <2>1, <2>2, <2>4 DEF MainOrder, Alive, Registered
  <2>6. ScheduledRuns'
    BY <1>0, <1>T, <2>1, <2>2, <2>3, <2>4 DEF ScheduledRuns, Registered
  <2>7. RunIds'
    BY <1>0, <1>T, <2>1, <2>2, <2>3 DEF RunIds
  <2>8. CompleteLogged'
    BY <1>0, <1>T, <2>1, <2>3 DEF CompleteLogged
  <2>9. QED
    BY <2>5, <2>6, <2>7, <2>8
<1>18. ASSUME NEW r \in Runs, RunStep(r)
       PROVE  MainOrder' /\ ScheduledRuns' /\ RunIds' /\ CompleteLogged'
  <2>0. UNCHANGED <<mpc, sched, sjob, jid, jobs, fires, sig>>
    BY <1>18 DEF RunStep, BeforeRun, Tcpdump, Deadline, StartReturns,
                 AfterRun, EngineStops, mainVars
  \* Once the step keeps the runs in flight, or only ends one, main's
  \* order and the scheduling facts carry over.
  <2>K. ASSUME Active' \subseteq Active,
               \A q \in Runs : rpc[q] # "none" => rpc'[q] # "none" \/ q = r,
               \A q \in Runs : rpc'[q] # "none" => rpc[q] # "none",
               mpc = "init" => log' = log,
               UseCron \/ \A q \in Runs : rpc'[q] \in {"none", "wait", "done"}
        PROVE  MainOrder' /\ ScheduledRuns'
    <3>1. MainOrder'
      BY <1>0, <2>0, <2>K DEF MainOrder, Alive, Registered
    <3>2. ScheduledRuns'
      BY <1>0, <2>0, <2>K DEF ScheduledRuns, Registered
    <3>3. QED
      BY <3>1, <3>2
  <2>1. CASE BeforeRun(r)
    <3>1. /\ Alive /\ rpc[r] = "before"
          /\ rpc' = [rpc EXCEPT ![r] = "tcpdump"]
          /\ xid' = r
          /\ UNCHANGED rctx
          /\ log' = IF JobID \in jobs THEN Append(log, Line("started", r))
                                      ELSE log
      BY <2>1 DEF BeforeRun
    <3>2. r \in Active /\ UseCron
      BY <1>0, <1>T, <3>1 DEF Active, ScheduledRuns
    <3>3. \A q \in Runs : q # r => rpc[q] \in {"none", "done"}
      BY <1>0, <1>T, <3>2 DEF SingleActive, Active, RunPC
    <3>4. mpc # "init"
      BY <1>0, <3>2 DEF InitQuiet
    <3>5. Active' = Active
      BY <1>T, <3>1 DEF Active
    <3>6. MainOrder' /\ ScheduledRuns'
      BY <1>T, <2>K, <3>1, <3>2, <3>4, <3>5
    <3>7. RunIds'
      BY <1>0, <1>T, <3>1, <3>2, <3>3 DEF RunIds
    <3>8. CompleteLogged'
      BY <1>0, <1>T, <3>1, CompleteKept DEF Line
    <3>9. QED
      BY <3>6, <3>7, <3>8
  <2>2. CASE Tcpdump(r)
    <3>1. Alive /\ rpc[r] = "tcpdump"
      BY <2>2 DEF Tcpdump
    <3>2. r \in Active /\ UseCron /\ sched \in {"started", "stopped"}
      BY <1>0, <1>A, <1>T, <3>1 DEF Active, ScheduledRuns
    <3>3. jid \in jobs /\ xid = r
      BY <1>0, <3>1, <3>2 DEF ScheduledRuns, Registered, RunIds
    <3>4. /\ rctx' = [rctx EXCEPT ![r] = r]
          /\ rpc' = [rpc EXCEPT ![r] = "wait"]
          /\ UNCHANGED <<xid, log>>
      BY <2>2, <3>3 DEF Tcpdump
    <3>5. Active' = Active
      BY <1>T, <3>1, <3>4 DEF Active
    <3>6. MainOrder' /\ ScheduledRuns'
      BY <1>T, <2>K, <3>1, <3>2, <3>4, <3>5
    <3>7. RunIds'
      BY <1>0, <1>T, <3>1, <3>2, <3>3, <3>4 DEF RunIds
    <3>8. CompleteLogged'
      BY <1>0, <1>T, <3>1, <3>4, CompleteSame
    <3>9. QED
      BY <3>6, <3>7, <3>8
  <2>3. CASE Deadline(r) \/ \E t \in Tasks : EngineStops(r, t)
    <3>1. UNCHANGED <<rpc, rctx, xid, log>>
      BY <2>3 DEF Deadline, EngineStops
    <3>2. QED
      BY <1>0, <1>M, <2>0, <3>1 DEF MainOrder, ScheduledRuns, Alive, Registered
  <2>4. CASE StartReturns(r)
    <3>1. /\ Alive /\ rpc[r] = "wait"
          /\ rpc' = [rpc EXCEPT ![r] = IF UseCron THEN "after" ELSE "done"]
          /\ UNCHANGED <<rctx, xid, log>>
      BY <2>4 DEF StartReturns
    <3>2. Active' \subseteq Active
      BY <1>T, <3>1 DEF Active
    <3>3. MainOrder' /\ ScheduledRuns'
      BY <1>0, <1>T, <2>K, <3>1, <3>2 DEF ScheduledRuns
    <3>4. RunIds'
      BY <1>0, <1>T, <3>1 DEF RunIds
    <3>5. CompleteLogged'
      BY <1>0, <1>T, <3>1, CompleteSame
    <3>6. QED
      BY <3>3, <3>4, <3>5
  <2>5. CASE AfterRun(r)
    <3>1. /\ Alive /\ rpc[r] = "after"
          /\ rpc' = [rpc EXCEPT ![r] = "done"]
          /\ xid' = NilID
          /\ UNCHANGED rctx
          /\ log' = IF JobID \in jobs THEN Append(log, Line("complete", r))
                                      ELSE log
      BY <2>5 DEF AfterRun
    <3>2. r \in Active /\ UseCron
      BY <1>0, <1>T, <3>1 DEF Active, ScheduledRuns
    <3>3. xid = r /\ rctx[r] = r
      BY <1>0, <3>1, <3>2 DEF RunIds
    <3>4. \A q \in Runs : q # r => rpc[q] \in {"none", "done"}
      BY <1>0, <1>T, <3>2 DEF SingleActive, Active, RunPC
    <3>5. Active' \subseteq Active
      BY <1>T, <3>1 DEF Active
    <3>6. mpc # "init"
      BY <1>0, <3>2 DEF InitQuiet
    <3>7. MainOrder' /\ ScheduledRuns'
      BY <1>T, <2>K, <3>1, <3>2, <3>5, <3>6
    <3>8. RunIds'
      BY <1>0, <1>T, <3>1, <3>2, <3>3, <3>4 DEF RunIds
    <3>9. Line("complete", r) = [ev |-> "complete", xid |-> r, run |-> r]
      BY <3>3 DEF Line
    <3>10. CompleteLogged'
      BY <1>0, <1>T, <3>1, <3>3, <3>9, CompleteKept
    <3>11. QED
      BY <3>7, <3>8, <3>10
  <2>6. QED
    BY <1>18, <2>1, <2>2, <2>3, <2>4, <2>5 DEF RunStep
<1>19. CASE \E r \in Runs, t \in Tasks : EngineEnds(r, t)
  <2>1. UNCHANGED <<rpc, rctx, xid, log, fires, mpc, sched, sjob, jid, jobs,
                    sig>>
    BY <1>19 DEF EngineEnds, mainVars
  <2>2. QED
    BY <1>0, <1>M, <2>1 DEF MainOrder, ScheduledRuns, Alive, Registered
<1>20. QED
  BY <1>1, <1>2, <1>3, <1>4, <1>5, <1>6, <1>7, <1>8, <1>9, <1>10, <1>11,
     <1>12, <1>13, <1>14, <1>15, <1>16, <1>17, <1>18, <1>19
     DEF Next, MainStep

\* IInvRuns holds in every reachable state.
LEMMA IInvRunsHolds == Spec => []IInvRuns
BY IInvRunsInit, IInvRunsStep, PTL DEF Spec

\* Every execution the cron trigger starts finds its job in the registry:
\* main() stores jid and jobs[j.ID()] before s.Start(), so tcpdump() never
\* takes its "job not found" path, for any number of tasks and triggers.
THEOREM JobAlwaysFoundHolds == Spec => []JobAlwaysFound
<1>1. IInvRuns => JobAlwaysFound
  BY DEF IInvRuns, CompleteLogged, JobAlwaysFound
<1>2. QED
  BY <1>1, IInvRunsHolds, PTL

\* The context tcpdump() builds for an execution carries an id of its own:
\* beforeTcpdump's xid.Store precedes tcpdump()'s xid.Load, and no other
\* execution can overwrite the global xid in between (singleton mode).
THEOREM ExecutionIdsDistinctHolds == Spec => []ExecutionIdsDistinct
<1>1. IInvRuns => ExecutionIdsDistinct
  <2> SUFFICES ASSUME IInvRuns, UseCron,
                      NEW r1 \in Runs, NEW r2 \in Runs,
                      rctx[r1] # NoCtx, rctx[r2] # NoCtx
               PROVE  /\ rctx[r1] # NilID
                      /\ r1 # r2 => rctx[r1] # rctx[r2]
    BY DEF ExecutionIdsDistinct
  <2>1. rpc \in [Runs -> RunPC]
    BY DEF IInvRuns, IInvEngines, TypeOK
  <2>2. rctx[r1] = r1 /\ rctx[r2] = r2
    BY <2>1 DEF IInvRuns, RunIds, RunPC
  <2>3. QED
    BY <2>2 DEF Runs, NilID
<1>2. QED
  BY <1>1, IInvRunsHolds, PTL

\* The "execution complete" line afterTcpdump logs is stamped with the id
\* its execution ran under: the global xid is still that execution's when
\* the AfterJobRuns listener reads it.
THEOREM CompleteCarriesOwnXidHolds == Spec => []CompleteCarriesOwnXid
<1>1. IInvRuns => CompleteCarriesOwnXid
  BY DEF IInvRuns, CompleteLogged, CompleteCarriesOwnXid
<1>2. QED
  BY <1>1, IInvRunsHolds, PTL

\* Only beforeTcpdump and afterTcpdump write the global xid.
LEMMA XidWriters ==
    ASSUME [Next]_vars, xid' # xid
    PROVE  \E q \in Runs : BeforeRun(q) \/ AfterRun(q)
<1>1. ~MainStep
  BY DEF MainStep, CreateTasks, OneShotExit, LoadLocation, NewScheduler,
         NewJob, Register, StartScheduler, NotifySignals, MainWakes,
         StopJobs, StopJobsDone, RemoveJob, Shutdown
<1>2. ~(SignalCaught \/ SignalKills \/ HandleSignal \/ FireStart \/ FireSkip)
  BY DEF SignalCaught, SignalKills, HandleSignal, FireStart, FireSkip
<1>3. ASSUME NEW q \in Runs, RunStep(q) PROVE BeforeRun(q) \/ AfterRun(q)
  BY <1>3 DEF RunStep, Tcpdump, Deadline, StartReturns, EngineStops
<1>4. ~(\E q \in Runs, t \in Tasks : EngineEnds(q, t)) /\ ~Terminated
  BY DEF EngineEnds, Terminated, vars
<1>5. QED
  BY <1>1, <1>2, <1>3, <1>4 DEF Next, vars

\* No step overwrites the global xid while a run that reads it sits in
\* tcpdump(), start() or afterTcpdump: in the scheduled mode the xid is
\* that run's own before and after the step (singleton mode keeps every
\* other run out), and the unscheduled mode never writes it.
THEOREM XidStableHolds == Spec => XidStableWhileInUse
<1>1. IInvRuns /\ [Next]_vars =>
         [\A r \in Runs :
            (rpc[r] \in {"tcpdump", "wait", "after"} /\ rpc'[r] = rpc[r])
               => xid' = xid]_vars
  <2> SUFFICES ASSUME IInvRuns, [Next]_vars, NEW r \in Runs,
                      rpc[r] \in {"tcpdump", "wait", "after"}, rpc'[r] = rpc[r]
               PROVE  xid' = xid
    OBVIOUS
  <2>1. IInvRuns'
    BY IInvRunsStep
  <2>2. CASE UseCron
    BY <2>1, <2>2 DEF IInvRuns, RunIds
  <2>3. CASE ~UseCron
    <3> SUFFICES ASSUME xid' # xid PROVE FALSE
      OBVIOUS
    <3>1. PICK q \in Runs : BeforeRun(q) \/ AfterRun(q)
      BY XidWriters
    <3>2. rpc[q] \in {"before", "after"}
      BY <3>1 DEF BeforeRun, AfterRun
    <3>3. QED
      BY <2>3, <3>2 DEF IInvRuns, ScheduledRuns
  <2>4. QED
    BY <2>2, <2>3
<1>2. QED
  BY <1>1, IInvRunsHolds, PTL DEF Spec, XidStableWhileInUse

=============================================================================

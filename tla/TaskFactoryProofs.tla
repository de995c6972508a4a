-------------------------- MODULE TaskFactoryProofs --------------------------
(***************************************************************************)
(* Proofs, for every set of interfaces and every pattern of constructor   *)
(* failures, that createTasks builds well-formed tasks, never hands a     *)
(* gopacket engine an empty writer list, and never lets a failure on one  *)
(* interface cost another its tcpdump task.  They rest on IInvTasks.      *)
(***************************************************************************)
EXTENDS TaskFactory, SequenceTheorems, TLAPS

\* The tcpdump task of an iteration: a task of device d, present exactly
\* when -tcpdump is set and pcap.NewTcpdump succeeded.
LEMMA RawTasksType ==
    ASSUME flag \in [Flags -> BOOLEAN], NEW d \in Devices, NEW o \in Outcomes
    PROVE  /\ RawTasks(d, o) \in Seq(Task)
           /\ \A i \in 1..Len(RawTasks(d, o)) : RawTasks(d, o)[i].kind = "tcpdump"
           /\ (flag["tcpdump"] /\ o.tcpdump) =>
                 /\ Len(RawTasks(d, o)) = 1
                 /\ RawTasks(d, o)[1].dev = d
<1>1. [dev |-> d, kind |-> "tcpdump", writers |-> {}] \in Task
  BY DEF Task
<1>2. QED
  BY <1>1 DEF RawTasks

\* The JSON task of an iteration is a task with at least one writer.
LEMMA JsonTasksType ==
    ASSUME flag \in [Flags -> BOOLEAN], NEW d \in Devices, NEW o \in Outcomes
    PROVE  /\ JsonTasks(d, o) \in Seq(Task)
           /\ \A i \in 1..Len(JsonTasks(d, o)) : JsonTasks(d, o)[i].writers # {}
<1>1. CASE ~flag["jsondump"] \/ ~flag["jsonlog"] \/ ~o.pcap \/ ~o.stdout
  BY <1>1 DEF JsonTasks
<1>2. CASE flag["jsondump"] /\ flag["jsonlog"] /\ o.pcap /\ o.stdout
  <2> DEFINE ws == IF ~o.file THEN {"stdout"} ELSE {"file", "stdout"}
  <2>1. JsonTasks(d, o) = <<[dev |-> d, kind |-> "json", writers |-> ws]>>
    BY <1>2 DEF JsonTasks, Outcomes
  <2>2. [dev |-> d, kind |-> "json", writers |-> ws] \in Task
    BY DEF Task, Writers
  <2>3. QED
    BY <2>1, <2>2
<1>3. QED
  BY <1>1, <1>2 DEF Outcomes

\* What one iteration appends: tasks, every JSON one with a writer, and the
\* tcpdump task of d when the interface resolved and the engine was built.
LEMMA IfaceTasksType ==
    ASSUME flag \in [Flags -> BOOLEAN], NEW d \in Devices, NEW o \in Outcomes
    PROVE  /\ IfaceTasks(d, o) \in Seq(Task)
           /\ \A i \in 1..Len(IfaceTasks(d, o)) :
                 IfaceTasks(d, o)[i].kind = "json" => IfaceTasks(d, o)[i].writers # {}
           /\ (flag["tcpdump"] /\ o.iface /\ o.tcpdump) =>
                 /\ Len(IfaceTasks(d, o)) >= 1
                 /\ IfaceTasks(d, o)[1].dev = d
                 /\ IfaceTasks(d, o)[1].kind = "tcpdump"
<1>1. CASE ~o.iface
  BY <1>1 DEF IfaceTasks
<1>2. CASE o.iface
  <2> DEFINE R == RawTasks(d, o)
             J == JsonTasks(d, o)
  <2>1. IfaceTasks(d, o) = R \o J
    BY <1>2 DEF IfaceTasks
  <2>2. R \in Seq(Task) /\ J \in Seq(Task)
    BY RawTasksType, JsonTasksType
  <2>3. /\ R \o J \in Seq(Task)
        /\ Len(R \o J) = Len(R) + Len(J)
        /\ \A i \in 1..Len(R) + Len(J) :
              (R \o J)[i] = IF i <= Len(R) THEN R[i] ELSE J[i - Len(R)]
    BY <2>2, ConcatProperties
  <2>4. \A i \in 1..Len(R \o J) :
           (R \o J)[i].kind = "json" => (R \o J)[i].writers # {}
    <3> SUFFICES ASSUME NEW i \in 1..Len(R \o J), (R \o J)[i].kind = "json"
                 PROVE  (R \o J)[i].writers # {}
      OBVIOUS
    <3>1. CASE i <= Len(R)
      BY <2>2, <2>3, <3>1, RawTasksType
    <3>2. CASE ~(i <= Len(R))
      <4>1. i - Len(R) \in 1..Len(J)
        BY <2>2, <2>3, <3>2
      <4>2. QED
        BY <2>2, <2>3, <3>2, <4>1, JsonTasksType
    <3>3. QED
      BY <3>1, <3>2
  <2>5. (flag["tcpdump"] /\ o.tcpdump) =>
           /\ Len(R \o J) >= 1 /\ (R \o J)[1].dev = d
           /\ (R \o J)[1].kind = "tcpdump"
    BY <2>2, <2>3, RawTasksType
  <2>6. QED
    BY <1>2, <2>1, <2>3, <2>4, <2>5
<1>3. QED
  BY <1>1, <1>2

\* The initial state satisfies IInvTasks.
LEMMA IInvTasksInit == Init => IInvTasks
BY DEF Init, IInvTasks, TypeOK, RawConfigured, DecodedTaskHasWriter

\* Every iteration of the loop, and the return, preserves IInvTasks.
LEMMA IInvTasksStep == IInvTasks /\ [Next]_vars => IInvTasks'
<1> SUFFICES ASSUME IInvTasks, [Next]_vars PROVE IInvTasks'
  OBVIOUS
<1>T. /\ flag \in [Flags -> BOOLEAN] /\ todo \subseteq Devices
      /\ outcome \in [Devices -> Outcomes] /\ tasks \in Seq(Task)
  BY DEF IInvTasks, TypeOK
<1>1. ASSUME NEW d \in Devices, ConfigureIface(d) PROVE IInvTasks'
  <2> DEFINE X == IfaceTasks(d, outcome[d])
  <2>1. /\ tasks' = tasks \o X /\ todo' = todo \ {d}
        /\ UNCHANGED <<flag, outcome>> /\ d \in todo
    BY <1>1 DEF ConfigureIface
  <2>2. /\ X \in Seq(Task)
        /\ \A i \in 1..Len(X) : X[i].kind = "json" => X[i].writers # {}
        /\ (flag["tcpdump"] /\ outcome[d].iface /\ outcome[d].tcpdump) =>
              Len(X) >= 1 /\ X[1].dev = d /\ X[1].kind = "tcpdump"
    BY <1>T, IfaceTasksType
  <2>3. /\ tasks' \in Seq(Task)
        /\ Len(tasks') = Len(tasks) + Len(X)
        /\ \A i \in 1..Len(tasks) + Len(X) :
              tasks'[i] = IF i <= Len(tasks) THEN tasks[i] ELSE X[i - Len(tasks)]
    BY <1>T, <2>1, <2>2, ConcatProperties
  \* The tasks already built keep their places.
  <2>4. \A i \in DOMAIN tasks : i \in DOMAIN tasks' /\ tasks'[i] = tasks[i]
    BY <1>T, <2>2, <2>3
  <2>5. TypeOK'
    BY <1>T, <2>1, <2>3 DEF TypeOK
  <2>6. DecodedTaskHasWriter'
    <3> SUFFICES ASSUME NEW i \in DOMAIN tasks', tasks'[i].kind = "json"
                 PROVE  tasks'[i].writers # {}
      BY DEF DecodedTaskHasWriter
    <3>1. CASE i \in DOMAIN tasks
      BY <2>4, <3>1 DEF IInvTasks, DecodedTaskHasWriter
    <3>2. CASE i \notin DOMAIN tasks
      <4>1. i - Len(tasks) \in 1..Len(X) /\ tasks'[i] = X[i - Len(tasks)]
        BY <1>T, <2>2, <2>3, <3>2
      <4>2. QED
        BY <2>2, <4>1
    <3>3. QED
      BY <3>1, <3>2
  <2>7. RawConfigured'
    <3> SUFFICES ASSUME NEW e \in Devices \ todo',
                        flag["tcpdump"], outcome[e].iface, outcome[e].tcpdump
                 PROVE  HasTask(e, "tcpdump")'
      BY <2>1 DEF RawConfigured
    <3>1. CASE e = d
      <4>1. Len(X) >= 1 /\ X[1].dev = e /\ X[1].kind = "tcpdump"
        BY <2>2, <3>1
      <4>2. Len(tasks) + 1 \in 1..Len(tasks) + Len(X)
        BY <1>T, <2>2, <4>1
      <4>3. Len(tasks) + 1 \in DOMAIN tasks'
        BY <2>3, <4>2
      <4>4. tasks'[Len(tasks) + 1] = X[1]
        BY <1>T, <2>3, <4>2
      <4>5. QED
        BY <4>1, <4>3, <4>4 DEF HasTask
    <3>2. CASE e # d
      <4>1. HasTask(e, "tcpdump")
        BY <2>1, <3>2 DEF IInvTasks, RawConfigured
      <4>2. QED
        BY <2>4, <4>1 DEF HasTask
    <3>3. QED
      BY <3>1, <3>2
  <2>8. QED
    BY <2>5, <2>6, <2>7 DEF IInvTasks
<1>2. CASE Returned \/ UNCHANGED vars
  BY <1>2 DEF Returned, vars, IInvTasks, TypeOK, RawConfigured,
              DecodedTaskHasWriter, HasTask
<1>3. QED
  BY <1>1, <1>2 DEF Next

\* IInvTasks holds in every state of every behaviour of createTasks.
LEMMA IInvTasksHolds == Spec => []IInvTasks
BY IInvTasksInit, IInvTasksStep, PTL DEF Spec

\* createTasks builds only well-formed tasks: each names a device the
\* regex matched, is a tcpdump or a JSON task, and has writers of the two
\* kinds the loop constructs.
THEOREM TaskFactoryTypeOK == Spec => []TypeOK
BY IInvTasksHolds, PTL DEF IInvTasks

\* No gopacket engine is handed an empty writer list by createTasks.
THEOREM DecodedTaskHasWriterHolds == Spec => []DecodedTaskHasWriter
BY IInvTasksHolds, PTL DEF IInvTasks

\* When createTasks returns, every interface that resolved and whose
\* tcpdump engine was built has its tcpdump task: a failure on one
\* interface (the continue statements of the loop) never costs another.
THEOREM IndependentRawCaptureHolds == Spec => []IndependentRawCapture
<1>1. IInvTasks => IndependentRawCapture
  BY DEF IInvTasks, RawConfigured, IndependentRawCapture
<1>2. QED
  BY <1>1, IInvTasksHolds, PTL

=============================================================================

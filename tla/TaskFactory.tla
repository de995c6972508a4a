---------------------------- MODULE TaskFactory ----------------------------
(***************************************************************************)
(* createTasks (src/tcpdumpw/main.go): the loop over the interfaces that   *)
(* match PCAP_IFACE, building per interface a tcpdump task and, when JSON  *)
(* capture is enabled, a gopacket task with its writers.  Each constructor *)
(* the loop calls (net.InterfaceByName, pcap.NewTcpdump, pcap.NewPcap,     *)
(* pcap.NewPcapWriter, pcap.NewStdoutPcapWriter) may fail; which ones     *)
(* fail for which interface is the environment's, fixed in outcome.        *)
(***************************************************************************)
EXTENDS Naturals, Sequences, FiniteSets

CONSTANTS
    Devices    \* the names pcap.FindDevicesByRegex returns

ASSUME DevicesAssumption == Devices # {} /\ IsFiniteSet(Devices)

Flags    == {"tcpdump", "jsondump", "jsonlog"}   \* -tcpdump -jsondump -jsonlog
\* TRUE: the call succeeded for this interface.
Outcomes == [iface : BOOLEAN, tcpdump : BOOLEAN, pcap : BOOLEAN,
             file : BOOLEAN, stdout : BOOLEAN]
Writers  == {"file", "stdout"}
Task     == [dev : Devices, kind : {"tcpdump", "json"},
             writers : SUBSET Writers]

VARIABLES
    flag,      \* flag[f]: the value of the command-line flag f
    todo,      \* the devices the loop has not configured yet
    outcome,   \* outcome[d]: which constructors succeed for device d
    tasks      \* the tasks slice, in order

vars == <<flag, todo, outcome, tasks>>

\* The tcpdump task of device d, line 216-227 (a disabled -tcpdump is an
\* error, logged like a failed pcap.NewTcpdump).
RawTasks(d, o) ==
    IF flag["tcpdump"] /\ o.tcpdump
      THEN <<[dev |-> d, kind |-> "tcpdump", writers |-> {}]>>
      ELSE <<>>

\* Mutant: a failed stdout writer no longer aborts the JSON task.
JsonTasksNoAbort(d, o) ==
    LET writerErr == flag["jsondump"] /\ ~o.file
        fileW == IF writerErr THEN {} ELSE {"file"}
        jsonTask(ws) == <<[dev |-> d, kind |-> "json", writers |-> ws]>>
    IN  IF ~flag["jsondump"] \/ ~flag["jsonlog"] THEN <<>>
        ELSE IF ~o.pcap THEN <<>>
        ELSE IF ~flag["jsonlog"] /\ ~writerErr THEN jsonTask(fileW)
        ELSE IF ~o.stdout THEN jsonTask(fileW)
        ELSE jsonTask(fileW \cup {"stdout"})

\* Mutant: line 230 as its comment reads, skipping JSON setup only when
\* neither -jsondump nor -jsonlog is set.
JsonTasksEitherJson(d, o) ==
    LET writerErr == flag["jsondump"] /\ ~o.file
        fileW == IF writerErr THEN {} ELSE IF flag["jsondump"] THEN {"file"}
                                                               ELSE {"nil"}
        jsonTask(ws) == <<[dev |-> d, kind |-> "json", writers |-> ws]>>
    IN  IF ~flag["jsondump"] /\ ~flag["jsonlog"] THEN <<>>
        ELSE IF ~o.pcap THEN <<>>
        ELSE IF ~flag["jsonlog"] /\ ~writerErr THEN jsonTask(fileW)
        ELSE IF ~o.stdout THEN <<>>
        ELSE jsonTask(fileW \cup {"stdout"})

\* The JSON task of device d, line 229-273: every failure ends the
\* iteration with a continue.  With -jsondump off, writerErr stays nil and
\* the nil jsondumpWriter is appended (line 248-256).
JsonTasks(d, o) ==
    LET writerErr == flag["jsondump"] /\ ~o.file
        fileW == IF writerErr THEN {} ELSE IF flag["jsondump"] THEN {"file"}
                                                               ELSE {"nil"}
        jsonTask(ws) == <<[dev |-> d, kind |-> "json", writers |-> ws]>>
    IN  IF ~flag["jsondump"] \/ ~flag["jsonlog"] THEN <<>>
        ELSE IF ~o.pcap THEN <<>>
        ELSE IF ~flag["jsonlog"] /\ ~writerErr THEN jsonTask(fileW)
        ELSE IF ~o.stdout THEN <<>>
        ELSE jsonTask(fileW \cup {"stdout"})

\* The tasks one iteration of the loop appends for device d; an interface
\* net.InterfaceByName does not resolve is skipped (line 195-199).
IfaceTasks(d, o) ==
    IF o.iface THEN RawTasks(d, o) \o JsonTasks(d, o) ELSE <<>>

Init ==
    /\ flag \in [Flags -> BOOLEAN]
    /\ todo = Devices
    /\ outcome \in [Devices -> Outcomes]
    /\ tasks = <<>>

\* Mutant: an unresolvable interface ends the loop (return, not continue).
ConfigureIfaceAbort(d) ==
    /\ d \in todo
    /\ tasks' = tasks \o IfaceTasks(d, outcome[d])
    /\ todo' = IF outcome[d].iface THEN todo \ {d} ELSE {}
    /\ UNCHANGED <<flag, outcome>>

\* One iteration of the loop, line 193-274.
ConfigureIface(d) ==
    /\ d \in todo
    /\ tasks' = tasks \o IfaceTasks(d, outcome[d])
    /\ todo' = todo \ {d}
    /\ UNCHANGED <<flag, outcome>>

\* createTasks has returned.
Returned == todo = {} /\ UNCHANGED vars

Next == (\E d \in Devices : ConfigureIface(d)) \/ Returned

Spec == Init /\ [][Next]_vars

-----------------------------------------------------------------------------
(* Properties *)

TypeOK ==
    /\ flag \in [Flags -> BOOLEAN]
    /\ todo \subseteq Devices
    /\ outcome \in [Devices -> Outcomes]
    /\ tasks \in Seq(Task)

HasTask(d, k) == \E i \in DOMAIN tasks : tasks[i].dev = d /\ tasks[i].kind = k

\* A failure on one interface never costs another its tcpdump task: when
\* createTasks returns, every interface that resolved and whose tcpdump
\* engine was built has its task, whatever failed on the other interfaces.
IndependentRawCapture ==
    todo = {} => \A d \in Devices :
       (flag["tcpdump"] /\ outcome[d].iface /\ outcome[d].tcpdump)
          => HasTask(d, "tcpdump")

\* A gopacket engine is never handed an empty writer list: every JSON task
\* has at least one writer, whichever of its writers failed to build.
DecodedTaskHasWriter ==
    \A i \in DOMAIN tasks : tasks[i].kind = "json" => tasks[i].writers # {}

(* The inductive invariant behind IndependentRawCapture (proved in        *)
(* TaskFactoryProofs): every interface the loop has already configured    *)
(* keeps the tcpdump task it earned, whatever later iterations append.   *)
RawConfigured ==
    \A d \in Devices \ todo :
       (flag["tcpdump"] /\ outcome[d].iface /\ outcome[d].tcpdump)
          => HasTask(d, "tcpdump")

IInvTasks == TypeOK /\ RawConfigured /\ DecodedTaskHasWriter

\* Spec 4.2: when createTasks returns, an interface has a JSON task iff
\* some JSON output is enabled, the interface resolved, the engine was
\* built, the stdout writer (if enabled) was built, and some writer was.
DecodedTaskAsSpecified ==
    todo = {} => \A d \in Devices :
       HasTask(d, "json") <=>
          /\ flag["jsondump"] \/ flag["jsonlog"]
          /\ outcome[d].iface /\ outcome[d].pcap
          /\ flag["jsonlog"] => outcome[d].stdout
          /\ \/ flag["jsondump"] /\ outcome[d].file
             \/ flag["jsonlog"] /\ outcome[d].stdout

=============================================================================

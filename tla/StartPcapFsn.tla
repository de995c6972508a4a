---------------------------- MODULE StartPcapFsn ----------------------------
(***************************************************************************)
(* src/scripts/start_pcapfsn, the entry point of the uploader sidecar: it  *)
(* polls once a second until the directory PCAP_DIR exists (the mounted    *)
(* bucket), adds "json" to the extensions when PCAP_JSONDUMP is true,      *)
(* forces PCAP_COMPAT on Cloud Run gen1, and execs /bin/pcap_fsn with the  *)
(* resulting flags.  The echo lines and "ls -l" are logging and left out.  *)
(* PCAP_EXT is the list of its comma-separated items (unset is <<"">>).    *)
(***************************************************************************)
EXTENDS Sequences

VARIABLES
    pc,         \* "check", "sleep", "config", "exec" or "running" (pcap_fsn)
    pcapDir,    \* PCAP_DIR: "set" or "unset"
    dir,        \* the directory ${PCAP_DIR} exists
    jsondump,   \* PCAP_JSONDUMP
    rtEnv,      \* PCAP_RT_ENV
    compat,     \* PCAP_COMPAT
    ext,        \* PCAP_EXT
    args        \* the flags pcap_fsn is exec'd with

vars == <<pc, pcapDir, dir, jsondump, rtEnv, compat, ext, args>>

NoArgs == [pcap_ext |-> <<>>, rt_env |-> "none", compat |-> "none"]

Init ==
    /\ pc = "check"
    /\ pcapDir \in {"set", "unset"}
    /\ dir \in BOOLEAN /\ (dir => pcapDir = "set")
    /\ jsondump \in {"true", "false", "unset"}
    /\ rtEnv \in {"cloud_run_gen1", "cloud_run_gen2", "unset"}
    /\ compat \in {"true", "false", "unset"}
    /\ ext \in {<<"pcap">>, <<"">>}
    /\ args = NoArgs

\* Mutant: the loop logs the directory but never breaks out.
CheckNoBreak ==
    /\ pc = "check"
    /\ pc' = "sleep"
    /\ UNCHANGED <<pcapDir, dir, jsondump, rtEnv, compat, ext, args>>

\* [[ -d ${PCAP_DIR} ]] && echo ... && break, else the WARNING line.
Check ==
    /\ pc = "check"
    /\ pc' = IF dir THEN "config" ELSE "sleep"
    /\ UNCHANGED <<pcapDir, dir, jsondump, rtEnv, compat, ext, args>>

\* sleep 1
Sleep ==
    /\ pc = "sleep"
    /\ pc' = "check"
    /\ UNCHANGED <<pcapDir, dir, jsondump, rtEnv, compat, ext, args>>

\* The bucket is mounted at ${PCAP_DIR} by the other container.
Mount ==
    /\ pcapDir = "set" /\ ~dir
    /\ dir' = TRUE
    /\ UNCHANGED <<pc, pcapDir, jsondump, rtEnv, compat, ext, args>>

\* The PCAP_JSONDUMP and PCAP_RT_ENV adjustments.
Config ==
    /\ pc = "config"
    /\ ext' = IF jsondump = "true" THEN ext \o <<"json">> ELSE ext
    /\ compat' = IF rtEnv = "cloud_run_gen1" THEN "true" ELSE compat
    /\ pc' = "exec"
    /\ UNCHANGED <<pcapDir, dir, jsondump, rtEnv, args>>

\* exec env /bin/pcap_fsn ..., with the defaults of ${VAR:-default}.
Exec ==
    /\ pc = "exec"
    /\ args' = [pcap_ext |-> ext,
                rt_env   |-> IF rtEnv = "unset" THEN "cloud_run_gen2" ELSE rtEnv,
                compat   |-> IF compat = "unset" THEN "false" ELSE compat]
    /\ pc' = "running"
    /\ UNCHANGED <<pcapDir, dir, jsondump, rtEnv, compat, ext>>

\* The script's process is now pcap_fsn.
Running == pc = "running" /\ UNCHANGED vars

Next == Check \/ Sleep \/ Mount \/ Config \/ Exec \/ Running

\* The shell runs its steps; the mount is the other container's and may
\* never happen.
Spec == Init /\ [][Next]_vars
          /\ WF_vars(Check) /\ WF_vars(Sleep) /\ WF_vars(Config) /\ WF_vars(Exec)

-----------------------------------------------------------------------------
(* Properties *)

\* Once the directory exists the loop ends and pcap_fsn is exec'd: the
\* poll's break is reached, and nothing after it blocks.
ExecOnceDirExists ==
    dir ~> pc = "running"

=============================================================================

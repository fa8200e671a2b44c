----------------------------- MODULE MachineStart -----------------------------
(***************************************************************************)
(* One machine from power-on to the moment run() knows its own node: the   *)
(* power button and the service file, avahi-daemon that announces it, the  *)
(* process that systemd starts, with its communications thread and its     *)
(* discovery of itself, and what ends with what.                           *)
(***************************************************************************)
EXTENDS LocalDiscovery, EngineComms, PowerButton

VARIABLE announced  \* avahi-daemon announces the service file

startVars == <<discoveryVars, commsVars, buttonVars, announced>>

Init == InitDiscovery /\ InitComms /\ InitButton /\ announced = FALSE

\* systemd starts the process; start() launches the thread before run().
StartProcess ==
    /\ Up /\ StartDiscovery /\ StartThread
    /\ UNCHANGED <<buttonVars, announced>>

\* run(): a step, or sys.exit, with which the daemon thread ends.
RunProcess ==
    /\ \/ Discover /\ UNCHANGED commsVars
       \/ GiveUp /\ EndThread
    /\ UNCHANGED <<buttonVars, announced>>

RunComms == RunLoop /\ UNCHANGED <<discoveryVars, buttonVars, announced>>

TalkToComms ==
    /\ Engine \/ RequestStop
    /\ UNCHANGED <<discoveryVars, buttonVars, announced>>

\* With the machine end the process, its thread and what avahi-daemon announces.
EndsWithMachine ==
    \/ Up' /\ UNCHANGED <<discoveryVars, commsVars, announced>>
    \/ ~Up' /\ EndDiscovery /\ EndThread /\ announced' = FALSE

RunScripts == RunButton /\ EndsWithMachine

\* The operator presses; the minute of a scheduled shutdown passes.
PressOrWait ==
    /\ MinutePasses \/ \E p \in Press : Push(p)
    /\ UNCHANGED <<discoveryVars, commsVars, announced>>

GoDown == (HaltFires \/ LosePower) /\ EndsWithMachine

ComeUp == PowerOn /\ UNCHANGED <<discoveryVars, commsVars, announced>>

\* avahi-daemon starts, or sees that the file has changed.
Announce ==
    /\ Up /\ announced' = (service # "missing")
    /\ UNCHANGED <<discoveryVars, commsVars, buttonVars>>

\* What zeroconf tells the process of the nodes, of its own as well.
Zeroconf ==
    /\ \E m \in Mac :
          \/ (m = Self => announced) /\ (AddService(m) \/ UpdateService(m))
          \/ RemoveService(m)
    /\ UNCHANGED <<commsVars, buttonVars, announced>>

Next ==
    \/ StartProcess \/ RunProcess \/ RunComms \/ TalkToComms
    \/ RunScripts \/ PressOrWait \/ GoDown \/ ComeUp
    \/ Announce \/ Zeroconf

Spec == Init /\ [][Next]_startVars

\* Each of the process's threads and the scripts go on while they can.
FairSpec ==
    /\ Spec
    /\ WF_startVars(RunProcess)
    /\ WF_startVars(RunComms)
    /\ WF_startVars(RunScripts)

\* The machine with run() left out: a process that starts and ends at any time with
\* its thread, beside the button.
BesideRun ==
    \/ RunComms \/ TalkToComms \/ RunScripts \/ PressOrWait \/ GoDown \/ ComeUp
    \/ /\ Up /\ (StartThread \/ EndThread)
       /\ UNCHANGED <<discoveryVars, buttonVars, announced>>

BesideSpec ==
    /\ Init /\ [][BesideRun]_startVars
    /\ WF_startVars(RunComms) /\ WF_startVars(RunScripts)

-----------------------------------------------------------------------------
\* The types of the three parts, and of what joins them.
TypeOK == DiscoveryTypeOK /\ CommsTypeOK /\ ButtonTypeOK /\ announced \in BOOLEAN

\* A machine that has lost its service file, and is past the restart of the reset
\* that lost it, never knows its own node: its process gives up at every start
\* until a further reset makes a new file.
LostFileMeansSilence ==
    service = "missing" /\ ~At({"copy", "sleep"}) => proc # "found"

\* run() comes to know its own node or gives up; no wait of it is endless.
StartEnds == proc = "poll" ~> proc \in {"found", "off"}
=============================================================================

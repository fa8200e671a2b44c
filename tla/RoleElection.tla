----------------------------- MODULE RoleElection -----------------------------
(***************************************************************************)
(* Several machines on one LAN, each running the role assignment of        *)
(* CuemsNodeConf.run.  There is no message between them but the TXT record *)
(* that avahi-daemon announces from the service file: a machine hears of   *)
(* another one late, in any order, or not at all, and remembers the last   *)
(* record it heard for as long as its process lives.                       *)
(***************************************************************************)
EXTENDS Naturals

CONSTANTS
    Host,      \* the machines
    Faults,    \* whether copying the service file or the network may fail
    MaxWait,   \* rounds of the wait for first-run nodes (60 in the code)
    MaxStarts, \* bound on the process starts, of all machines together
    MaxResets  \* bound on the factory resets, of all machines together

ASSUME FaultsAssumption == Faults \subseteq {"copy", "network"}
ASSUME BoundsAssumption ==
    MaxWait \in Nat /\ MaxStarts \in Nat /\ MaxResets \in Nat

VARIABLES
    phase,     \* where run() stands on each machine; "off" without process
    tick,      \* iteration of the wait for first-run nodes
    view,      \* node_type in listener.nodes[k], on each machine h
    svc,       \* node_type of the service file
    txt,       \* node_type announced; "silent" when the machine is down
    starts,    \* process starts so far
    resets,    \* factory resets so far
    wasMaster  \* history: machines whose service file ever said master

vars == <<phase, tick, view, svc, txt, starts, resets, wasMaster>>

Role == {"slave", "master", "firstrun"}

Phase == {"off", "listen", "decide", "copyMaster", "copySlave", "network",
          "settle", "wait", "ready"}

Nobody == [k \in Host |-> "unheard"]

Init ==
    /\ phase = [h \in Host |-> "off"]
    /\ tick = [h \in Host |-> 0]
    /\ view = [h \in Host |-> Nobody]
    /\ svc = [h \in Host |-> "firstrun"]
    /\ txt = [h \in Host |-> "silent"]
    /\ starts = 0 /\ resets = 0
    /\ wasMaster = {}

-----------------------------------------------------------------------------
(* One machine.                                                            *)

To(h, from, to) == phase[h] = from /\ phase' = [phase EXCEPT ![h] = to]

\* The process of h ends: the phase is left to the caller's guard.
Exit(h) ==
    /\ phase' = [phase EXCEPT ![h] = "off"]
    /\ tick' = [tick EXCEPT ![h] = 0]
    /\ view' = [view EXCEPT ![h] = Nobody]

Seen(h, role) == {k \in Host : view[h][k] = role}

\* systemd starts the process once avahi-daemon announces the service file.
Boot(h) ==
    /\ txt[h] = svc[h] /\ starts < MaxStarts
    /\ To(h, "off", "listen")
    /\ starts' = starts + 1
    /\ UNCHANGED <<tick, view, svc, txt, resets, wasMaster>>

\* The wait for the local service.
FindLocalNode(h) ==
    /\ view[h][h] # "unheard"
    /\ To(h, "listen", "decide")
    /\ UNCHANGED <<tick, view, svc, txt, starts, resets, wasMaster>>

LocalNodeTimesOut(h) ==
    /\ phase[h] = "listen" /\ view[h][h] = "unheard"
    /\ Exit(h)
    /\ UNCHANGED <<svc, txt, starts, resets, wasMaster>>

\* Variants with a bug: a role is assigned again to some configured nodes.
NeedsRoleUnlessSlave(h) == view[h][h] # "slave"
NeedsRoleUnlessMaster(h) == view[h][h] # "master"
\* The test of run() that calls set_node_type.
NeedsRole(h) == view[h][h] = "firstrun"

AlreadyConfigured(h) ==
    /\ ~NeedsRole(h)
    /\ To(h, "decide", "settle")
    /\ UNCHANGED <<tick, view, svc, txt, starts, resets, wasMaster>>

\* Variant with a bug: other first-run nodes prevent mastership.
MayLeadAlone(h) == Seen(h, "master") \cup Seen(h, "firstrun") \subseteq {h}
\* The test of set_node_type.
MayLead(h) == Seen(h, "master") = {}

\* set_node_type: the role of the local object first ...
BecomeMaster(h) ==
    /\ NeedsRole(h) /\ MayLead(h)
    /\ To(h, "decide", "copyMaster")
    /\ view' = [view EXCEPT ![h][h] = "master"]
    /\ UNCHANGED <<tick, svc, txt, starts, resets, wasMaster>>

StaySlave(h) ==
    /\ NeedsRole(h) /\ ~MayLead(h)
    /\ To(h, "decide", "copySlave")
    /\ view' = [view EXCEPT ![h][h] = "slave"]
    /\ UNCHANGED <<tick, svc, txt, starts, resets, wasMaster>>

\* ... then the service file ...
CopyMasterService(h) ==
    /\ To(h, "copyMaster", "network")
    /\ svc' = [svc EXCEPT ![h] = "master"]
    /\ wasMaster' = wasMaster \cup {h}
    /\ UNCHANGED <<tick, view, txt, starts, resets>>

CopySlaveService(h) ==
    /\ To(h, "copySlave", "settle")
    /\ svc' = [svc EXCEPT ![h] = "slave"]
    /\ UNCHANGED <<tick, view, txt, starts, resets, wasMaster>>

CopyServiceFails(h) ==
    /\ phase[h] \in {"copyMaster", "copySlave"} /\ "copy" \in Faults
    /\ Exit(h)
    /\ UNCHANGED <<svc, txt, starts, resets, wasMaster>>

\* ... then, for a master, the network.  A failure leaves the service file.
ChangeNetwork(h) ==
    /\ To(h, "network", "settle")
    /\ UNCHANGED <<tick, view, svc, txt, starts, resets, wasMaster>>

ChangeNetworkFails(h) ==
    /\ phase[h] = "network" /\ "network" \in Faults
    /\ Exit(h)
    /\ UNCHANGED <<svc, txt, starts, resets, wasMaster>>

\* A master sleeps 5 seconds and publishes its alias.
Settle(h) ==
    /\ To(h, "settle", "wait")
    /\ UNCHANGED <<tick, view, svc, txt, starts, resets, wasMaster>>

\* Variant with a bug: the bound is not tested.
WaitUnbounded(h) ==
    /\ phase[h] = "wait" /\ Seen(h, "firstrun") # {}
    /\ tick' = [tick EXCEPT ![h] = @ + 1]
    /\ UNCHANGED <<phase, view, svc, txt, starts, resets, wasMaster>>

\* The wait for nodes that are still first-run, itself included.
WaitFirstrun(h) ==
    /\ phase[h] = "wait" /\ Seen(h, "firstrun") # {} /\ tick[h] < MaxWait
    /\ tick' = [tick EXCEPT ![h] = @ + 1]
    /\ UNCHANGED <<phase, view, svc, txt, starts, resets, wasMaster>>

\* Variant with a bug: the wait has no bound.
WaitForAll(h) ==
    /\ Seen(h, "firstrun") = {}
    /\ To(h, "wait", "ready")
    /\ UNCHANGED <<tick, view, svc, txt, starts, resets, wasMaster>>
\* Nobody is first-run any more, or the bound is reached.
LeaveWait(h) ==
    /\ Seen(h, "firstrun") = {} \/ tick[h] >= MaxWait
    /\ To(h, "wait", "ready")
    /\ UNCHANGED <<tick, view, svc, txt, starts, resets, wasMaster>>

-----------------------------------------------------------------------------
(* The LAN and the machines as such.                                       *)

\* add_service or update_service on h for the record of k.
Hear(h, k) ==
    /\ phase[h] # "off" /\ txt[k] # "silent"
    /\ view' = [view EXCEPT ![h][k] = txt[k]]
    /\ UNCHANGED <<phase, tick, svc, txt, starts, resets, wasMaster>>

\* avahi-daemon starts, or reloads the service file.
Advertise(h) ==
    /\ txt[h] # svc[h]
    /\ txt' = [txt EXCEPT ![h] = svc[h]]
    /\ UNCHANGED <<phase, tick, view, svc, starts, resets, wasMaster>>

Crash(h) ==
    /\ phase[h] # "off"
    /\ Exit(h)
    /\ UNCHANGED <<svc, txt, starts, resets, wasMaster>>

PowerOff(h) ==
    /\ Exit(h)
    /\ txt' = [txt EXCEPT ![h] = "silent"]
    /\ UNCHANGED <<svc, starts, resets, wasMaster>>

\* Double press of the power button, with the reboot it ends in.
FactoryReset(h) ==
    /\ resets < MaxResets /\ resets' = resets + 1
    /\ svc' = [svc EXCEPT ![h] = "firstrun"]
    /\ Exit(h)
    /\ txt' = [txt EXCEPT ![h] = "silent"]
    /\ UNCHANGED <<starts, wasMaster>>

-----------------------------------------------------------------------------
Run(h) ==
    \/ FindLocalNode(h) \/ LocalNodeTimesOut(h)
    \/ AlreadyConfigured(h) \/ BecomeMaster(h) \/ StaySlave(h)
    \/ CopyMasterService(h) \/ CopySlaveService(h) \/ CopyServiceFails(h)
    \/ ChangeNetwork(h) \/ ChangeNetworkFails(h)
    \/ Settle(h) \/ WaitFirstrun(h) \/ LeaveWait(h)

Machine(h) == Boot(h) \/ Advertise(h) \/ Crash(h) \/ PowerOff(h) \/ FactoryReset(h)

Next == \E h \in Host : Run(h) \/ Machine(h) \/ \E k \in Host : Hear(h, k)

Spec == Init /\ [][Next]_vars

\* The main thread of every machine is scheduled.
FairSpec == Spec /\ \A h \in Host : WF_vars(Run(h))

-----------------------------------------------------------------------------
\* Every variable keeps its type; counters stay within their bounds.
TypeOK ==
    /\ phase \in [Host -> Phase]
    /\ tick \in [Host -> 0 .. MaxWait]
    /\ view \in [Host -> [Host -> Role \cup {"unheard"}]]
    /\ svc \in [Host -> Role]
    /\ txt \in [Host -> Role \cup {"silent"}]
    /\ starts \in 0 .. MaxStarts /\ resets \in 0 .. MaxResets
    /\ wasMaster \subseteq Host

\* A machine is only a slave because another one was master: whatever is
\* late, lost or cut short, set_node_type cannot leave a LAN of slaves none
\* of which ever had a master.
SlaveFollowedMaster ==
    \A h \in Host : svc[h] = "slave" => \E k \in wasMaster : k # h

\* As long as nobody resets a machine, there is a master wherever there is a
\* slave: masters stay masters through crashes, failed network changes and
\* restarts.
SlavesHaveMaster ==
    resets = 0 /\ (\E h \in Host : svc[h] = "slave")
        => \E k \in Host : svc[k] = "master"

\* Each machine as RoleLedger sees it.
Ledger(h) == INSTANCE RoleLedger
    WITH role <- svc[h], led <- wasMaster \ {h} # {}, reset <- resets

\* README.md, Design Goals: a machine is master or slave by one decision
\* out of first-run, a slave only after some other master, and only a reset
\* makes it first-run again.
RolesAreAssigned ==
    /\ \A h \in Host : Ledger(h)!Init
    /\ [][\A h \in Host : Ledger(h)!Next]_vars

\* README.md, Idempotent re-entry: a role, once in the service file, is only
\* ever taken away by a reset.
RoleIsKept ==
    [][\A h \in Host :
          svc[h] # "firstrun" /\ svc'[h] # svc[h] => resets' > resets]_vars

\* Machines that wait for each other all come out of the wait, although the
\* one waited for may be gone and still be remembered as first-run.
NobodyWaitsForever ==
    \A h \in Host : phase[h] = "wait" ~> phase[h] # "wait"

\* README.md, Single-master guarantee: a race between two simultaneously
\* booting nodes is resolved deterministically.
SingleMaster ==
    \A h, k \in Host :
        svc[h] = "master" /\ svc[k] = "master" /\ resets = 0 => h = k
=============================================================================

------------------------------- MODULE NodeConf -------------------------------
(***************************************************************************)
(* One machine running cuems-nodeconf: CuemsNodeConf.run on the main       *)
(* thread, CuemsAvahiListener on the zeroconf thread and engine_callback   *)
(* on the communications thread, all three sharing listener.nodes and      *)
(* network_map without a lock, over a disk that outlives the process.      *)
(*                                                                         *)
(* network_map[m] is either an object read from network_map.xml or, for a  *)
(* node first met by merge_discovered_nodes, the very object that is in    *)
(* listener.nodes[m].  "ref" says which; Entry(m) is the object.           *)
(***************************************************************************)
EXTENDS Naturals, NodeRecord

CONSTANTS
    Mac,      \* keys of listener.nodes and of network_map
    Self,     \* the key of the local node, whose ip is self.ip
    Uuid,     \* uuids; the shipped service templates all carry the same one
    UuidOf,   \* the uuid each node announces
    Ops,      \* modify_action values the engine sends
    Faults,   \* the external operations that may fail
    MaxWait,  \* rounds of the wait for first-run nodes (60 in the code)
    Limit     \* bounds: process starts, requests to a process, role changes

ASSUME SelfAssumption   == Self \in Mac
ASSUME UuidAssumption   == UuidOf \in [Mac -> Uuid]
ASSUME OpsAssumption    == Ops \subseteq {"ADD", "REMOVE", "INVALID"}
ASSUME FaultsAssumption ==
    Faults \subseteq {"ip", "copy", "network", "interfaces", "alias", "store", "lock"}
ASSUME WaitAssumption   == MaxWait \in Nat
ASSUME LimitAssumption  == Limit \in [{"boot", "request", "change"} -> Nat]

VARIABLES
    \* main thread
    pc,        \* where run() stands; "off" when there is no process
    tick,      \* iteration of the wait for first-run nodes
    firstRun,  \* self.is_first_run
    parsed,    \* what XmlReader returned
    found,     \* discovered_macs
    iter,      \* keys of listener.nodes when the merge loop began
    todo,      \* those the merge loop has not reached
    cur,       \* the node being merged
    kept,      \* preserved_adopted
    image,     \* the map as serialised by the main thread
    \* listener and map objects
    known,     \* keys of listener.nodes
    heard,     \* listener.nodes
    ref,       \* "none", "loaded" or "shared"
    loaded,    \* the objects read from the file
    \* communications thread
    cphase,    \* "idle", "write", "store" or "answer"
    job,       \* the change a request made and that is to be answered with OK
    cimage,    \* the map as serialised by the communications thread
    \* outside the process
    svc,       \* node_type of /etc/avahi/services/cuems.service
    net,       \* /etc/network/interfaces
    alias,     \* avahi-publish of controller.local is running
    file,      \* network_map.xml
    lock,      \* master.lock exists
    rebooting, \* the power-button script reset the node and reboots it
    txt,       \* the node_type each node announces
    \* history
    bootRole,  \* svc when the process started
    asked,     \* uuids an ADD was ever received for
    dropped,   \* uuids a REMOVE was received for since the process started
    wasMaster, \* nodes that were ever master
    spent      \* how much of Limit is used

runVars  == <<tick, firstRun, parsed>>
loopVars == <<found, iter, todo, cur, kept>>
mapVars  == <<known, heard, ref, loaded>>
commVars == <<cphase, job, cimage>>
diskVars == <<svc, net, alias, file, lock, rebooting>>
histVars == <<bootRole, asked, dropped, wasMaster, spent>>
vars == <<pc, runVars, loopVars, image, mapVars, commVars, diskVars, txt,
          histVars>>

-----------------------------------------------------------------------------
(* The bounds.                                                             *)

Spend(kind) ==
    /\ spent[kind] < Limit[kind]
    /\ spent' = [spent EXCEPT ![kind] = @ + 1]

-----------------------------------------------------------------------------
(* The network map.                                                        *)

Image == [macs : SUBSET Mac, rows : [Mac -> Node]]

\* No map: neither a file nor a dict entry.
Nothing == [macs |-> {}, rows |-> [m \in Mac |-> Blank]]

InMap == {m \in Mac : ref[m] # "none"}

Entry(m) == IF ref[m] = "shared" THEN heard[m] ELSE loaded[m]

\* The objects that network_map refers to, written in place.
PutEntries(new) ==
    /\ heard'  = [m \in Mac |-> IF ref[m] = "shared" THEN new[m] ELSE heard[m]]
    /\ loaded' = [m \in Mac |-> IF ref[m] = "loaded" THEN new[m] ELSE loaded[m]]
    /\ UNCHANGED <<known, ref>>

PutEntry(m, node) == PutEntries([n \in Mac |-> IF n = m THEN node ELSE Entry(n)])

\* Variant with a bug: offline nodes are left out.
SerialisedOnline ==
    LET on == {m \in InMap : Entry(m).online} IN
    [macs |-> on,
     rows |-> [m \in Mac |-> IF m \in on THEN Stringified(Entry(m)) ELSE Blank]]
\* What write_from_object makes of network_map.
Serialised ==
    [macs |-> InMap,
     rows |-> [m \in Mac |-> IF m \in InMap THEN Stringified(Entry(m)) ELSE Blank]]

\* The loop of write_network_map over the objects.
StringifyAll == PutEntries([m \in Mac |-> Stringified(Entry(m))])

\* The nodes a request can mean: the first of them in the order of the dict.
Matches(u) == {m \in InMap : UuidOf[m] = u}

\* No change, or none that is answered with OK.  "late" says that the request came
\* after READY.
Idle == [op |-> "NONE", mac |-> Self, late |-> FALSE]

\* The process ends and everything it held is gone.
Exit ==
    /\ pc' = "off"
    /\ tick' = 0 /\ firstRun' = FALSE /\ parsed' = Nothing
    /\ found' = {} /\ iter' = {} /\ todo' = {} /\ cur' = Self /\ kept' = FALSE
    /\ image' = Nothing
    /\ known' = {} /\ heard' = [m \in Mac |-> Blank]
    /\ ref' = [m \in Mac |-> "none"] /\ loaded' = [m \in Mac |-> Blank]
    /\ cphase' = "idle" /\ job' = Idle /\ cimage' = Nothing
    /\ bootRole' = "firstrun" /\ dropped' = {}
    /\ spent' = [spent EXCEPT !["request"] = 0]
    /\ UNCHANGED <<asked, wasMaster>>

Init ==
    /\ pc = "off"
    /\ tick = 0 /\ firstRun = FALSE /\ parsed = Nothing
    /\ found = {} /\ iter = {} /\ todo = {} /\ cur = Self /\ kept = FALSE
    /\ image = Nothing
    /\ known = {} /\ heard = [m \in Mac |-> Blank]
    /\ ref = [m \in Mac |-> "none"] /\ loaded = [m \in Mac |-> Blank]
    /\ cphase = "idle" /\ job = Idle /\ cimage = Nothing
    /\ svc = "firstrun" /\ net = "node" /\ alias = FALSE
    /\ file = Nothing /\ lock = FALSE /\ rebooting = FALSE
    /\ txt \in {t \in [Mac -> Role] : t[Self] = "firstrun"}
    /\ bootRole = "firstrun" /\ asked = {} /\ dropped = {}
    /\ wasMaster = {m \in Mac : txt[m] = "master"}
    /\ spent = [kind \in DOMAIN Limit |-> 0]

-----------------------------------------------------------------------------
(* Main thread: run() from the start to the role.                          *)

\* systemd starts the process once avahi-daemon announces the service file.
\* start() launches the communications thread before run().
Boot ==
    /\ pc = "off" /\ ~rebooting /\ txt[Self] = svc /\ Spend("boot")
    /\ pc' = "start"
    /\ bootRole' = svc
    /\ UNCHANGED <<runVars, loopVars, image, mapVars, commVars, diskVars, txt,
                   asked, dropped, wasMaster>>

\* get_ips succeeds; run() looks for the map and parses it.
FindMap ==
    /\ pc = "start"
    /\ firstRun' = (file.macs = {})
    /\ parsed' = file
    /\ pc' = IF file.macs = {} THEN "listen" ELSE "read"
    /\ UNCHANGED <<tick, loopVars, image, mapVars, commVars, diskVars, txt,
                   histVars>>

FindIpTimesOut ==
    /\ pc = "start" /\ "ip" \in Faults
    /\ Exit
    /\ UNCHANGED <<diskVars, txt>>

\* One round of the loop of read_network_map.
ReadNode(m) ==
    /\ pc = "read" /\ m \in parsed.macs \ InMap
    /\ ref' = [ref EXCEPT ![m] = "loaded"]
    /\ loaded' = [loaded EXCEPT ![m] = Normalised(parsed.rows[m])]
    /\ UNCHANGED <<pc, runVars, loopVars, image, known, heard, commVars,
                   diskVars, txt, histVars>>

ReadDone ==
    /\ pc = "read" /\ parsed.macs \subseteq InMap
    /\ pc' = "listen"
    /\ UNCHANGED <<runVars, loopVars, image, mapVars, commVars, diskVars, txt,
                   histVars>>

\* wait_for_local_service_registration and retreive_local_node: from here
\* self.node is the object listener.nodes[Self].
FindLocalNode ==
    /\ pc = "listen" /\ Self \in known
    /\ pc' = "decide"
    /\ UNCHANGED <<runVars, loopVars, image, mapVars, commVars, diskVars, txt,
                   histVars>>

LocalNodeTimesOut ==
    /\ pc = "listen" /\ Self \notin known
    /\ Exit
    /\ UNCHANGED <<diskVars, txt>>

Masters == WithRole(known, heard, "master")
Firstruns == WithRole(known, heard, "firstrun")

\* Variant with a bug: whoever is not master gets a role.
ReassignSlaves == ~HasRole(heard[Self], "master")
\* The test of run() that calls set_node_type.
NeedsRole == HasRole(heard[Self], "firstrun")

AlreadyConfigured ==
    /\ pc = "decide" /\ ~NeedsRole
    /\ pc' = "settle"
    /\ UNCHANGED <<runVars, loopVars, image, mapVars, commVars, diskVars, txt,
                   histVars>>

\* set_node_type, first statement of each branch: the role in memory only.
TakeRole(role) ==
    /\ heard' = [heard EXCEPT ![Self] = [@ EXCEPT !.role = role, !.typed = TRUE]]
    /\ UNCHANGED <<known, ref, loaded>>

BecomeMaster ==
    /\ pc = "decide" /\ NeedsRole /\ Masters = {}
    /\ TakeRole("master")
    /\ wasMaster' = wasMaster \cup {Self}
    /\ pc' = "copyMaster"
    /\ UNCHANGED <<runVars, loopVars, image, commVars, diskVars, txt,
                   bootRole, asked, dropped, spent>>

StaySlave ==
    /\ pc = "decide" /\ NeedsRole /\ Masters # {}
    /\ TakeRole("slave")
    /\ pc' = "copySlave"
    /\ UNCHANGED <<runVars, loopVars, image, commVars, diskVars, txt, histVars>>

CopyMasterService ==
    /\ pc = "copyMaster"
    /\ svc' = "master"
    /\ pc' = "network"
    /\ UNCHANGED <<runVars, loopVars, image, mapVars, commVars,
                   net, alias, file, lock, rebooting, txt, histVars>>

\* Variant with a bug: a slave changes its network, too.
CopySlaveThenNetwork ==
    /\ pc = "copySlave"
    /\ svc' = "slave"
    /\ pc' = "network"
    /\ UNCHANGED <<runVars, loopVars, image, mapVars, commVars,
                   net, alias, file, lock, rebooting, txt, histVars>>

CopySlaveService ==
    /\ pc = "copySlave"
    /\ svc' = "slave"
    /\ pc' = "settle"
    /\ UNCHANGED <<runVars, loopVars, image, mapVars, commVars,
                   net, alias, file, lock, rebooting, txt, histVars>>

\* Variant with a bug: the exception is caught and run() goes on.
CopyFailureSwallowed ==
    /\ pc \in {"copyMaster", "copySlave"} /\ "copy" \in Faults
    /\ pc' = "settle"
    /\ UNCHANGED <<runVars, loopVars, image, mapVars, commVars, diskVars, txt,
                   histVars>>

\* The exception leaves run(); nothing catches it.
CopyServiceFails ==
    /\ pc \in {"copyMaster", "copySlave"} /\ "copy" \in Faults
    /\ Exit
    /\ UNCHANGED <<diskVars, txt>>

\* change_network_to_master and the second get_ips.  A copy of the interfaces
\* file that fails is logged and change_network_to_master still returns True.
ChangeNetwork ==
    /\ pc = "network"
    /\ \/ net' = "controller"
       \/ "interfaces" \in Faults /\ net' = net
    /\ pc' = "settle"
    /\ UNCHANGED <<runVars, loopVars, image, mapVars, commVars,
                   svc, alias, file, lock, rebooting, txt, histVars>>

\* D-Bus refuses to stop (nothing copied) or to start networking, or the
\* addresses do not come back: RuntimeError or TimeoutError out of run().
ChangeNetworkFails ==
    /\ pc = "network" /\ "network" \in Faults
    /\ net' \in {net, "controller"}
    /\ Exit
    /\ UNCHANGED <<svc, alias, file, lock, rebooting, txt>>

\* A master sleeps and publishes the alias; avahi-publish outlives the process.
Settle ==
    /\ pc = "settle"
    /\ \/ alias' = (alias \/ HasRole(heard[Self], "master"))
       \/ "alias" \in Faults /\ alias' = alias
    /\ pc' = "firstruns"
    /\ UNCHANGED <<runVars, loopVars, image, mapVars, commVars,
                   svc, net, file, lock, rebooting, txt, histVars>>

\* Variant with a bug: the iteration is not counted.
WaitUncounted ==
    /\ pc = "firstruns" /\ Firstruns # {} /\ tick < MaxWait
    /\ UNCHANGED vars

\* Variant with a bug: the bound is not tested.
WaitUnbounded ==
    /\ pc = "firstruns" /\ Firstruns # {}
    /\ tick' = tick + 1
    /\ UNCHANGED <<pc, firstRun, parsed, loopVars, image, mapVars, commVars,
                   diskVars, txt, histVars>>

WaitFirstrun ==
    /\ pc = "firstruns" /\ Firstruns # {} /\ tick < MaxWait
    /\ tick' = tick + 1
    /\ UNCHANGED <<pc, firstRun, parsed, loopVars, image, mapVars, commVars,
                   diskVars, txt, histVars>>

LeaveWait ==
    /\ pc = "firstruns" /\ (Firstruns = {} \/ tick >= MaxWait)
    /\ pc' = "discovered"
    /\ UNCHANGED <<runVars, loopVars, image, mapVars, commVars, diskVars, txt,
                   histVars>>

-----------------------------------------------------------------------------
(* Main thread: the merge.                                                 *)

\* discovered_macs = set(self.listener.nodes.keys())
TakeDiscovered ==
    /\ pc = "discovered"
    /\ found' = known
    /\ pc' = "iterate"
    /\ UNCHANGED <<runVars, iter, todo, cur, kept, image, mapVars, commVars,
                   diskVars, txt, histVars>>

\* The loop over listener.nodes.items() begins.
BeginMerge ==
    /\ pc = "iterate"
    /\ iter' = known /\ todo' = known
    /\ pc' = "merge"
    /\ UNCHANGED <<runVars, found, cur, kept, image, mapVars, commVars,
                   diskVars, txt, histVars>>

\* A node the map already holds: adopted is remembered ...
MergeKnown(m) ==
    /\ pc = "merge" /\ m \in todo /\ known = iter /\ ref[m] # "none"
    /\ kept' = Entry(m).adopted
    /\ cur' = m /\ todo' = todo \ {m}
    /\ pc' = "overwrite"
    /\ UNCHANGED <<runVars, found, iter, image, mapVars, commVars, diskVars,
                   txt, histVars>>

\* ... and every field is overwritten with what the listener has.
OverwriteEntry ==
    /\ pc = "overwrite"
    /\ PutEntry(cur, heard[cur])
    /\ pc' = "restore"
    /\ UNCHANGED <<runVars, loopVars, image, commVars, diskVars, txt, histVars>>

\* A new node: network_map[mac] = discovered_node, the listener's object.
MergeNew(m) ==
    /\ pc = "merge" /\ m \in todo /\ known = iter /\ ref[m] = "none"
    /\ kept' = FALSE
    /\ ref' = [ref EXCEPT ![m] = "shared"]
    /\ cur' = m /\ todo' = todo \ {m}
    /\ pc' = "restore"
    /\ UNCHANGED <<runVars, found, iter, image, known, heard, loaded, commVars,
                   diskVars, txt, histVars>>

\* Variant with a bug: adopted stays as it was overwritten.
NotRestored(node) == [node EXCEPT !.online = TRUE]
\* The two assignments that end a round, of either branch.
Restored(node) == [node EXCEPT !.adopted = kept, !.online = TRUE]

RestoreAdopted ==
    /\ pc = "restore"
    /\ PutEntry(cur, Restored(Entry(cur)))
    /\ cur' = Self /\ kept' = FALSE
    /\ pc' = "merge"
    /\ UNCHANGED <<runVars, found, iter, todo, image, commVars, diskVars, txt,
                   histVars>>

\* "dictionary changed size during iteration": the listener has inserted.
\* The shorter loops over listener.nodes can end the process in the same way,
\* which Crash stands for.
MergeRaises ==
    /\ pc = "merge" /\ known # iter
    /\ Exit
    /\ UNCHANGED <<diskVars, txt>>

\* Variant with a bug: nobody is marked offline.
NeverMarked(m) == Entry(m)
\* A node not discovered is marked offline.
Marked(m) ==
    IF m \in found THEN Entry(m) ELSE [Entry(m) EXCEPT !.online = FALSE]

\* The merge loop ends and the loop over network_map follows.
MarkOffline ==
    /\ pc = "merge" /\ todo = {} /\ known = iter
    /\ PutEntries([m \in Mac |-> Marked(m)])
    /\ pc' = "masters"
    /\ found' = {} /\ iter' = {}
    /\ UNCHANGED <<runVars, todo, cur, kept, image, commVars, diskVars, txt,
                   histVars>>

\* Variant with a bug: every node of an old map is adopted.
AdoptedUnlessFirstRun(node) ==
    [node EXCEPT !.adopted = HasRole(node, "master") \/ ~firstRun]
\* Variant with a bug: every start resets the nodes that are not master.
ResetAlways(node) == [node EXCEPT !.adopted = HasRole(node, "master")]
\* Variant with a bug: a master is only spared the reset.
MasterSpared(node) ==
    [node EXCEPT !.adopted = @ /\ (HasRole(node, "master") \/ ~firstRun)]
\* set_master_always_adopted
MasterAdopted(node) ==
    IF HasRole(node, "master") THEN [node EXCEPT !.adopted = TRUE]
    ELSE IF firstRun THEN [node EXCEPT !.adopted = FALSE]
    ELSE node

SetMasterAlwaysAdopted ==
    /\ pc = "masters"
    /\ PutEntries([m \in Mac |-> MasterAdopted(Entry(m))])
    /\ pc' = "write"
    /\ UNCHANGED <<runVars, loopVars, image, commVars, diskVars, txt, histVars>>

-----------------------------------------------------------------------------
(* Main thread: the map, the lock file and READY.                          *)

\* write_network_map up to the serialisation ...
SerialiseMap ==
    /\ pc = "write"
    /\ image' = Serialised
    /\ StringifyAll
    /\ pc' = "store"
    /\ UNCHANGED <<runVars, loopVars, commVars, diskVars, txt, histVars>>

\* ... and the file.  run() logs a failure and goes on.
StoreMap ==
    /\ pc = "store"
    /\ \/ file' = image
       \/ "store" \in Faults /\ file' = file
    /\ image' = Nothing
    /\ pc' = "lock"
    /\ UNCHANGED <<runVars, loopVars, mapVars, commVars,
                   svc, net, alias, lock, rebooting, txt, histVars>>

\* Variant with a bug: the lock is for slaves.
LockSlaves ==
    /\ pc = "lock"
    /\ lock' = HasRole(heard[Self], "slave")
    /\ pc' = "notify"
    /\ UNCHANGED <<runVars, loopVars, image, mapVars, commVars,
                   svc, net, alias, file, rebooting, txt, histVars>>

\* update_master_lock_file looks at self.node.
UpdateMasterLock ==
    /\ pc = "lock"
    /\ \/ lock' = HasRole(heard[Self], "master")
       \/ "lock" \in Faults /\ lock' = lock
    /\ pc' = "notify"
    /\ UNCHANGED <<runVars, loopVars, image, mapVars, commVars,
                   svc, net, alias, file, rebooting, txt, histVars>>

NotifyReady ==
    /\ pc = "notify"
    /\ pc' = "ready"
    /\ UNCHANGED <<runVars, loopVars, image, mapVars, commVars, diskVars, txt,
                   histVars>>

-----------------------------------------------------------------------------
(* Zeroconf thread: CuemsAvahiListener.  remove_service changes nothing.   *)

Hear(m) ==
    /\ pc \notin {"off", "start", "read"}
    /\ known' = known \cup {m}
    /\ heard' = [heard EXCEPT ![m] = Announced(txt[m])]
    /\ UNCHANGED <<pc, runVars, loopVars, image, ref, loaded, commVars,
                   diskVars, txt, histVars>>

AddService(m) == Hear(m)

\* An update for a node that was never added raises KeyError and is lost.
UpdateService(m) == m \in known /\ Hear(m)

-----------------------------------------------------------------------------
(* Communications thread: engine_callback, one request at a time.          *)

MapStable == pc \notin {"read", "merge"}

\* The request ends without a change: refused, or nothing to do.
AnswerAtOnce ==
    /\ cphase' = "answer"
    /\ UNCHANGED <<mapVars, job, cimage>>

\* The loop over network_map.values() finds no match, or raises because the
\* main thread is inserting.
NotFound(u) == (Matches(u) = {} \/ ~MapStable) /\ AnswerAtOnce

\* Variant with a bug: the map is not written.
SetWithoutWrite(m, op, flag) ==
    /\ PutEntry(m, [Entry(m) EXCEPT !.adopted = flag])
    /\ job' = [op |-> op, mac |-> m, late |-> (pc = "ready")]
    /\ cphase' = "answer"
    /\ UNCHANGED cimage

\* The flag changes in memory; write_network_map comes next.
SetAdopted(m, op, flag) ==
    /\ PutEntry(m, [Entry(m) EXCEPT !.adopted = flag])
    /\ job' = [op |-> op, mac |-> m, late |-> (pc = "ready")]
    /\ cphase' = "write"
    /\ UNCHANGED cimage

Adopt(u) ==
    /\ pc # "off" /\ cphase = "idle" /\ "ADD" \in Ops /\ Spend("request")
    /\ asked' = asked \cup {u}
    /\ \/ NotFound(u)
       \/ \E m \in Matches(u) :
             \/ Entry(m).adopted /\ AnswerAtOnce
             \/ ~Entry(m).adopted /\ ~Entry(m).online /\ AnswerAtOnce
             \/ ~Entry(m).adopted /\ Entry(m).online /\ SetAdopted(m, "ADD", TRUE)
    /\ UNCHANGED <<pc, runVars, loopVars, image, diskVars, txt,
                   bootRole, dropped, wasMaster>>

Unadopt(u) ==
    /\ pc # "off" /\ cphase = "idle" /\ "REMOVE" \in Ops /\ Spend("request")
    /\ dropped' = dropped \cup {u}
    /\ \/ NotFound(u)
       \/ \E m \in Matches(u) :
             \/ HasRole(Entry(m), "master") /\ AnswerAtOnce
             \/ /\ ~HasRole(Entry(m), "master")
                /\ \/ ~Entry(m).adopted /\ AnswerAtOnce
                   \/ Entry(m).adopted /\ SetAdopted(m, "REMOVE", FALSE)
    /\ UNCHANGED <<pc, runVars, loopVars, image, diskVars, txt,
                   bootRole, asked, wasMaster>>

InvalidAction ==
    /\ pc # "off" /\ cphase = "idle" /\ "INVALID" \in Ops /\ Spend("request")
    /\ AnswerAtOnce
    /\ UNCHANGED <<pc, runVars, loopVars, image, diskVars, txt,
                   bootRole, asked, dropped, wasMaster>>

SerialiseRequest ==
    /\ cphase = "write"
    /\ cimage' = Serialised
    /\ StringifyAll
    /\ cphase' = "store"
    /\ UNCHANGED <<pc, runVars, loopVars, image, job, diskVars, txt, histVars>>

\* The loop over the entries raises because the main thread is inserting; it
\* has come as far as done, and the error is the answer.
SerialiseRaises ==
    /\ cphase = "write" /\ ~MapStable
    /\ \E done \in SUBSET InMap :
          PutEntries([m \in Mac |-> IF m \in done THEN Stringified(Entry(m))
                                   ELSE Entry(m)])
    /\ cphase' = "answer" /\ job' = Idle
    /\ UNCHANGED <<pc, runVars, loopVars, image, cimage, diskVars, txt, histVars>>

\* Variant with a bug: the write is tried again without a bound.
StoreRetried ==
    /\ cphase = "store"
    /\ \/ file' = cimage /\ cphase' = "answer"
       \/ "store" \in Faults /\ file' = file /\ cphase' = "write"
    /\ cimage' = Nothing
    /\ UNCHANGED <<pc, runVars, loopVars, image, mapVars, job,
                   svc, net, alias, lock, rebooting, txt, histVars>>
\* A failure reaches engine_callback, which answers with the error; the flag
\* stays as it is in memory.
StoreRequest ==
    /\ cphase = "store"
    /\ \/ file' = cimage /\ UNCHANGED job
       \/ "store" \in Faults /\ file' = file /\ job' = Idle
    /\ cimage' = Nothing
    /\ cphase' = "answer"
    /\ UNCHANGED <<pc, runVars, loopVars, image, mapVars,
                   svc, net, alias, lock, rebooting, txt, histVars>>

\* respond_to_engine, and the next responder_get_request.
Respond ==
    /\ cphase = "answer"
    /\ cphase' = "idle" /\ job' = Idle
    /\ UNCHANGED <<pc, runVars, loopVars, image, mapVars, cimage, diskVars, txt,
                   histVars>>

-----------------------------------------------------------------------------
(* The machine and its neighbours.                                         *)

\* avahi-daemon reloads the service file.
Advertise ==
    /\ txt[Self] # svc
    /\ txt' = [txt EXCEPT ![Self] = svc]
    /\ wasMaster' = IF svc = "master" THEN wasMaster \cup {Self} ELSE wasMaster
    /\ UNCHANGED <<pc, runVars, loopVars, image, mapVars, commVars, diskVars,
                   bootRole, asked, dropped, spent>>

\* A neighbour takes its role, or is reset.
NeighbourChanges(m, role) ==
    /\ m # Self /\ Spend("change")
    /\ (txt[m] = "firstrun") # (role = "firstrun")
    /\ txt' = [txt EXCEPT ![m] = role]
    /\ wasMaster' = IF role = "master" THEN wasMaster \cup {m} ELSE wasMaster
    /\ UNCHANGED <<pc, runVars, loopVars, image, mapVars, commVars, diskVars,
                   bootRole, asked, dropped>>

Crash ==
    /\ pc # "off"
    /\ Exit
    /\ UNCHANGED <<diskVars, txt>>

\* powerbtn-custom-handler.sh, second press: the service file is reset; the
\* shutdown -r follows.
FactoryReset ==
    /\ ~rebooting /\ Spend("change")
    /\ svc' = "firstrun" /\ rebooting' = TRUE
    /\ UNCHANGED <<pc, runVars, loopVars, image, mapVars, commVars,
                   net, alias, file, lock, txt,
                   bootRole, asked, dropped, wasMaster>>

Reboot ==
    /\ Exit
    /\ alias' = FALSE /\ rebooting' = FALSE
    /\ UNCHANGED <<svc, net, file, lock, txt>>

-----------------------------------------------------------------------------
Main ==
    \/ FindMap \/ FindIpTimesOut \/ ReadDone
    \/ \E m \in Mac : ReadNode(m)
    \/ FindLocalNode \/ LocalNodeTimesOut
    \/ AlreadyConfigured \/ BecomeMaster \/ StaySlave
    \/ CopyMasterService \/ CopySlaveService \/ CopyServiceFails
    \/ ChangeNetwork \/ ChangeNetworkFails
    \/ Settle \/ WaitFirstrun \/ LeaveWait
    \/ TakeDiscovered \/ BeginMerge
    \/ \E m \in Mac : MergeKnown(m) \/ MergeNew(m)
    \/ OverwriteEntry \/ RestoreAdopted \/ MergeRaises \/ MarkOffline \/ SetMasterAlwaysAdopted
    \/ SerialiseMap \/ StoreMap \/ UpdateMasterLock \/ NotifyReady

Listener == \E m \in Mac : AddService(m) \/ UpdateService(m)

Serve == SerialiseRequest \/ SerialiseRaises \/ StoreRequest \/ Respond

Comms ==
    \/ \E u \in Uuid : Adopt(u) \/ Unadopt(u)
    \/ InvalidAction
    \/ Serve

World ==
    \/ Boot \/ Crash \/ FactoryReset \/ Reboot \/ Advertise
    \/ \E m \in Mac, role \in Role : NeighbourChanges(m, role)

Next == Main \/ Listener \/ Comms \/ World

Spec == Init /\ [][Next]_vars

-----------------------------------------------------------------------------
(* Type invariant.                                                         *)

PC == {"off", "start", "read", "listen", "decide", "copyMaster", "copySlave",
       "network", "settle", "firstruns", "discovered", "iterate", "merge",
       "overwrite", "restore", "masters", "write", "store", "lock", "notify", "ready"}

RunType ==
    /\ pc \in PC /\ tick \in 0 .. MaxWait /\ firstRun \in BOOLEAN
    /\ parsed \in Image /\ image \in Image

LoopType ==
    /\ found \subseteq Mac /\ iter \subseteq Mac /\ todo \subseteq Mac
    /\ cur \in Mac /\ kept \in BOOLEAN

MapType ==
    /\ known \subseteq Mac /\ heard \in [Mac -> Node]
    /\ ref \in [Mac -> {"none", "loaded", "shared"}]
    /\ loaded \in [Mac -> Node]

CommType ==
    /\ cphase \in {"idle", "write", "store", "answer"}
    /\ job \in [op : {"NONE", "ADD", "REMOVE"}, mac : Mac, late : BOOLEAN]
    /\ cimage \in Image

DiskType ==
    /\ svc \in Role /\ net \in {"node", "controller"} /\ alias \in BOOLEAN
    /\ file \in Image /\ lock \in BOOLEAN /\ rebooting \in BOOLEAN
    /\ txt \in [Mac -> Role]

HistType ==
    /\ bootRole \in Role /\ asked \subseteq Uuid /\ dropped \subseteq Uuid
    /\ wasMaster \subseteq Mac
    /\ spent \in [{"boot", "request", "change"} -> Nat]

\* Every variable keeps its type; the counter of the wait stays within its bound.
TypeOK == RunType /\ LoopType /\ MapType /\ CommType /\ DiskType /\ HistType

-----------------------------------------------------------------------------
(* Adoption.                                                               *)

\* A node that may be adopted: an ADD named its uuid, or it was a master.
Allowed(m) == UuidOf[m] \in asked \/ m \in wasMaster

\* No node is adopted, in memory or in the file, that nobody asked for and
\* that never was a master: not through the merge, the aliasing of the
\* listener's objects, the reset of a first run or an old map read back.
NoUnsolicitedAdoption ==
    \A m \in Mac :
        /\ m \in InMap /\ Entry(m).adopted => Allowed(m)
        /\ m \in file.macs /\ file.rows[m].adopted => Allowed(m)

\* What the map said of adoption when the process started still holds in
\* memory, whatever the listener announced and the merge overwrote, unless a
\* REMOVE came; only the round of the merge loop that is at m may differ.
AdoptionSurvivesBoot ==
    \A m \in InMap \cap parsed.macs :
        /\ parsed.rows[m].adopted
        /\ UuidOf[m] \notin dropped
        /\ ~(pc = "restore" /\ cur = m)
        => Entry(m).adopted

\* Past the merge, the states in which network_map is complete.
Merged == {"masters", "write", "store", "lock", "notify", "ready"}

\* The map that run() is about to write lacks no node of the map on disk,
\* although a request may have written that one in the meantime.
MapKeepsKnownNodes == pc = "store" => file.macs \subseteq image.macs

\* Once merged, the map shows as online only nodes that were heard of since
\* the process started: "online" from an earlier run never survives.
OnlineMeansHeard ==
    pc \in Merged =>
        \A m \in InMap : Entry(m).online => m \in known

\* A change asked for after READY is in the file when the engine is told OK,
\* for the nodes the map held when the process started, although writes before
\* it may have failed.
AckedChangeIsStored ==
    /\ cphase = "answer" /\ job.late
    /\ ref[job.mac] = "loaded"
    => file.rows[job.mac].adopted = (job.op = "ADD")

\* A process that serves no request keeps every node of the file and every
\* adopted one adopted, over however many starts, whatever the listener hears
\* and wherever the process ends.
BootKeepsFile ==
    [][spent["request"] = 0 =>
          /\ file.macs \subseteq file'.macs
          /\ \A m \in file.macs : file.rows[m].adopted => file'.rows[m].adopted]_vars

\* A file that lacks nodes at READY, because a request wrote it during the read and
\* run()'s own write failed, or because that was the first write, is whole again
\* when a change asked for after READY is answered with OK.
LateChangeMendsFile ==
    cphase = "answer" /\ job.late
    => InMap \subseteq file.macs /\ parsed.macs \subseteq file.macs

\* A master that the map held when the process started is adopted in the file
\* that a process without requests leaves, although the file may have had it
\* otherwise and the merge overwrote its entry.
KnownMasterIsAdopted ==
    /\ pc \in {"lock", "notify", "ready"}
    /\ spent["request"] = 0 /\ "store" \notin Faults
    => \A m \in parsed.macs : file.rows[m].role = "master" => file.rows[m].adopted

-----------------------------------------------------------------------------
(* Role.                                                                   *)

\* A node that starts configured keeps its role: no interleaving of the
\* listener makes run() assign one again (until an operator resets it).
IdempotentReentry ==
    pc # "off" /\ ~rebooting /\ bootRole # "firstrun" => svc = bootRole

\* This machine as RoleLedger sees it; the power button is the reset.
Ledger == INSTANCE RoleLedger
    WITH role <- svc, led <- wasMaster \ {Self} # {}, reset <- rebooting

\* The role is assigned as the ledger has it, although role, service file,
\* network and announcement change one by one and any of them may fail.
RoleIsAssigned == Ledger!Spec

\* controller.local is only published from a machine whose service file says
\* master, also after the process that published it is gone.
AliasBackedByService == alias /\ ~rebooting => svc = "master"

\* What makes a machine the controller (network configuration, alias, lock,
\* service file) is only found on one that took or announced that role.
MasterArtifacts ==
    net = "controller" \/ alias \/ lock \/ svc = "master" => Self \in wasMaster

\* On a node that started configured and with a map that holds it, READY
\* means that the lock file tells the role.
LockMatchesRole ==
    /\ pc = "ready" /\ ~rebooting /\ "lock" \notin Faults
    /\ bootRole # "firstrun" /\ Self \in parsed.macs
    => (lock <=> svc = "master")

-----------------------------------------------------------------------------
(* Progress.  Both threads are scheduled; every wait of run() has a bound. *)

FairSpec == Spec /\ WF_vars(Main) /\ WF_vars(Serve)

\* run() comes to READY or the process ends.
BootEnds == pc = "start" ~> pc \in {"ready", "off"}

\* The order of the places of run(); a round of the merge loop is one.
Place == [off |-> 0, start |-> 1, read |-> 2, listen |-> 3, decide |-> 4,
          copyMaster |-> 5, copySlave |-> 5, network |-> 6, settle |-> 7,
          firstruns |-> 8, discovered |-> 9, iterate |-> 10,
          merge |-> 11, overwrite |-> 11, restore |-> 11,
          masters |-> 12, write |-> 13, store |-> 14, lock |-> 15,
          notify |-> 16, ready |-> 17]
Round == [overwrite |-> 0, restore |-> 1, merge |-> 2]

Unread == parsed.macs \ InMap

\* The process ends or goes on to a later place, or stays in one of the three
\* loops, each of which has less to do then.
Advances ==
    \/ pc' = "off"
    \/ Place[pc'] > Place[pc]
    \/ /\ pc = "read" /\ pc' = pc
       /\ Unread' \subseteq Unread /\ Unread' # Unread
    \/ /\ pc = "firstruns" /\ pc' = pc
       /\ tick < tick' /\ tick' <= MaxWait
    \/ /\ pc \in DOMAIN Round /\ pc' \in DOMAIN Round
       /\ todo' \subseteq todo
       /\ todo' # todo \/ Round[pc'] > Round[pc]

\* Every step of run() advances it, and no other thread sets it back: neither a
\* record nor a request gives one of its loops more to do.
BootAdvances ==
    [][Advances \/ (~Main /\ UNCHANGED <<pc, tick, todo, Unread>>)]_vars

\* A request that was accepted is answered, unless the process ends.
RequestAnswered == cphase # "idle" ~> cphase = "idle"

-----------------------------------------------------------------------------
(* What documents and tests say and the code does not do.                  *)

\* README.md, Master Lock File: the lock exists if and only if the local
\* node is master.
LockIffMaster == pc = "ready" /\ ~rebooting => (lock <=> svc = "master")

\* tests/test_network_map.py: masters are always adopted.
MasterStaysAdopted ==
    pc = "ready" =>
        \A m \in InMap : Entry(m).role = "master" => Entry(m).adopted

\* tests/test_node_adoption.py: an ADD that changes nothing need not write the map.
\* One that is answered at once after READY finds its node adopted in the file too.
NothingChangedMeansStored ==
    [][\A u \in Uuid : Adopt(u) /\ pc = "ready" /\ UNCHANGED mapVars =>
          \A m \in Matches(u) \cap file.macs :
              Entry(m).adopted => file.rows[m].adopted]_vars
=============================================================================

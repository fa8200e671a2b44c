# A TLA+ model of cuems-nodeconf

`cuems-nodeconf` runs once at the start of every machine of a CUEMS cluster. It
decides whether the machine is the *master* (the controller) or a *slave*, keeps
the map of all nodes in `network_map.xml`, and lets the CUEMS engine adopt nodes
into a project. This directory holds TLA+ modules of that program, the TLC
configurations that check them on small instances, and theorems about them whose
proofs TLAPS checks for every instance.

Line numbers refer to the files under `src/`, to `CuemsNodeConf.py` where no file is named. `PROJECT.json` maps each definition
to the lines it models.

## 1. Inventory

### Components

| Component | State it keeps | Operations | What makes it correct |
|---|---|---|---|
| **Node orchestrator** `CuemsNodeConf.run` (main thread) | `network_map`, `node` (the local node), `is_first_run`, addresses | one pass: addresses, read the map, wait for the local service, take a role, wait for others, merge, write, lock file, READY; then it only sleeps | the pass ends; a configured machine keeps its role; what is derived from the role (network, alias, lock) agrees with it after any crash |
| **Role assignment** `set_node_type` | service file, `/etc/network/interfaces`, alias, on every machine | master when no master has been heard of, else slave | where there is a slave there is a master; a role is only taken away by a reset; nobody waits for ever |
| **Network map** | `network_map` and the file | `read_network_map`, `merge_discovered_nodes`, `set_master_always_adopted`, `write_network_map` | nodes that are known stay in the file; adoption is neither lost nor invented; "online" is of this run |
| **Adoption requests** `engine_callback` | the `adopted` flags | ADD, REMOVE, refusals | an acknowledged change is in the file; every accepted request is answered |
| **Communications thread** `AsyncCommsThread` | event loop, `stop_requested`, scheduled answers | connect, receive, call back, respond, stop | no answer that was not asked for, none twice; an adoption request is answered while it listens |
| **Zeroconf listener** `CuemsAvahiListener` | `nodes` (an object per mac), `ip` | `add_service`, `update_service`, `remove_service` | an entry is the last complete record heard; the local node is found by its address and nobody else is taken for it |
| **Node objects** `node`, `node_list` | a dict of fields | properties; `masters`, `slaves`, `firstruns` | node types compare as the enumeration they are |
| **Power-button reset** (shell, one instance per press) | service file, show lock, scheduled shutdown, the process table | first press: shutdown in a minute; second press: cancel it, service file back to first-run, restart | a reset that has cancelled the shutdown restarts the machine; it comes up with the first-run file |
| **Interface detection** `get_ips` | `ip`, `controller_ip` | poll `bridge0`, `ethernet1`, `bond0` until a timeout | an address or an exception |
| **XML conversion** `NodeXmlBuilders` | none | objects to XML | reading gives back what was written |
| **Hardware discovery** `CuemsHwDiscovery` (a program of its own) | mappings, retries, one socket | the master asks the slaves one after the other, a slave answers one connection, both write their mappings | every slave whose hardware arrived is in the result, a missing one has a reason, the program ends |
| Configuration server, Avahi tool, packaging | none that matters | echo, list, install | - |

### How they interact

`start()` first launches the communications thread and then calls `run()` on the
main thread; once the listener is created, a third thread (zeroconf) calls
`add_service` and `update_service`. The three share `listener.nodes` and
`network_map` and there is no lock. Two things make this sharing subtle:

* **Aliasing.** A node that the merge meets for the first time is put into
  `network_map` as *the listener's own object* (line 352). Later announcements
  rewrite it, and so do the adoption flag and the stringified type.
* **Two representations of a node type.** Comparisons are with members of the
  enumeration. `write_network_map` replaces the type in each object it writes by a
  string (line 313), after which every such comparison is false.

Between machines there is no message but the TXT record that avahi-daemon takes
from the service file: it arrives late, in any order or never, and
`remove_service` does not forget anything. The disk (service file, interfaces
file, `network_map.xml`, `master.lock`) and the `avahi-publish` process outlive
the process; systemd starts it again. The power button works on the same service file
from outside: acpid runs its handler once per press, and handlers of several presses run
side by side with each other and with `run()`.

The communications thread takes a message, calls `engine_callback`, which schedules a
coroutine for the answer, and takes the next one; it is a daemon and ends with the
process. Hardware discovery is started by others; it only reads `network_map.xml`, and
its master and slaves speak over one TCP connection each: four bytes of length and a
pickled object.

### What is hard in this code

The hazards in `PROJECT.json` list each at its line. In short: interleavings of
the three threads over the shared dicts (also exceptions when a dict grows under
an iteration), a flag read, overwritten and restored in three statements, flags set
before a write that may fail, crashes between role, service file, network and
alias, decisions on service records that are stale, machines that wait for each other,
comparisons that stop working after the first write, answers that are scheduled and not
given, presses of a button whose handlers overlap, a file that is removed before it is
made anew by a copy nobody checks, bytes that are sent and never read, and sockets without a
timeout.

## 2. Modules

| Module | What it is |
|---|---|
| `NodeRecord` | the node object: role, representation of the role, adopted, online |
| `NodeConf` | one machine: `run()`, the listener and `engine_callback`, on a disk, with crashes, restarts and resets |
| `RoleElection` | several machines that take roles from what they have heard of each other |
| `RoleLedger` | *abstract:* what the role assignment promises of one machine |
| `LocalDiscovery` | how a process comes to know its own node: `get_ips`, the listener's addresses, the two waits |
| `EngineComms` | the communications thread and its event loop |
| `RequestReply` | *abstract:* what the engine may count on |
| `PowerButton` | the power-button handlers, the service file and the power state |
| `MachineStart` | one machine from power-on to the knowledge of its own node: the three modules above composed, with avahi-daemon between them |
| `HwDiscovery` | the master and the slaves of the hardware discovery over their sockets |
| `MCNodeConf`, `MCRoleElection`, `MCMachineStart` | bounds and model values for TLC |
| `NodeConfProofs` | types, provenance of adoption and of the master's artifacts |
| `NodeConfMapProofs` | which nodes map, images and file hold, and which of them were heard of |
| `NodeConfAdoptionProofs` | adoption from the file through the merge and the requests back to the file |
| `NodeConfRoleProofs` | the role of a machine, its alias and its lock file, and that it implements `RoleLedger` |
| `NodeConfProgressProofs` | every step of `run()` advances it |
| `RoleElectionProofs` | the election, for any number of machines, and that each implements `RoleLedger` |
| `MachineStartProofs` | discovery, button and file of a starting machine, and that its thread implements `RequestReply` |
| `HwDiscoveryProofs` | the hardware discovery, for any number of slaves |

`NodeConf` and `RoleElection` share the role assignment: the first follows one
machine in full detail with neighbours that change at will, the second keeps
only the roles and makes the neighbours machines of the same kind. `MachineStart`
takes the start, which `NodeConf` has in three steps (`FindMap`, `FindIpTimesOut`,
`FindLocalNode`), apart into interfaces and addresses, and the serving of a request,
which `NodeConf` follows into the map, apart into the event loop's tasks.

### NodeConf against the code

*State.* `known`/`heard` are the keys and the objects of `listener.nodes`.
`network_map` is `ref` with `loaded`: `ref[m]` says whether the map has no entry for
`m`, an object read from the file, or the listener's object; `Entry(m)` is the object.
`svc`, `net`, `alias`, `file`, `lock` are what is on the disk or outside the process.
`txt` is what each node announces. `pc` is the statement `run()` is at, `cphase` the
one of the request being served. `bootRole`, `asked`, `dropped`, `wasMaster` are
history that only properties read; `spent` counts against the bounds.

*Main thread.* In the order of `run()`:

| Code | Actions |
|---|---|
| `get_ips`, is there a map (118-137) | `FindMap`, `FindIpTimesOut` |
| `read_network_map` (433-461) | `ReadNode` per element, `ReadDone` |
| `wait_for_local_service_registration`, `retreive_local_node` | `FindLocalNode`, `LocalNodeTimesOut` |
| `set_node_type` (244-298) | `AlreadyConfigured`, `BecomeMaster`, `StaySlave`, `CopyMasterService`, `CopySlaveService`, `CopyServiceFails`, `ChangeNetwork`, `ChangeNetworkFails` |
| sleep and alias (164-175) | `Settle` |
| wait for first-run nodes (177-188) | `WaitFirstrun`, `LeaveWait` |
| `merge_discovered_nodes` (337-361) | `TakeDiscovered`, `BeginMerge`, per node `MergeKnown` and `OverwriteEntry`, or `MergeNew`, then `RestoreAdopted`; `MergeRaises`, `MarkOffline` |
| `set_master_always_adopted` | `SetMasterAlwaysAdopted` |
| `write_network_map` | `SerialiseMap`, `StoreMap` |
| `update_master_lock_file`, READY | `UpdateMasterLock`, `NotifyReady` |

*Other threads.* `AddService`, `UpdateService`; `Adopt`, `Unadopt`,
`InvalidAction`, then `SerialiseRequest` (or `SerialiseRaises`), `StoreRequest`,
`Respond`. *The machine and the LAN.* `Boot`, `Crash`, `FactoryReset`, `Reboot`,
`Advertise`, `NeighbourChanges`.

*Granularity.* A step of the main thread is a piece of code in which it looks at or
changes shared state once, so that the other threads come in between any two of
them. The merge round is four statements and three steps, since `adopted` is
saved, overwritten and restored with nothing to prevent a request in between. A
request's lookup and its setting of the flag are one step; its write is a later
one.

*Modelling decisions.*

* `write_network_map` is one step that turns the types into strings and builds
  the image, and one that replaces the file. The XML writer is in
  `cuemsutils` and not in this repository: the file is the old image or
  the new one. A failed write raises; `run()` logs it and goes on, the
  request is answered with the error, and the change it made in memory stays there (`StoreRequest`).
  The loop that stringifies (304-333) and the building of the XML (335-336) are one step:
  the image has the fields as they are when the types are turned into strings, and what another
  thread changes between the loop and the builder is not followed.
* An iteration over `network_map` while the main thread inserts into it may
  raise: `NotFound` answers the request with the error, and `SerialiseRaises`
  stops the write with any part of the types turned into strings. An iteration
  over `listener.nodes` that raises ends the process: `MergeRaises` for the merge
  loop, and `Crash`, at any point, for the shorter loops.
* A request means any node with its uuid. With distinct uuids this is
  exact; with equal ones the code takes the first in the order of the dict.
* `Boot` has avahi-daemon announcing the current service file: the unit starts
  after avahi-daemon and the daemon reloads changed files. It is disabled between the
  reset and the reboot of the power-button script.
* `ChangeNetwork` may leave the interfaces file as it was: the copy's error is
  logged and swallowed (line 614). The code copies
  `interfaces.master`, a name under which the package ships no template.
* `check_nodes` and `check_missing_adopted_nodes` only log and are left out.
* A failed `add_service` and an update for an unknown node change nothing: they
  are the absence of a step here, and steps of `LocalDiscovery`. `remove_service`
  changes nothing either.
* The process goes on for up to a second after the reset of the service file, and may
  still copy a role over it.
* External, modelled as the outcomes `src/` distinguishes: zeroconf, avahi-daemon,
  netifaces, systemd over D-Bus, `avahi-publish`, sudo copies, the XML library.

### RoleElection against the code

`view[h][k]` is the type in `listener.nodes[k]` on machine `h`, `svc` the service
files, `txt` what is on the network, `phase` the place in `run()`. `Hear(h, k)` is
a record arriving, at any time and possibly never. `PowerOff` silences a machine,
`FactoryReset` includes the reboot. A machine remembers records of machines that
are gone until its process ends, as the listener does.

### MachineStart against the code

`MachineStart` EXTENDS its three parts; each of its actions is a step of one of them that
leaves the others alone, or one that ends several together.

| Code | Actions |
|---|---|
| `start()` (75-84) | `StartProcess`: the thread is started, then `run()` |
| `get_ips` (218-242) | `PollBridge`, `PollEthernet`, one round each, by `PollRound`; `PollTimesOut` |
| `add_service`, `update_service`, `remove_service` (`CuemsAvahiListener.py` 30-127) | `AddService`, `UpdateService`, `RemoveService`, with `Preferred` for the choice of the address |
| the waits for the local node (494-519) | `SeeLocalNode`, `RetrieveLocalNode`, `LocalNodeTimesOut`, `IterationRaises` |
| `engine_listener` (`communicate.py` 59-64) | `Connect`, `TakeModify`, `TakeOther`, `TakeGarbled` |
| `respond_to_engine`, `stop`, `stop_async` (43-68) | `Respond`, `RequestStop`, `StopLoop` |
| `sys.exit`, the daemon thread | `GiveUp` with `EndThread` |
| `powerbtn-custom-handler.sh` (`RunScripts`) | `Push` (13-16), `Search` (18-21), `StartWaiter` (23), `ScheduleHalt` (23-24), `CancelHalt` (28), `RemoveFile` (31), `CopyFirstRun` (32), `Restart` (33-34) |
| the machine | `MinutePasses`, `HaltFires`, `LosePower`, `PowerOn` with what ends with the machine (`EndsWithMachine`), `Announce` |

`BesideSpec` is the same machine with `run()` left out (`BesideRun`): a process that starts and ends
at any time with its thread, beside the button. Neither the thread nor the handlers look at what
`run()` does, so that its run affords more presses and requests than that of the whole machine.

*State.* `proc`, `round`, `ip` are where `run()` is, the round of `get_ips` and `self.ip`.
`entry[m]` is the `ip` of the node object of `m`; `browsed` is what the library's
ServiceBrowser knows, which decides whether it calls `add_service` or `update_service`.
`local` is the set of nodes `retreive_local_node` may return, since the order of the dict
is not modelled. `loop` is the event loop, "deaf" once its listener task has ended,
`state[r]` how far the message `r` is. `script[p]` is the command the handler of press
`p` is at; `service` says whether the service file has a role, the first-run one, or is
missing or of no use. `power` is "on" or how the machine went down: by the `shutdown -r` of a
reset, by the scheduled `shutdown -h`, or by a cut. `usable` and `spoilt` are history.

The script checks neither its `rm` nor its `cp`: `RemoveFile` may leave the file, and `CopyFirstRun`
may leave what was there or nothing (no template, a full disk, half a file), after which the
script goes on to its restart. `spoilt` remembers that, or that the machine went down between
the two, until a copy works.

*External, and what is assumed of it.* `Timeoutloop` raises `TimeoutError` after its last
round. A record has at least one address of its machine, in any order, or is incomplete.
`LinkAssumption`: nobody else on the LAN has the link-local address of this machine,
which RFC 3927 makes sure of; a neighbour may share any other address.
`responder_get_request` decodes a message and calls the callback, or raises. acpid runs a
handler per press at once. A waiter's process is the one `pgrep` finds. A scheduled
shutdown takes a minute (`MinutePasses`, which makes it "due"), and the handler about a second
from `shutdown -c` to `shutdown -r now`: a minute does not pass in that second, so a shutdown
that another press schedules within it comes too late. One that is already due when the second
press comes may still fire before its `shutdown -c`; then the machine halts and nothing was
reset, which is why `ResetRestarts` begins after that command.

### HwDiscovery against the code

| Code (`CuemsHwDiscovery.py`) | Actions |
|---|---|
| `check_node_role`, `local_hwd` (85-144, 273-299) | `CheckNodeRole`, `LocalHwd`, or the program ends |
| the loop over the slaves (152) | `NextSlave`, `Skip` for an exception that costs one slave, the end of `Refused` for the `break` |
| `connect` (155-172) | `Connect`, `Refused`, `ConnectRaises` |
| the header (174-178) | `RecvHeader`: each `recv` replaces `buf`, so that a part that comes alone is lost |
| the object (181-206) | `RecvChunk`, `BreaksOff`, `RecvRaises`, `Unpicklable` |
| `extend` (208-210), `write_mappings_file` | `Join`, `WriteMappings` |
| `serve_local_settings` (212-249) | `Serve`, `SendHeader`, `SendBody`, `SendFails`, `WriteOwn` |

A connection is two counters, `sent` and `read`: TCP delivers what was sent in order and
in any pieces. `recv` returns between one unit and all that is there, the empty string
when the peer has ended (`Ended`), an exception when it has reset the connection, and
nothing, for ever, when its machine is lost. `send` only hands bytes to the kernel: a slave may
go away at any place, also after its last `send` and with the mappings written (`Die`), and
unless its connection is closed in order any part of what the master has not read is lost. A
header that was read in pieces makes the master take other bytes for the length: `size` is then
anything. `refused` and `skewed` are history.

`Ported` is whether the nodes of the map have a port. In this repository they have none
(`CuemsNode.py` has no such property, `network_map.xsd` no such element), so that lines 160 and 217
raise on every node: that is `Ported = FALSE`, the run `no_port`, finding 5 and the theorem
`UnportedSkipped` (every slave is passed and none ends the loop).
With `Ported = TRUE`, the run `hwd`, the module is the program that `README.md` documents: the code
of `network_hwd` as it is, over nodes that have the port it asks them for.

## 3. What is checked

### Properties

| Property | In words | What could break it |
|---|---|---|
| `NoUnsolicitedAdoption` | no node is adopted, in memory or file, that no ADD named and that never was master | aliasing, the merge, the reset of a first run, an old map read back |
| `AdoptionSurvivesBoot` | an adoption in the file at the start holds in memory until a REMOVE | `adopted` overwritten by the announced object |
| `MapKeepsKnownNodes` | the image `run()` is about to store has every node of the file | a request served while the map is incomplete, offline nodes |
| `OnlineMeansHeard` | once merged, a node shown online was heard of in this run | `online` read back from the file |
| `AckedChangeIsStored` | a change asked for after READY is in the file when OK is sent | two writers, a write that is left out, earlier writes that failed |
| `BootKeepsFile` | a process that serves no request takes no node and no adoption out of the file, over any number of starts | the reset of a first run, a merge or write cut short anywhere, the announced `adopted` |
| `KnownMasterIsAdopted` | in the file `run()` leaves, if no request came, masters the map held are adopted | the stringified type, the merge that overwrites the flag after it was read |
| `IdempotentReentry` | a machine that starts configured keeps its role | records that arrive before the decision |
| `AliasBackedByService` | the alias is only published while the service file says master | a crash or failure between role, file and alias; the old `avahi-publish` |
| `MasterArtifacts` | controller network, alias, lock and file only on a machine that was master | a slave going through the master's branch |
| `LockMatchesRole` | on a machine started configured and with itself in the map, READY means lock = role | the stringified type, listener updates |
| `BootEnds` | `run()` comes to READY or the process ends | the waits |
| `BootAdvances` | every step of `run()` goes to a later place or shortens the loop it is in, and no other thread sets it back | nodes that arrive during a loop, an uncounted round |
| `RequestAnswered` | an accepted request is answered or the process ends | errors in the write |
| `SlaveFollowedMaster` | a slave was preceded by another master | stale records, failures |
| `SlavesHaveMaster` | without resets, where there is a slave there is a master | failures after the decision, restarts |
| `RoleIsKept` | a step takes a role from a service file only by a reset | a second assignment |
| `NobodyWaitsForever` | a machine that waits for first-run nodes leaves the wait | machines that wait for each other, records of machines gone |
| `RoleIsAssigned`, `RolesAreAssigned` | a machine, and every machine of a LAN, implements `RoleLedger`: one decision out of first-run, a slave only after another master, first-run again only by a reset | any step that touches role, file or announcement out of turn; a reset while the role is being copied |
| `AddressIsKnown` | `run()` never goes on from `get_ips` without an address | a round that finds `bond0` without an address |
| `LocalNodeIsSelf` | the node `run()` takes for its own is its own | a neighbour whose first address is one both machines have |
| `UsableIsFindable` | if the last complete record of this node has the address of `get_ips`, it is the one kept | a record whose first address is another one |
| `StartEnds` | `run()` comes to know its node or gives up | dropped records, an update without an entry, interfaces that never come, an iteration that raises |
| `LostFileHasReason` | the service file is only missing when a `cp` failed, the machine went down between an `rm` and its `cp`, or a handler is between them | three presses, two resets side by side, the order of the two commands |
| `RestartsFirstRun` | a machine that a reset restarts has the first-run file, but for the same two reasons | a reset that restarts the machine while another is half done; a role file that stays |
| `LostFileMeansSilence` | a machine whose service file is lost, past the restart of the reset that lost it, never knows its own node | records of an earlier life, a reset that does not restart |
| `ResetRestarts` | a reset that has cancelled the scheduled shutdown ends in a restart, unless the power is cut: no scheduled shutdown wins over it | a shutdown that is not cancelled, or scheduled after it by the waiter of the first press |
| `ModifyIsAnswered` | an adoption request waiting to be read is answered, or its answer fails, or the thread stops listening | a branch of the callback that schedules nothing, requests that overtake answers |
| `RepliesKeepContract` | the thread implements `RequestReply`: no answer that was not asked for, none twice and none to another request than the one handled | answers scheduled before, and given after, later messages, `stop` or the end of the task |
| `SentMeansListed` | a slave that has sent all its settings, and whose machine and connection last, is in the mappings the master writes, unless its header came in pieces | partial reads, counters carried over from one slave to the next |
| `MissingIsExplained` | a slave that is missing from them went away before its bytes had arrived, sent its header in pieces, comes at or after one that refused, or the nodes have no port | an exception of one slave that ends the loop |
| `DiscoveryEnds` | the master's program ends, unless it is in one of two waits: for the rest of a header that ended, or for a machine that is lost | uncounted refusals, sockets without a timeout |
| `MasterAdvances` | every step of the master's program goes on to the next slave or a later place, or nears the bound of its loop; no slave sets it back | an exception that leaves a slave half done, a wrong length, counters carried over |

`AckedChangeIsStored` is about nodes whose entry is an object read from the file;
for entries shared with the listener it does not hold, since an announcement may
clear the flag between the request and the write (see finding 2). `AdoptionSurvivesBoot`,
`KnownMasterIsAdopted` and `LockMatchesRole` are about such nodes too.

Two more are theorems without a run: `LateChangeMendsFile` (a change after READY that is answered with
OK leaves a file with every node of the map, whatever earlier requests and failed writes left out)
and `UnportedSkipsEach` (above).

`BootAdvances` and `MasterAdvances` are the safety half of `BootEnds` and `DiscoveryEnds`:
they need no fairness and say that no step is taken in vain. Places are finite, and each of
the three loops has something that shrinks (nodes unread, rounds left, nodes to merge; tries,
bytes of the stream, bytes of the object), so that only finitely many steps can follow one
another. What remains for liveness is that a step is taken while one can be, and that some
step always can be, which `BootEnds` and `DiscoveryEnds` check. A `recv` that returns the empty
string for ever (line 176) changes nothing and is a stuttering step here: `DiscoveryEnds` names it.

*Abstract specifications.* `RoleLedger` has the role of one machine, whether another has
been master, and a token that a reset changes. `RoleElection` implements it once per
machine, with the count of resets as the token; `NodeConf` implements it with
`rebooting` as the token, although role, service file, network and announcement
change one by one and any step between them may fail. `RequestReply` has the open and the
answered requests; `EngineComms` implements it with a request open from the moment it is
sent until it is answered, ignored or lost. Both are checked as properties of runs and
proved as theorems.

### Runs

| Run | Bounds | Shows |
|---|---|---|
| `adoption` | 2 nodes, 2 process starts, 1 request per process, `MaxWait` 0, ADD/REMOVE/INVALID | the adoption and map properties under all interleavings and crashes (1.5 million states) |
| `roles` | 2 nodes, 2 starts, 2 changes (reset of this machine or role of the neighbour), all failures but that of the lock file | the role properties and `RoleIsAssigned` (3.7 million) |
| `progress` | 2 nodes, 1 start, 1 ADD, failing store, `MaxWait` 1 | that `run()` advances and ends, and that requests are answered (0.3 million) |
| `election` | 2 machines, 5 starts, 1 reset, failures of copy and network, `MaxWait` 2 | the election properties (0.2 million) |
| `start` | 2 nodes that share one address, 1 request, 2 presses, 2 rounds of `get_ips` | the properties of the composed start (0.3 million) |
| `beside` | 3 presses, 2 requests, `run()` left out | the properties of the power button and of the communications thread (0.3 million) |
| `hwd` | 2 slaves, objects of 3 units (the header has 2), 3 retries, nodes with a port | the properties of `HwDiscovery` (0.2 million) |
| `lock_iff_master`, `master_adopted`, `unstored_adoption`, `single_master`, `no_port` | as small as shows it | one finding each |

*Why these bounds.* Each property of one machine speaks of one node and the local
node, and the code treats all others alike, so two nodes show every case of it; the
other node is a neighbour or, in another behaviour, the one asked for. Two starts give
a run with an empty disk and one that finds what the first left, crashed at any
point; a request in each gives a write before, during and after every step of `run()`. More requests and
writes that fail before a late change are left to the theorems `LateChangeStored` and `LateChangeMends`.
Two changes let the neighbour become master before or after the decision and a reset
happen before it. `MaxWait` (60 rounds in the code) only matters as zero or more.
Two machines suffice for the election: a slave, and the master it has heard of, which
fails, restarts, is reset and then hears of the first one in turn; five starts let each
of them start twice, and one a third time. That more machines change nothing is what the
theorems show.

In `start`, one neighbour is every neighbour, since only an address that both have makes
it differ from silence. Two presses are a reset, and two rounds are one that fails and one that
finds what the first left behind. In `beside`, three presses can begin two resets side by side
(the second and third both find the waiter of the first), while that waiter schedules its shutdown
before, between or after them. Two requests are one whose answer is due and one taken before that
answer is given, or still waiting when the listener stops or dies; `stop`, the end of the process
and that of the machine come at every point. The safety properties are theorems for any number of both.
In `hwd`, two slaves are one that fails and one after it; an object of three units can come
whole, in two or three pieces, or break at its beginning, in the middle or one short, as a header of
two units can; three refusals are one, one more, and the last.

*Deadlock* is checked in every run but those of `HwDiscovery`, whose program ends on every
machine: the last state of a bounded behaviour of the others is never one without a step,
since avahi, crashes, the power and reboots go on.

### Fairness

`FairSpec` of `NodeConf` is weak fairness of `Main` (the steps of `run()`) and of
`Serve` (the steps of a request that was taken). Both are threads the operating system
schedules, each wait in `run()` has a timeout or a bounded number of rounds, and the
communications thread serves one request at a time to its end. Nothing is assumed of
the listener, of arriving requests, of crashes or of avahi. In `RoleElection` it is
weak fairness of `Run(h)` for each machine; records may never arrive. `MachineStart` has
weak fairness of `RunProcess`, `RunComms` and `RunScripts`: a thread that can go on does,
and so does the shell that runs the handlers, while the machine is on; nothing is assumed
of interfaces, records, the engine, the operator or the power. `BesideSpec` has the same of
the event loop and the shell; nothing makes the minute of a shutdown pass. `HwDiscovery` has weak
fairness of the master's program and of each slave's answer, and none of a slave's
start or failure.

### Sensitivity

For every property of a passing run the modules have a variant of one definition, named
in a comment "Variant with a bug", e.g. `NotRestored` (the merge forgets to put
`adopted` back) or `WaitForAll` (the wait has no bound). With the variant in place of
the definition, TLC finds the property violated under the same configuration. They are
listed in `PROJECT.json` under `mutants` and are not used by any specification.

## 4. What disagrees with documents and tests

1. **Lock file** (`lock_iff_master`). `README.md:475` says the lock exists if and only
   if the local node is master. On a first run the local entry of the map is the
   listener's object; writing the map turns its type into a string before
   `update_master_lock_file` compares it (line 549). The new master has no lock until
   it is restarted. For the same reason a REMOVE of a master is carried out, of which
   `tests/test_node_adoption.py:191` says that it fails: after a write the comparison at line 411 is
   with a string.
2. **Masters are adopted** (`master_adopted`). `tests/test_network_map.py:96` says
   they always are. A record that arrives after the merge overwrites the shared
   object with `adopted` false. What remains true is `KnownMasterIsAdopted`: a master that the
   map held before is adopted in the file that `run()` leaves.
3. **Nothing changed** (`unstored_adoption`). `tests/test_node_adoption.py:73`: an ADD for an adopted
   node "should not write network map since nothing changed". A write that
   fails leaves the flag in memory; a second ADD to the same process finds the node adopted, answers
   OK and does not write, and the file still lacks the adoption. It needs no failure either: `run()`
   serialises the map, an ADD sets its flag and stores its own image, and `run()` then stores the older
   one (line 195).
4. **Single master** (`single_master`). `README.md:366` promises one, with races
   resolved deterministically. Two machines that decide before either announces its role
   both become master and stay so.
5. **Every slave's hardware** (`no_port`). `README.md:217` and `README.md:288` document a port for
   every node, and `CuemsHwDiscovery.py:150` says that each node's settings are retrieved. Neither
   class nor schema has a port: line 160 raises for every slave, as line 217 does on the slave, and
   the master writes its own hardware alone.

A neighbouring case is not called a finding, since the sentence it touches (`README.md:388`, an
incomplete map is rejected) is about the schema: a request served while `read_network_map` fills the
map writes the part read so far over the file, and a crash before the next write loses the rest.

These runs are expected to end with a counterexample; each checks the sentence quoted.

## 5. What is proved

All theorems hold for any set of nodes or machines, any assignment of uuids (also
one uuid for all, as the shipped service templates have it), any requests, faults
and bounds. The assumptions are those named in the modules: `Self \in Mac`, `UuidOf`
maps nodes to uuids, `MaxWait` and the limits are naturals, `LinkAssumption` (above),
and objects and retries of at least one.

| Theorem | Statement | Invariant behind it |
|---|---|---|
| `NodeConfProofs!TypeCorrect` | `[]TypeOK` | itself |
| `NodeConfProofs!AdoptionIsSolicited` | `[]NoUnsolicitedAdoption` | `Provenance` |
| `NodeConfProofs!ArtifactsOfMaster` | `[]MasterArtifacts` | `Provenance` |
| `NodeConfMapProofs!MapKeepsNodes` | `[]MapKeepsKnownNodes` | `Origin`, `FileCovered` |
| `NodeConfMapProofs!OnlineWasHeard` | `[]OnlineMeansHeard` | `HeardFirst` |
| `NodeConfAdoptionProofs!AdoptionSurvives` | `[]AdoptionSurvivesBoot` | `Origin`, `KeptInHand` |
| `NodeConfAdoptionProofs!LateChangeStored` | `[]AckedChangeIsStored` | `LateChange` |
| `NodeConfAdoptionProofs!LateChangeMends` | `[]LateChangeMendsFile` | `Origin`, `LateChange` |
| `NodeConfAdoptionProofs!FileKept` | `BootKeepsFile` | `Origin`, `FileCovered`, `KeptInHand`, `Undisturbed` |
| `NodeConfAdoptionProofs!MastersAdopted` | `[]KnownMasterIsAdopted` | `Origin`, `TypedUnlessShared`, `Undisturbed`, `MastersInHand` |
| `NodeConfProgressProofs!RunAdvances` | `BootAdvances` | types only |
| `NodeConfRoleProofs!LockKept` | `[]LockMatchesRole` | `Origin`, `RoleInv`, `TypedUnlessShared`, `LockTells` |
| `NodeConfRoleProofs!RoleKept` | `[]IdempotentReentry` | `RoleInv` |
| `NodeConfRoleProofs!AliasBacked` | `[]AliasBackedByService` | `RoleInv` |
| `RoleElectionProofs!TypeCorrect` | `[]TypeOK` | itself |
| `RoleElectionProofs!SlavesFollowed` | `[]SlaveFollowedMaster` | `Election` |
| `RoleElectionProofs!SlavesAreLed` | `[]SlavesHaveMaster` | `Election` |
| `RoleElectionProofs!RolesKept` | `RoleIsKept` | `Election` |
| `RoleElectionProofs!LedgersKept` | `RolesAreAssigned`: the LAN implements `RoleLedger` for each machine | `Election` |
| `NodeConfRoleProofs!LedgerKept` | `RoleIsAssigned`: one machine in detail implements `RoleLedger` | `RoleInv`, `Provenance`, `LedgerInv` |
| `MachineStartProofs!TypeCorrect` | `[]TypeOK` | `StartInv` |
| `MachineStartProofs!AddressKnown` | `[]AddressIsKnown` | `DiscoveryInv` |
| `MachineStartProofs!LocalNodeFound` | `[]LocalNodeIsSelf` | `DiscoveryInv` |
| `MachineStartProofs!UsableFound` | `[]UsableIsFindable` | `DiscoveryInv` |
| `MachineStartProofs!LostFileReason` | `[]LostFileHasReason`, for any number of presses, with and without `run()` | `ButtonInv` |
| `MachineStartProofs!FirstRunRestarts` | `[]RestartsFirstRun`, likewise | `ButtonInv` |
| `MachineStartProofs!LostFileIsSilent` | `[]LostFileMeansSilence` | `SilenceInv`, `DiscoveryInv` |
| `MachineStartProofs!ContractKept` | `RepliesKeepContract`: the thread, with and without `run()`, implements `RequestReply`, for any number of requests | types only |
| `HwDiscoveryProofs!TypeCorrect` | `[]TypeOK` | `HwInv` |
| `HwDiscoveryProofs!DiscoveryAdvances` | `MasterAdvances`, for any number of slaves | `HwInv` |
| `HwDiscoveryProofs!SentIsListed` | `[]SentMeansListed`, for any number of slaves | `HwInv` |
| `HwDiscoveryProofs!MissingHasReason` | `[]MissingIsExplained`, for any number of slaves | `HwInv` |
| `HwDiscoveryProofs!UnportedSkipped` | `[]UnportedSkipsEach`, for any number of slaves | `HwInv` |

*Provenance.* `NoUnsolicitedAdoption` looks at the map and the file, but a flag also
travels through places it does not look at: the parsed file, the two images being
written, `preserved_adopted` and the listener's objects of nodes that are not in the map
yet. The invariant says of each of them that a set flag is allowed, and of each place
from which "master" can be read (announcements, the listener's objects, the map, the
images and the file) that it names a node that was master. Each step then moves
flags between such places, and only `Adopt` and `SetMasterAlwaysAdopted` set one.

*What map, images and file hold.* `Origin`: once `read_network_map` is done, every node it parsed
is in the map, with the object that was read and not the listener's. `FileCovered`: every node
of the file was parsed or is in the map, although a request may have replaced the file meanwhile
(with the part of the map read so far): what a request writes is in the map. So the image of `run()` lacks nothing, as
`MapKeepsKnownNodes` says, whose own statement is about one moment only.

*HeardFirst.* "Online" comes from the file or from the merge. The nodes the merge still has to
look at, those it has found and those whose entry is the listener's object were all heard of;
`MarkOffline` clears the others, and whatever writes the map later keeps the flag as it is,
stringified or not (`Softens`, the lemma on what the first half of `write_network_map` does to an
object).

*KeptInHand.* Between the three statements of the merge round the flag of the current node is
in `preserved_adopted` alone. The invariant says that it is there, or in the entry, or both, for
every node that was adopted in the parsed file and that no REMOVE named, and in the image that
`run()` is about to store. `Undisturbed` adds that without requests the file is still the parsed
one until `run()` stores its own, so that what is kept in memory is what was in the file; from the
two follows `BootKeepsFile`, at whatever point the process ends.

*LateChange.* After READY nothing but requests writes, one at a time, so that the flag a request
sets is carried into its image and from there into the file (`Carries`), together with all nodes
of the map. A write that fails ends the claim with the error it is answered with, and leaves nothing
the next request relies on. Requests taken before READY race with the image of `run()`, and nothing is claimed of them.

*MastersInHand.* That a master is recognised at all needs its type to be a member of the
enumeration when `set_master_always_adopted` looks at it: without requests nothing is stringified
before. It then carries the flag from the entry to the image and to the file.

*The lock.* `update_master_lock_file` comes after the write, which stringifies the types of
the map; yet it looks at the local node, which is the listener's object, and by `TypedUnlessShared`
that one keeps its type as long as the map has an object of its own for the node. By
`RoleInv` it then says what the service file says; `LockTells` carries this to READY.

*RoleInv.* The announcement lags the service file, and the local object in memory runs
ahead of it while the service file is being copied. The invariant says, for each phase, how
service file, announcement, memory and the role at the start are related, and that the
listener knows nobody before it is created; from this a configured machine never
sees itself as first-run, and the alias is only reached with the service file written.

*Election.* Whatever says "master" of machine `k`, a record on the network or in
somebody's memory, means that `k` is or has been master; and a machine about to copy the
slave's service file has heard so of another one. Without resets "has been" is "is",
since no step but a reset takes the role away.

*The ledger.* Each step of the detailed machine is a step of the ledger or leaves its three
variables alone. Two things are needed beyond the above: `LedgerInv` says that a process
that goes on after a reset still finds "firstrun" in the service file up to its copy, and
that whoever is about to copy the slave's file has another master in its past, which
follows from `Provenance` since only a record that says "master" makes a slave.

*MachineStart.* A step of the machine is a step of each of its parts or leaves the part
alone (`StepsOfTheParts`), so that each part has its own invariant: `DiscoveryInv` (an
entry has an address of its node, the one looked for if it is among those last announced, and
only this node has it), `ButtonInv` and `SilenceInv`. `ButtonInv` adds to what it proves the
state before a restart: while a script sleeps before its `shutdown -r`, the file is the first-run
one, is spoilt, or another script is between its `rm` and its `cp`; going down there spoils it.
`SilenceInv`: without a file, and with no script past its `rm`, there is neither an announcement nor an
entry of this node, since the reset that lost it restarted the machine.

*HwInv.* The slaves fall into those before the one asked, each with a reason to be listed
or not, that one, and those after it, which are untouched; and as long as the header was
read at once, `read` and `recd` say where in the stream the master is, so that it
unpickles the whole object or nothing. A slave before the one asked is explained for good: what is lost
with its machine is never sent again.

*Advances.* `BootAdvances` follows from types alone, action by action: each step of `run()`
names the place it goes to, and each step of another thread leaves `pc`, `tick`, `todo` and the
nodes to be read alone. `MasterAdvances` needs `HwInv` for the bounds: a slave's stream is never
longer than its header and object, and the counters start anew for each slave.

**Only model-checked.** Liveness (`BootEnds`, `RequestAnswered`, `NobodyWaitsForever`,
`StartEnds`, `ResetRestarts`, `ModifyIsAnswered`, `DiscoveryEnds`) rests on fairness and `ENABLED`,
which the prover does not handle. Every safety property of the passing runs is a theorem.

## 6. What is not modelled

* The configuration server (an echo server nothing starts: `socketserver` does all of it,
  and it keeps no state), the Avahi tool (a command that prints what it sees), packaging.
* Which outputs `local_hwd` finds, and the layout of the mappings.
* Who makes and removes the show lock: it is there or not at a press.
* That a reset survives: `set_node_type` may copy a role over the first-run file in the last second
  of the process. `PowerButton` has the scripts alone, and `RestartsFirstRun` is about them; the late
  copy is in `NodeConf`, where `RoleIsAssigned` says that it is still one decision out of first-run.
* An answer to a message whose action is not `nodelist_modify`, a listener that survives an
  exception, an interfaces file that is surely in place: the code gives none of these and no document
  asks for them. The models have the behaviour; the hazards say so.
* Names, uuids, ports and aliases as text; log messages; the schema.
* What a uuid that is read from the file compares equal to. `NodeXmlBuilders` and the parser
  of `cuemsutils` make it an object of a class that is not in the repository, and whether a
  request finds the node hangs on that class alone.
* An abstract map that `NodeConf` would refine. The findings show why there is none worth
  stating: adoption is lost by a later announcement (2), a failed write or an older image (3), nodes by
  a request during the read. What does hold is stated by the properties of the run
  `adoption`; the nearest to an abstract map is `BootKeepsFile`, for a process without requests.

## 7. Plan

What was planned for the model is built, but for the conversion of uuids and the abstract map
(section 6), and the safety properties of all passing runs are proved. What is left:

1. the safety half of the other liveness properties, as `BootAdvances` is that of `BootEnds`: a
   reset, the start and the event loop never go back, and a machine's wait in `RoleElection` has a
   bound that comes nearer;
2. that the two views of a component agree: `NodeConf`'s start (`FindMap`, `FindLocalNode`) and
   `MachineStart`, and a request in `NodeConf` and in `EngineComms`.

## 8. Running

    tlc -config adoption.cfg MCNodeConf.tla
    tlc -config election.cfg MCRoleElection.tla
    tlc -config start.cfg MCMachineStart.tla
    tlc -config beside.cfg MCMachineStart.tla
    tlc -config hwd.cfg HwDiscovery.tla
    tlapm NodeConfProofs.tla
    tlapm NodeConfAdoptionProofs.tla

The other configurations and modules likewise; `PROJECT.json` names the module
of each run.

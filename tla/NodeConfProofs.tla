---------------------------- MODULE NodeConfProofs ----------------------------
(***************************************************************************)
(* Proofs about NodeConf, for any set of nodes, any assignment of uuids    *)
(* (also the same one for all), any requests, faults and bounds.           *)
(***************************************************************************)
EXTENDS NodeConf, TLAPS

USE SelfAssumption, UuidAssumption, WaitAssumption, LimitAssumption

-----------------------------------------------------------------------------
(* The helpers on the map.                                                 *)

\* An entry of network_map is a node object, whichever object it is.
LEMMA EntryType ==
    ASSUME MapType, NEW m \in Mac
    PROVE  Entry(m) \in Node
  BY DEF MapType, Entry

\* The placeholder has the shape of a node object.
LEMMA BlankType == Blank \in Node
  BY DEF Blank, Node, Role

\* The empty map is a map.
LEMMA NothingType == Nothing \in Image
  BY BlankType DEF Nothing, Image

\* Writing the entries in place keeps the map's shape.
LEMMA PutEntriesType ==
    ASSUME MapType, NEW new \in [Mac -> Node], PutEntries(new)
    PROVE  MapType'
  BY DEF MapType, PutEntries

\* Writing one entry in place keeps the map's shape.
LEMMA PutEntryType ==
    ASSUME MapType, NEW m \in Mac, NEW node \in Node, PutEntry(m, node)
    PROVE  MapType'
  <1> DEFINE new == [n \in Mac |-> IF n = m THEN node ELSE Entry(n)]
  <1>1. new \in [Mac -> Node]
    BY EntryType
  <1>2. PutEntries(new)
    BY DEF PutEntry
  <1> QED
    BY <1>1, <1>2, PutEntriesType

\* write_network_map leaves a node object in place of a node object.
LEMMA StringifiedType ==
    ASSUME NEW node \in Node
    PROVE  Stringified(node) \in Node
  BY DEF Stringified, Node

\* The loop of write_network_map keeps the map's shape.
LEMMA StringifyAllType ==
    ASSUME MapType, StringifyAll
    PROVE  MapType'
  <1> DEFINE new == [m \in Mac |-> Stringified(Entry(m))]
  <1>1. new \in [Mac -> Node]
    BY EntryType, StringifiedType
  <1> QED
    BY <1>1, PutEntriesType DEF StringifyAll

\* The same for a part of the entries.
LEMMA PutPartType ==
    ASSUME MapType, NEW done,
           PutEntries([m \in Mac |-> IF m \in done THEN Stringified(Entry(m))
                                    ELSE Entry(m)])
    PROVE  MapType'
  <1> DEFINE new == [m \in Mac |-> IF m \in done THEN Stringified(Entry(m))
                                  ELSE Entry(m)]
  <1>1. new \in [Mac -> Node]
    BY EntryType, StringifiedType
  <1> QED
    BY <1>1, PutEntriesType

\* What goes to the file is a map of node objects.
LEMMA SerialisedType ==
    ASSUME MapType
    PROVE  Serialised \in Image
  <1>1. \A m \in Mac : Stringified(Entry(m)) \in Node
    BY EntryType, StringifiedType
  <1> QED
    BY <1>1, BlankType DEF Serialised, Image, InMap

-----------------------------------------------------------------------------
(* Type correctness.                                                       *)

\* The initial state is well typed.
LEMMA InitType == Init => TypeOK
  <1> SUFFICES ASSUME Init PROVE TypeOK
    OBVIOUS
  <1> USE BlankType, NothingType DEF Init
  <1>a. pc \in PC
    BY DEF PC
  <1>b. tick \in 0 .. MaxWait
    OBVIOUS
  <1>1. RunType /\ LoopType
    BY <1>a, <1>b DEF RunType, LoopType
  <1>2. MapType
    BY DEF MapType
  <1>3. CommType
    BY DEF CommType, Idle
  <1>4. DiskType
    BY DEF DiskType, Role
  <1>5. HistType
    BY DEF HistType, Role
  <1> QED
    BY <1>1, <1>2, <1>3, <1>4, <1>5 DEF TypeOK

\* What survives the process is the caller's business.
LEMMA ExitType ==
    ASSUME TypeOK, Exit, DiskType'
    PROVE  TypeOK'
  <1> USE BlankType, NothingType DEF TypeOK, Exit
  <1>a. pc' \in PC
    BY DEF PC
  <1>b. tick' \in 0 .. MaxWait
    OBVIOUS
  <1>1. RunType' /\ LoopType'
    BY <1>a, <1>b DEF RunType, LoopType
  <1>2. MapType'
    BY DEF MapType
  <1>3. CommType'
    BY DEF CommType, Idle
  <1>4. HistType'
    BY DEF HistType, Role
  <1> QED
    BY <1>1, <1>2, <1>3, <1>4

\* The steps of the main thread up to the role.
LEMMA BeginType ==
    ASSUME TypeOK,
           \/ Boot \/ FindMap \/ ReadDone \/ FindLocalNode \/ AlreadyConfigured
           \/ Settle \/ WaitFirstrun \/ LeaveWait
           \/ CopyMasterService \/ CopySlaveService \/ ChangeNetwork
    PROVE  TypeOK'
  <1> USE DEF TypeOK, vars, runVars, loopVars, mapVars, commVars, diskVars, histVars
  <1>a. pc' \in PC
    BY DEF RunType, PC, Boot, FindMap, ReadDone, FindLocalNode,
           AlreadyConfigured, Settle, WaitFirstrun, LeaveWait,
           CopyMasterService, CopySlaveService, ChangeNetwork
  <1>b. tick' \in 0 .. MaxWait
    BY DEF RunType, Boot, FindMap, ReadDone, FindLocalNode,
           AlreadyConfigured, Settle, WaitFirstrun, LeaveWait,
           CopyMasterService, CopySlaveService, ChangeNetwork
  <1>c. firstRun' \in BOOLEAN /\ parsed' \in Image /\ image' \in Image
    BY DEF RunType, DiskType, Boot, FindMap, ReadDone, FindLocalNode,
           AlreadyConfigured, Settle, WaitFirstrun, LeaveWait,
           CopyMasterService, CopySlaveService, ChangeNetwork
  <1>1. RunType'
    BY <1>a, <1>b, <1>c DEF RunType
  <1>2. LoopType' /\ MapType' /\ CommType'
    BY DEF LoopType, MapType, CommType, Boot, FindMap, ReadDone, FindLocalNode,
           AlreadyConfigured, Settle, WaitFirstrun, LeaveWait,
           CopyMasterService, CopySlaveService, ChangeNetwork
  <1>3. DiskType'
    BY DEF DiskType, Role, HasRole, Boot, FindMap, ReadDone, FindLocalNode,
           AlreadyConfigured, Settle, WaitFirstrun, LeaveWait,
           CopyMasterService, CopySlaveService, ChangeNetwork
  <1>4. HistType'
    BY DEF HistType, DiskType, Spend, Boot, FindMap, ReadDone, FindLocalNode,
           AlreadyConfigured, Settle, WaitFirstrun, LeaveWait,
           CopyMasterService, CopySlaveService, ChangeNetwork
  <1> QED
    BY <1>1, <1>2, <1>3, <1>4

\* The map is read; objects change hands between listener and map.
LEMMA ReadNodeType ==
    ASSUME TypeOK, NEW m \in Mac, ReadNode(m)
    PROVE  TypeOK'
  <1> USE DEF TypeOK, ReadNode
  <1>1. Normalised(parsed.rows[m]) \in Node
    BY DEF RunType, Image, Normalised, Node
  <1>2. MapType'
    BY <1>1 DEF MapType
  <1>3. RunType' /\ LoopType' /\ CommType'
    BY DEF RunType, LoopType, CommType, runVars, loopVars, commVars
  <1>4. DiskType' /\ HistType'
    BY DEF DiskType, HistType, diskVars, histVars
  <1> QED
    BY <1>2, <1>3, <1>4

\* set_node_type only changes the type of a node object it is given.
LEMMA TakeRoleType ==
    ASSUME TypeOK, BecomeMaster \/ StaySlave
    PROVE  TypeOK'
  <1> USE DEF TypeOK, BecomeMaster, StaySlave
  <1>a. \A role \in Role :
           [heard[Self] EXCEPT !.role = role, !.typed = TRUE] \in Node
    BY DEF MapType, Node
  <1>1. MapType'
    BY <1>a DEF MapType, TakeRole, Role
  <1>2. RunType' /\ LoopType' /\ CommType'
    BY DEF RunType, LoopType, CommType, PC, runVars, loopVars, commVars
  <1>3. DiskType' /\ HistType'
    BY DEF DiskType, HistType, diskVars, histVars
  <1> QED
    BY <1>1, <1>2, <1>3

\* What the listener hears is a node object.
LEMMA HearType ==
    ASSUME TypeOK, NEW m \in Mac, Hear(m)
    PROVE  TypeOK'
  <1> USE DEF TypeOK, Hear
  <1>1. MapType'
    BY DEF MapType, DiskType, Announced, Node
  <1>2. RunType' /\ LoopType' /\ CommType'
    BY DEF RunType, LoopType, CommType, runVars, loopVars, commVars
  <1>3. DiskType' /\ HistType'
    BY DEF DiskType, HistType, diskVars, histVars
  <1> QED
    BY <1>1, <1>2, <1>3

\* The merge and what follows it.
LEMMA MergeType ==
    ASSUME TypeOK,
           \/ TakeDiscovered \/ BeginMerge
           \/ \E m \in Mac : MergeKnown(m) \/ MergeNew(m)
           \/ OverwriteEntry \/ RestoreAdopted \/ MarkOffline \/ SetMasterAlwaysAdopted
    PROVE  TypeOK'
  <1> USE DEF TypeOK
  <1>1. CASE TakeDiscovered
    BY <1>1 DEF TakeDiscovered, RunType, LoopType, MapType, CommType, DiskType,
                HistType, PC, runVars, mapVars, commVars, diskVars, histVars
  <1>2. CASE BeginMerge
    BY <1>2 DEF BeginMerge, RunType, LoopType, MapType, CommType, DiskType,
                HistType, PC, runVars, mapVars, commVars, diskVars, histVars
  <1>3. ASSUME NEW m \in Mac, MergeKnown(m)
        PROVE  TypeOK'
    <2> USE <1>3 DEF MergeKnown
    <2>1. Entry(m) \in Node
      BY EntryType
    <2>2. LoopType'
      BY <2>1 DEF LoopType, Node
    <2>3. RunType' /\ MapType' /\ CommType' /\ DiskType' /\ HistType'
      BY DEF RunType, MapType, CommType, DiskType, HistType, PC,
             runVars, mapVars, commVars, diskVars, histVars
    <2> QED
      BY <2>2, <2>3
  <1>4. ASSUME NEW m \in Mac, MergeNew(m)
        PROVE  TypeOK'
    <2> USE <1>4 DEF MergeNew
    <2>1. MapType' /\ LoopType'
      BY DEF MapType, LoopType
    <2>2. RunType' /\ CommType' /\ DiskType' /\ HistType'
      BY DEF RunType, CommType, DiskType, HistType, PC,
             runVars, commVars, diskVars, histVars
    <2> QED
      BY <2>1, <2>2
  <1>5. CASE RestoreAdopted
    <2> USE <1>5 DEF RestoreAdopted
    <2>1. Restored(Entry(cur)) \in Node
      BY EntryType DEF LoopType, Restored, Node
    <2>2. MapType'
      BY <2>1, PutEntryType DEF LoopType
    <2>3. RunType' /\ LoopType' /\ CommType' /\ DiskType' /\ HistType'
      BY DEF RunType, LoopType, CommType, DiskType, HistType, PC,
             runVars, commVars, diskVars, histVars
    <2> QED
      BY <2>2, <2>3
  <1>6. CASE MarkOffline
    <2> USE <1>6 DEF MarkOffline
    <2>1. [m \in Mac |-> Marked(m)] \in [Mac -> Node]
      BY EntryType DEF Marked, Node
    <2>2. MapType'
      BY <2>1, PutEntriesType
    <2>3. RunType' /\ LoopType' /\ CommType' /\ DiskType' /\ HistType'
      BY DEF RunType, LoopType, CommType, DiskType, HistType, PC,
             runVars, commVars, diskVars, histVars
    <2> QED
      BY <2>2, <2>3
  <1>7. CASE SetMasterAlwaysAdopted
    <2> USE <1>7 DEF SetMasterAlwaysAdopted
    <2>1. [m \in Mac |-> MasterAdopted(Entry(m))] \in [Mac -> Node]
      BY EntryType DEF MasterAdopted, Node
    <2>2. MapType'
      BY <2>1, PutEntriesType
    <2>3. RunType' /\ LoopType' /\ CommType' /\ DiskType' /\ HistType'
      BY DEF RunType, LoopType, CommType, DiskType, HistType, PC,
             runVars, loopVars, commVars, diskVars, histVars
    <2> QED
      BY <2>2, <2>3
  <1>8. CASE OverwriteEntry
    <2> USE <1>8 DEF OverwriteEntry
    <2>1. heard[cur] \in Node /\ cur \in Mac
      BY DEF MapType, LoopType
    <2>2. MapType'
      BY <2>1, PutEntryType
    <2>3. RunType' /\ LoopType' /\ CommType' /\ DiskType' /\ HistType'
      BY DEF RunType, LoopType, CommType, DiskType, HistType, PC,
             runVars, loopVars, commVars, diskVars, histVars
    <2> QED
      BY <2>2, <2>3
  <1> QED
    BY <1>1, <1>2, <1>3, <1>4, <1>5, <1>6, <1>7, <1>8

\* The steps that write the map, the lock and the answers keep the types.
LEMMA WriteType ==
    ASSUME TypeOK,
           \/ SerialiseMap \/ StoreMap \/ UpdateMasterLock \/ NotifyReady
           \/ SerialiseRequest \/ SerialiseRaises \/ StoreRequest \/ Respond
    PROVE  TypeOK'
  <1> USE NothingType DEF TypeOK
  <1>1. CASE SerialiseMap
    BY <1>1, StringifyAllType, SerialisedType
       DEF SerialiseMap, RunType, LoopType, CommType, DiskType, HistType, PC,
           runVars, loopVars, commVars, diskVars, histVars
  <1>2. CASE SerialiseRequest
    BY <1>2, StringifyAllType, SerialisedType
       DEF SerialiseRequest, RunType, LoopType, CommType, DiskType, HistType,
           runVars, loopVars, diskVars, histVars
  <1>3. CASE StoreMap
    BY <1>3 DEF StoreMap, RunType, LoopType, MapType, CommType, DiskType,
                HistType, PC, runVars, loopVars, mapVars, commVars, histVars
  <1>4. CASE StoreRequest
    <2> USE <1>4 DEF StoreRequest
    <2> DEFINE Jobs == [op : {"NONE", "ADD", "REMOVE"}, mac : Mac, late : BOOLEAN]
    <2>1. CommType'
      <3>1. Idle \in Jobs
        BY SelfAssumption DEF Idle
      <3>2. job' = job \/ job' = Idle
        OBVIOUS
      <3>3. job' \in Jobs
        BY <3>1, <3>2 DEF CommType
      <3>4. cphase' = "answer" /\ cimage' \in Image
        OBVIOUS
      <3> QED
        BY <3>3, <3>4 DEF CommType
    <2>2. (file' \in Image) /\ UNCHANGED <<svc, net, alias, lock, rebooting, txt>>
      BY DEF DiskType, CommType
    <2>3. RunType' /\ LoopType' /\ MapType' /\ HistType'
      BY DEF RunType, LoopType, MapType, HistType, runVars, loopVars, mapVars,
             histVars
    <2>4. DiskType'
      BY <2>2 DEF DiskType
    <2> QED
      BY <2>1, <2>3, <2>4
  <1>5. CASE UpdateMasterLock
    BY <1>5 DEF UpdateMasterLock, HasRole, RunType, LoopType, MapType, CommType,
                DiskType, HistType, PC, Node, runVars, loopVars, mapVars,
                commVars, histVars
  <1>6. CASE NotifyReady
    BY <1>6 DEF NotifyReady, RunType, LoopType, MapType, CommType, DiskType,
                HistType, PC, runVars, loopVars, mapVars, commVars, diskVars,
                histVars
  <1>7. CASE Respond
    BY <1>7 DEF Respond, Idle, RunType, LoopType, MapType, CommType, DiskType,
                HistType, runVars, loopVars, mapVars, diskVars, histVars
  <1>8. CASE SerialiseRaises
    <2> USE <1>8 DEF SerialiseRaises
    <2>1. MapType'
      BY PutPartType
    <2>2. RunType' /\ LoopType' /\ CommType' /\ DiskType' /\ HistType'
      BY DEF Idle, RunType, LoopType, CommType, DiskType, HistType, runVars,
             loopVars, diskVars, histVars
    <2> QED
      BY <2>1, <2>2
  <1> QED
    BY <1>1, <1>2, <1>3, <1>4, <1>5, <1>6, <1>7, <1>8

\* adopt_node and unadopt_node change a flag of an entry that exists.
LEMMA SetAdoptedType ==
    ASSUME TypeOK, NEW m \in Mac, NEW op \in {"ADD", "REMOVE"},
           NEW flag \in BOOLEAN, SetAdopted(m, op, flag)
    PROVE  MapType' /\ CommType'
  <1> USE DEF TypeOK, SetAdopted
  <1>1. [Entry(m) EXCEPT !.adopted = flag] \in Node
    BY EntryType DEF Node
  <1>2. MapType'
    BY <1>1, PutEntryType
  <1>3. CommType'
    BY DEF CommType
  <1> QED
    BY <1>2, <1>3

\* A request that is refused or has nothing to do leaves the map alone.
LEMMA AnswerAtOnceType ==
    ASSUME TypeOK, AnswerAtOnce
    PROVE  MapType' /\ CommType'
  BY DEF TypeOK, AnswerAtOnce, MapType, CommType, mapVars

\* A request changes the map and the thread's own variables, no others.
LEMMA RequestType ==
    ASSUME TypeOK,
           \/ InvalidAction
           \/ \E u \in Uuid : Adopt(u) \/ Unadopt(u)
    PROVE  TypeOK'
  <1>1. CASE InvalidAction
    BY <1>1, AnswerAtOnceType
       DEF InvalidAction, Spend, TypeOK, RunType, LoopType, DiskType, HistType,
           runVars, loopVars, diskVars
  <1>2. ASSUME NEW u \in Uuid, Adopt(u)
        PROVE  TypeOK'
    <2>1. MapType' /\ CommType'
      BY <1>2, AnswerAtOnceType, SetAdoptedType
         DEF Adopt, NotFound, Matches, InMap
    <2> QED
      BY <1>2, <2>1 DEF Adopt, Spend, TypeOK, RunType, LoopType, DiskType,
                        HistType, runVars, loopVars, diskVars
  <1>3. ASSUME NEW u \in Uuid, Unadopt(u)
        PROVE  TypeOK'
    <2>1. MapType' /\ CommType'
      BY <1>3, AnswerAtOnceType, SetAdoptedType
         DEF Unadopt, NotFound, Matches, InMap
    <2> QED
      BY <1>3, <2>1 DEF Unadopt, Spend, TypeOK, RunType, LoopType, DiskType,
                        HistType, runVars, loopVars, diskVars
  <1> QED
    BY <1>1, <1>2, <1>3

\* The ways a process ends: exceptions, timeouts, crash and reboot.
Ends ==
    \/ FindIpTimesOut \/ LocalNodeTimesOut \/ CopyServiceFails
    \/ ChangeNetworkFails \/ MergeRaises \/ Crash \/ Reboot

\* All of them lose everything the process held.
LEMMA EndsExit == Ends => Exit
  BY DEF Ends, FindIpTimesOut, LocalNodeTimesOut, CopyServiceFails,
         ChangeNetworkFails, MergeRaises, Crash, Reboot

\* No way to end leaves the disk ill typed.
LEMMA EndsType ==
    ASSUME TypeOK, Ends
    PROVE  TypeOK'
  <1>1. DiskType'
    BY DEF TypeOK, DiskType, Ends, FindIpTimesOut, LocalNodeTimesOut,
           CopyServiceFails, ChangeNetworkFails, MergeRaises, Crash, Reboot,
           diskVars
  <1> QED
    BY <1>1, EndsExit, ExitType

\* Nor does what happens outside of the process.
LEMMA OutsideType ==
    ASSUME TypeOK,
           \/ Advertise \/ FactoryReset
           \/ \E m \in Mac, role \in Role : NeighbourChanges(m, role)
    PROVE  TypeOK'
  <1> USE DEF TypeOK, RunType, LoopType, MapType, CommType, DiskType, HistType,
              runVars, loopVars, mapVars, commVars, diskVars, histVars
  <1>1. CASE Advertise
    BY <1>1 DEF Advertise
  <1>2. CASE FactoryReset
    BY <1>2 DEF FactoryReset, Spend, Role
  <1>3. ASSUME NEW m \in Mac, NEW role \in Role, NeighbourChanges(m, role)
        PROVE  TypeOK'
    BY <1>3 DEF NeighbourChanges, Spend
  <1> QED
    BY <1>1, <1>2, <1>3

\* Every step preserves the types.
LEMMA NextType == TypeOK /\ [Next]_vars => TypeOK'
  <1> SUFFICES ASSUME TypeOK, [Next]_vars
               PROVE  TypeOK'
    OBVIOUS
  <1>1. CASE Main
    BY <1>1, BeginType, ReadNodeType, TakeRoleType, MergeType, WriteType,
       EndsType DEF Main, Ends
  <1>2. CASE Listener
    BY <1>2, HearType DEF Listener, AddService, UpdateService
  <1>3. CASE Comms
    BY <1>3, RequestType, WriteType DEF Comms, Serve
  <1>4. CASE World
    BY <1>4, BeginType, EndsType, OutsideType DEF World, Ends
  <1>5. CASE UNCHANGED vars
    BY <1>5 DEF TypeOK, RunType, LoopType, MapType, CommType, DiskType,
                HistType, vars, runVars, loopVars, mapVars, commVars,
                diskVars, histVars
  <1> QED
    BY <1>1, <1>2, <1>3, <1>4, <1>5 DEF Next

\* Every variable keeps its type in every reachable state.
THEOREM TypeCorrect == Spec => []TypeOK
  BY InitType, NextType, PTL DEF Spec

-----------------------------------------------------------------------------
(* Where adoption and mastership come from.                                *)

\* A node object says nothing that requests A and masters W do not explain.
Vouched(node, m, A, W) ==
    /\ node.adopted => UuidOf[m] \in A \/ m \in W
    /\ node.role = "master" => m \in W

MapVouched ==
    \A m \in Mac : /\ Vouched(heard[m], m, asked, wasMaster)
                   /\ Vouched(loaded[m], m, asked, wasMaster)

ImageVouched(img) == \A m \in Mac : Vouched(img.rows[m], m, asked, wasMaster)

ImagesVouched ==
    /\ ImageVouched(file) /\ ImageVouched(parsed)
    /\ ImageVouched(image) /\ ImageVouched(cimage)

KeptVouched == kept => UuidOf[cur] \in asked \/ cur \in wasMaster

RoleVouched ==
    /\ \A m \in Mac : txt[m] = "master" => m \in wasMaster
    /\ pc \in {"copyMaster", "network"} => Self \in wasMaster
    /\ MasterArtifacts

\* The inductive invariant.  A flag may travel from the file to memory, into
\* a serialised image and back to the file, or wait in preserved_adopted: it
\* has to be vouched for in every place where it can rest.
Provenance == MapVouched /\ ImagesVouched /\ KeptVouched /\ RoleVouched

\* A vouched-for object stays so when more requests and masters are known.
LEMMA VouchedGrows ==
    ASSUME NEW node, NEW m, NEW A, NEW W, NEW A2, NEW W2,
           Vouched(node, m, A, W), A \subseteq A2, W \subseteq W2
    PROVE  Vouched(node, m, A2, W2)
  BY DEF Vouched

\* The placeholder claims nothing.
LEMMA BlankVouched ==
    ASSUME NEW m \in Mac, NEW A, NEW W
    PROVE  Vouched(Blank, m, A, W)
  BY DEF Blank, Vouched

\* The empty map claims nothing.
LEMMA NothingVouched ==
    ASSUME NEW m \in Mac, NEW A, NEW W
    PROVE  Vouched(Nothing.rows[m], m, A, W)
  BY BlankVouched DEF Nothing

\* An entry is vouched for, whichever of the two objects it is.
LEMMA EntryVouched ==
    ASSUME MapVouched, NEW m \in Mac
    PROVE  Vouched(Entry(m), m, asked, wasMaster)
  BY DEF MapVouched, Entry

\* asked and wasMaster are history: no step shortens them.
Grows == asked \subseteq asked' /\ wasMaster \subseteq wasMaster'

\* Changing the entries preserves the map part if the new ones are vouched for.
LEMMA PutEntriesVouched ==
    ASSUME MapType, MapVouched, Grows, NEW new \in [Mac -> Node], PutEntries(new),
           \A m \in Mac : Vouched(new[m], m, asked', wasMaster')
    PROVE  MapVouched'
  <1> SUFFICES ASSUME NEW m \in Mac
               PROVE  /\ Vouched(heard'[m], m, asked', wasMaster')
                      /\ Vouched(loaded'[m], m, asked', wasMaster')
    BY DEF MapVouched
  <1>1. heard'[m] \in {new[m], heard[m]} /\ loaded'[m] \in {new[m], loaded[m]}
    BY DEF PutEntries
  <1>2. /\ Vouched(heard[m], m, asked', wasMaster')
        /\ Vouched(loaded[m], m, asked', wasMaster')
    BY VouchedGrows DEF MapVouched, Grows
  <1> QED
    BY <1>1, <1>2

\* The same for one entry written in place.
LEMMA PutEntryVouched ==
    ASSUME MapType, MapVouched, Grows, NEW k \in Mac, NEW node \in Node,
           PutEntry(k, node), Vouched(node, k, asked', wasMaster')
    PROVE  MapVouched'
  <1> DEFINE new == [n \in Mac |-> IF n = k THEN node ELSE Entry(n)]
  <1>1. new \in [Mac -> Node]
    BY EntryType
  <1>2. PutEntries(new)
    BY DEF PutEntry
  <1>3. \A m \in Mac : Vouched(new[m], m, asked', wasMaster')
    BY EntryVouched, VouchedGrows DEF Grows
  <1> HIDE DEF new
  <1> QED
    BY <1>1, <1>2, <1>3, PutEntriesVouched

\* Serialisation copies flags and roles that are vouched for.
LEMMA SerialisedVouched ==
    ASSUME MapType, MapVouched
    PROVE  ImageVouched(Serialised)
  <1> SUFFICES ASSUME NEW m \in Mac
               PROVE  Vouched(Serialised.rows[m], m, asked, wasMaster)
    BY DEF ImageVouched
  <1>1. Serialised.rows[m] \in {Stringified(Entry(m)), Blank}
    BY DEF Serialised
  <1>2. Vouched(Stringified(Entry(m)), m, asked, wasMaster)
    BY EntryVouched, EntryType DEF Stringified, Vouched, Node
  <1> QED
    BY <1>1, <1>2, BlankVouched

\* Turning the types into strings claims nothing new.
LEMMA StringifyAllVouched ==
    ASSUME MapType, MapVouched, StringifyAll, Grows
    PROVE  MapVouched'
  <1> DEFINE new == [m \in Mac |-> Stringified(Entry(m))]
  <1>1. new \in [Mac -> Node]
    BY EntryType, StringifiedType
  <1>2. ASSUME NEW m \in Mac
        PROVE  Vouched(new[m], m, asked', wasMaster')
    <2>1. Vouched(Stringified(Entry(m)), m, asked, wasMaster)
      BY EntryVouched, EntryType DEF Stringified, Vouched, Node
    <2> QED
      BY <2>1, VouchedGrows DEF Grows
  <1>3. PutEntries(new)
    BY DEF StringifyAll
  <1> HIDE DEF new
  <1> QED
    BY <1>1, <1>2, <1>3, PutEntriesVouched

\* The initial state explains itself: nothing is adopted, and the machines
\* that announce a master are in wasMaster.
LEMMA InitProvenance == Init => Provenance
  <1> SUFFICES ASSUME Init PROVE Provenance
    OBVIOUS
  <1> USE DEF Init
  <1>1. MapVouched
    BY BlankVouched DEF MapVouched
  <1>2. ImagesVouched
    BY NothingVouched DEF ImagesVouched, ImageVouched
  <1>3. KeptVouched /\ RoleVouched
    BY DEF KeptVouched, RoleVouched, MasterArtifacts
  <1> QED
    BY <1>1, <1>2, <1>3 DEF Provenance

\* What nobody touches stays vouched for while the vouchers only grow.
LEMMA MapStays ==
    ASSUME MapVouched, Grows, UNCHANGED mapVars
    PROVE  MapVouched'
  BY VouchedGrows DEF MapVouched, Grows, mapVars

\* An image that is an old one, the serialised map or empty is vouched for.
LEMMA ImageStays ==
    ASSUME NEW img, ImageVouched(img), Grows
    PROVE  \A m \in Mac : Vouched(img.rows[m], m, asked', wasMaster')
  BY VouchedGrows DEF ImageVouched, Grows

\* The file, its parse and the two serialised images only exchange maps.
LEMMA ImagesMove ==
    ASSUME ImagesVouched, MapType, MapVouched, Grows,
           file' \in {file, image, cimage},
           parsed' \in {parsed, file, Nothing},
           image' \in {image, Nothing, Serialised},
           cimage' \in {cimage, Nothing, Serialised}
    PROVE  ImagesVouched'
  <1> DEFINE Good(img) == \A m \in Mac : Vouched(img.rows[m], m, asked', wasMaster')
  <1>1. Good(file) /\ Good(parsed) /\ Good(image) /\ Good(cimage)
    BY ImageStays DEF ImagesVouched
  <1>2. Good(Serialised) /\ Good(Nothing)
    BY SerialisedVouched, NothingVouched, ImageStays
  <1>3. Good(file') /\ Good(parsed') /\ Good(image') /\ Good(cimage')
    <2> HIDE DEF Good
    <2> QED
      BY <1>1, <1>2
  <1> QED
    BY <1>3 DEF ImagesVouched, ImageVouched

\* The end of the process leaves the file and what is outside of it.
LEMMA EndsProvenance ==
    ASSUME TypeOK, Provenance, Ends
    PROVE  Provenance'
  <1>1. Exit
    BY EndsExit
  <1>2. Grows
    BY <1>1 DEF Exit, Grows
  <1>3. MapVouched'
    BY <1>1, BlankVouched DEF Exit, MapVouched
  <1>4. file' = file
    BY DEF Ends, FindIpTimesOut, LocalNodeTimesOut, CopyServiceFails,
           ChangeNetworkFails, MergeRaises, Crash, Reboot, diskVars
  <1>5. ImagesVouched'
    BY <1>1, <1>2, <1>4, ImagesMove DEF Exit, Provenance, TypeOK
  <1>6. KeptVouched'
    BY <1>1 DEF Exit, KeptVouched
  <1>7. RoleVouched'
    BY <1>1 DEF Exit, Provenance, RoleVouched, MasterArtifacts, Ends,
                FindIpTimesOut, LocalNodeTimesOut, CopyServiceFails,
                ChangeNetworkFails, MergeRaises, Crash, Reboot, diskVars
  <1> QED
    BY <1>3, <1>5, <1>6, <1>7 DEF Provenance

\* Steps that leave the node objects alone.  A machine that publishes the
\* alias or takes the lock looks at its own node, which MapVouched covers.
LEMMA QuietProvenance ==
    ASSUME TypeOK, Provenance,
           \/ Boot \/ FindMap \/ ReadDone \/ FindLocalNode \/ AlreadyConfigured
           \/ Settle \/ WaitFirstrun \/ LeaveWait
           \/ CopyMasterService \/ CopySlaveService \/ ChangeNetwork
           \/ TakeDiscovered \/ BeginMerge
           \/ StoreMap \/ UpdateMasterLock \/ NotifyReady
           \/ StoreRequest \/ Respond \/ InvalidAction
           \/ Advertise \/ FactoryReset
           \/ \E m \in Mac, role \in Role : NeighbourChanges(m, role)
    PROVE  Provenance'
  <1> USE DEF Boot, FindMap, ReadDone, FindLocalNode, AlreadyConfigured, Settle,
              WaitFirstrun, LeaveWait, CopyMasterService, CopySlaveService,
              ChangeNetwork, TakeDiscovered, BeginMerge, StoreMap,
              UpdateMasterLock, NotifyReady, StoreRequest, Respond,
              InvalidAction, AnswerAtOnce, Advertise, FactoryReset,
              NeighbourChanges, Spend, runVars, loopVars, mapVars, commVars,
              diskVars, histVars
  <1>1. Grows /\ UNCHANGED mapVars
    BY DEF Grows
  <1>2. MapVouched'
    BY <1>1, MapStays DEF Provenance
  <1>3. /\ file' \in {file, image, cimage} /\ parsed' \in {parsed, file}
        /\ image' \in {image, Nothing} /\ cimage' \in {cimage, Nothing}
    OBVIOUS
  <1>4. ImagesVouched'
    BY <1>1, <1>3, ImagesMove DEF Provenance, TypeOK
  <1>5. UNCHANGED <<kept, cur>>
    OBVIOUS
  <1>6. KeptVouched'
    BY <1>1, <1>5 DEF KeptVouched, Provenance, Grows
  <1>7. Vouched(heard[Self], Self, asked, wasMaster)
    BY DEF Provenance, MapVouched
  <1>8. RoleVouched'
    BY <1>7 DEF RoleVouched, MasterArtifacts, Provenance, Vouched, HasRole,
                TypeOK, DiskType
  <1> QED
    BY <1>2, <1>4, <1>6, <1>8 DEF Provenance

\* Steps that change the entries of the map, or objects of the listener, and
\* nothing outside of the process.
LEMMA ReadNodeProvenance ==
    ASSUME TypeOK, Provenance, NEW k \in Mac, ReadNode(k)
    PROVE  Provenance'
  <1> USE DEF ReadNode, runVars, loopVars, commVars, diskVars, histVars
  <1>1. Grows
    BY DEF Grows
  <1>2. Vouched(Normalised(parsed.rows[k]), k, asked, wasMaster)
    BY DEF Provenance, ImagesVouched, ImageVouched, Vouched, Normalised, TypeOK,
           RunType, Image, Node
  <1>3. MapVouched'
    BY <1>2 DEF MapVouched, Provenance, TypeOK, MapType
  <1>4. ImagesVouched'
    BY <1>1, ImagesMove DEF Provenance, TypeOK
  <1>5. KeptVouched' /\ RoleVouched'
    BY DEF KeptVouched, RoleVouched, MasterArtifacts, Provenance
  <1> QED
    BY <1>3, <1>4, <1>5 DEF Provenance

\* set_node_type writes the role into the listener's own object.
LEMMA TakeRoleProvenance ==
    ASSUME TypeOK, Provenance, BecomeMaster \/ StaySlave
    PROVE  Provenance'
  <1> USE DEF BecomeMaster, StaySlave, TakeRole, runVars, loopVars, commVars,
              diskVars, histVars
  <1>1. Grows
    BY DEF Grows
  <1>2. MapVouched'
    <2> SUFFICES ASSUME NEW m \in Mac
                 PROVE  /\ Vouched(heard'[m], m, asked', wasMaster')
                        /\ Vouched(loaded'[m], m, asked', wasMaster')
      BY DEF MapVouched
    <2>1. /\ Vouched(heard[m], m, asked', wasMaster')
          /\ Vouched(loaded[m], m, asked', wasMaster')
      BY <1>1, VouchedGrows DEF Provenance, MapVouched, Grows
    <2>2. loaded' = loaded /\ heard \in [Mac -> Node]
      BY DEF TypeOK, MapType
    <2>3. m # Self => heard'[m] = heard[m]
      BY <2>2
    <2>4. heard'[Self].adopted = heard[Self].adopted
      BY <2>2 DEF Node
    <2>5. heard'[Self].role = "master" => Self \in wasMaster'
      BY <2>2 DEF Node
    <2> QED
      BY <2>1, <2>2, <2>3, <2>4, <2>5 DEF Vouched
  <1>3. ImagesVouched'
    BY <1>1, ImagesMove DEF Provenance, TypeOK
  <1>4. KeptVouched' /\ RoleVouched'
    BY <1>1 DEF KeptVouched, RoleVouched, MasterArtifacts, Provenance, Grows
  <1> QED
    BY <1>2, <1>3, <1>4 DEF Provenance

\* What a node announces never claims adoption.
LEMMA HearProvenance ==
    ASSUME TypeOK, Provenance, NEW k \in Mac, Hear(k)
    PROVE  Provenance'
  <1> USE DEF Hear, runVars, loopVars, commVars, diskVars, histVars
  <1>1. Grows
    BY DEF Grows
  <1>2. Vouched(Announced(txt[k]), k, asked, wasMaster)
    BY DEF Provenance, RoleVouched, Vouched, Announced
  <1>3. MapVouched'
    BY <1>2 DEF MapVouched, Provenance, TypeOK, MapType
  <1>4. ImagesVouched'
    BY <1>1, ImagesMove DEF Provenance, TypeOK
  <1>5. KeptVouched' /\ RoleVouched'
    BY DEF KeptVouched, RoleVouched, MasterArtifacts, Provenance
  <1> QED
    BY <1>3, <1>4, <1>5 DEF Provenance

\* The merge: what overwrites an entry comes from the listener, and what is
\* given back to it comes from preserved_adopted.
LEMMA MergeProvenance ==
    ASSUME TypeOK, Provenance,
           \/ \E m \in Mac : MergeKnown(m) \/ MergeNew(m)
           \/ OverwriteEntry \/ RestoreAdopted \/ MarkOffline \/ SetMasterAlwaysAdopted
    PROVE  Provenance'
  <1> USE DEF runVars, loopVars, commVars, diskVars, histVars
  <1>1. Grows /\ RoleVouched'
    BY DEF Grows, RoleVouched, MasterArtifacts, Provenance, MergeKnown, MergeNew,
           OverwriteEntry, RestoreAdopted, MarkOffline, SetMasterAlwaysAdopted
  <1>2. ImagesVouched'
    BY <1>1, ImagesMove
       DEF Provenance, TypeOK, MergeKnown, MergeNew, OverwriteEntry,
           RestoreAdopted, MarkOffline, SetMasterAlwaysAdopted
  <1>3. ASSUME NEW m \in Mac, MergeKnown(m)
        PROVE  MapVouched' /\ KeptVouched'
    <2> USE <1>3 DEF MergeKnown
    <2>1. MapVouched'
      BY <1>1, MapStays DEF Provenance
    <2>2. Vouched(Entry(m), m, asked, wasMaster)
      BY EntryVouched DEF Provenance
    <2>3. KeptVouched'
      BY <2>2 DEF KeptVouched, Vouched
    <2> QED
      BY <2>1, <2>3
  <1>4. ASSUME NEW m \in Mac, MergeNew(m)
        PROVE  MapVouched' /\ KeptVouched'
    BY <1>4 DEF MergeNew, Provenance, MapVouched, KeptVouched
  <1>5. CASE RestoreAdopted
    <2> USE <1>5 DEF RestoreAdopted
    <2>1. Restored(Entry(cur)) \in Node /\ cur \in Mac
      BY EntryType DEF TypeOK, LoopType, Restored, Node
    <2>2. Vouched(Entry(cur), cur, asked, wasMaster)
      BY <2>1, EntryVouched DEF Provenance
    <2>3. Entry(cur) \in Node
      BY <2>1, EntryType DEF TypeOK
    <2>4. Vouched(Restored(Entry(cur)), cur, asked, wasMaster)
      BY <2>2, <2>3 DEF Provenance, KeptVouched, Restored, Vouched, Node
    <2>5. MapVouched'
      BY <1>1, <2>1, <2>4, PutEntryVouched DEF Provenance, TypeOK
    <2>6. KeptVouched'
      BY DEF KeptVouched, Provenance
    <2> QED
      BY <1>1, <1>2, <2>5, <2>6 DEF Provenance
  <1>6. CASE MarkOffline
    <2> USE <1>6 DEF MarkOffline
    <2> DEFINE new == [m \in Mac |-> Marked(m)]
    <2>1. new \in [Mac -> Node]
      BY EntryType DEF TypeOK, Marked, Node
    <2>2. \A m \in Mac : Vouched(Marked(m), m, asked, wasMaster)
      BY EntryVouched, EntryType DEF Provenance, TypeOK, Marked, Vouched, Node
    <2>3. \A m \in Mac : Vouched(new[m], m, asked', wasMaster')
      BY <2>2
    <2>4. PutEntries(new)
      OBVIOUS
    <2> HIDE DEF new
    <2>5. MapVouched'
      BY <1>1, <2>1, <2>3, <2>4, PutEntriesVouched DEF Provenance, TypeOK
    <2>6. KeptVouched'
      BY DEF KeptVouched, Provenance
    <2> QED
      BY <1>1, <1>2, <2>5, <2>6 DEF Provenance
  <1>7. CASE SetMasterAlwaysAdopted
    <2> USE <1>7 DEF SetMasterAlwaysAdopted
    <2> DEFINE new == [m \in Mac |-> MasterAdopted(Entry(m))]
    <2>1. new \in [Mac -> Node]
      BY EntryType DEF TypeOK, MasterAdopted, Node
    <2>2. \A m \in Mac : Vouched(MasterAdopted(Entry(m)), m, asked, wasMaster)
      BY EntryVouched, EntryType
         DEF Provenance, TypeOK, MasterAdopted, HasRole, Vouched, Node
    <2>3. \A m \in Mac : Vouched(new[m], m, asked', wasMaster')
      BY <2>2
    <2>4. PutEntries(new)
      OBVIOUS
    <2> HIDE DEF new
    <2>5. MapVouched'
      BY <1>1, <2>1, <2>3, <2>4, PutEntriesVouched DEF Provenance, TypeOK
    <2>6. KeptVouched'
      BY DEF KeptVouched, Provenance
    <2> QED
      BY <1>1, <1>2, <2>5, <2>6 DEF Provenance
  <1>8. CASE OverwriteEntry
    <2> USE <1>8 DEF OverwriteEntry
    <2>1. cur \in Mac /\ heard[cur] \in Node
      BY DEF TypeOK, LoopType, MapType
    <2>2. Vouched(heard[cur], cur, asked', wasMaster')
      BY <2>1 DEF Provenance, MapVouched
    <2>3. MapVouched'
      BY <1>1, <2>1, <2>2, PutEntryVouched DEF Provenance, TypeOK
    <2>4. KeptVouched'
      BY DEF KeptVouched, Provenance
    <2> QED
      BY <1>1, <1>2, <2>3, <2>4 DEF Provenance
  <1> QED
    BY <1>1, <1>2, <1>3, <1>4, <1>5, <1>6, <1>7, <1>8 DEF Provenance

\* Both writers of the file turn the types of the entries into strings.
LEMMA SerialiseProvenance ==
    ASSUME TypeOK, Provenance, SerialiseMap \/ SerialiseRequest
    PROVE  Provenance'
  <1>a. /\ UNCHANGED <<loopVars, diskVars, txt, histVars, parsed>>
        /\ StringifyAll
        /\ pc' \in {pc, "store"}
        /\ image' \in {image, Serialised} /\ cimage' \in {cimage, Serialised}
    BY DEF SerialiseMap, SerialiseRequest, runVars, commVars
  <1>b. Grows /\ KeptVouched'
    BY <1>a DEF Grows, KeptVouched, Provenance, loopVars, histVars
  <1>c. RoleVouched'
    BY <1>a DEF RoleVouched, MasterArtifacts, Provenance, diskVars, histVars
  <1>1. Grows /\ RoleVouched' /\ KeptVouched'
    BY <1>b, <1>c
  <1>2. MapVouched'
    BY <1>a, <1>1, StringifyAllVouched DEF Provenance, TypeOK
  <1>3. ImagesVouched'
    BY <1>a, <1>1, ImagesMove DEF Provenance, TypeOK, diskVars
  <1> QED
    BY <1>1, <1>2, <1>3 DEF Provenance

\* A serialisation that raises has done so with a part of the entries.
LEMMA RaisesProvenance ==
    ASSUME TypeOK, Provenance, SerialiseRaises
    PROVE  Provenance'
  <1>a. /\ UNCHANGED <<pc, loopVars, diskVars, txt, histVars, parsed, image, cimage>>
        /\ \E done \in SUBSET InMap :
              PutEntries([m \in Mac |-> IF m \in done THEN Stringified(Entry(m))
                                       ELSE Entry(m)])
    BY DEF SerialiseRaises, runVars
  <1>b. Grows /\ KeptVouched'
    BY <1>a DEF Grows, KeptVouched, Provenance, loopVars, histVars
  <1>c. RoleVouched'
    BY <1>a DEF RoleVouched, MasterArtifacts, Provenance, diskVars, histVars
  <1>1. PICK done \in SUBSET InMap :
              PutEntries([m \in Mac |-> IF m \in done THEN Stringified(Entry(m))
                                       ELSE Entry(m)])
    BY <1>a
  <1> DEFINE new == [m \in Mac |-> IF m \in done THEN Stringified(Entry(m))
                                  ELSE Entry(m)]
  <1>2. new \in [Mac -> Node]
    BY EntryType, StringifiedType DEF TypeOK
  <1>3. ASSUME NEW m \in Mac
        PROVE  Vouched(new[m], m, asked', wasMaster')
    <2>1. Vouched(Entry(m), m, asked', wasMaster') /\ Entry(m) \in Node
      BY <1>b, EntryVouched, EntryType, VouchedGrows DEF Provenance, TypeOK, Grows
    <2>2. Vouched(Stringified(Entry(m)), m, asked', wasMaster')
      BY <2>1 DEF Stringified, Vouched, Node
    <2> QED
      BY <2>1, <2>2
  <1>4. PutEntries(new)
    BY <1>1
  <1>5. MapVouched'
    <2> HIDE DEF new
    <2> QED
      BY <1>b, <1>2, <1>3, <1>4, PutEntriesVouched DEF Provenance, TypeOK
  <1>6. ImagesVouched'
    BY <1>a, <1>b, ImagesMove DEF Provenance, TypeOK, diskVars
  <1> QED
    BY <1>b, <1>c, <1>5, <1>6 DEF Provenance

\* A request for u may adopt any node that carries u: u is in asked by then.
LEMMA RequestProvenance ==
    ASSUME TypeOK, Provenance, NEW u \in Uuid, Adopt(u) \/ Unadopt(u)
    PROVE  Provenance'
  <1>a. /\ UNCHANGED <<pc, runVars, loopVars, image, diskVars, txt, wasMaster>>
        /\ asked \subseteq asked'
    BY DEF Adopt, Unadopt
  <1>b. Grows /\ KeptVouched'
    BY <1>a DEF Grows, KeptVouched, Provenance, loopVars
  <1>c. RoleVouched'
    BY <1>a DEF RoleVouched, MasterArtifacts, Provenance, diskVars
  <1>1. Grows /\ RoleVouched' /\ KeptVouched'
    BY <1>b, <1>c
  <1>2. cimage' = cimage
    BY DEF Adopt, Unadopt, NotFound, AnswerAtOnce, SetAdopted
  <1>3. ImagesVouched'
    BY <1>a, <1>1, <1>2, ImagesMove DEF Provenance, TypeOK, runVars, diskVars
  <1>4. ASSUME AnswerAtOnce
        PROVE  MapVouched'
    BY <1>1, <1>4, MapStays DEF AnswerAtOnce, Provenance
  <1>5. ASSUME NEW m \in Matches(u), NEW flag \in BOOLEAN,
               PutEntry(m, [Entry(m) EXCEPT !.adopted = flag]),
               flag => u \in asked'
        PROVE  MapVouched'
    <2>1. m \in Mac /\ UuidOf[m] = u
      BY DEF Matches, InMap
    <2>2. Entry(m) \in Node /\ Vouched(Entry(m), m, asked, wasMaster)
      BY <2>1, EntryType, EntryVouched DEF Provenance, TypeOK
    <2> DEFINE node == [Entry(m) EXCEPT !.adopted = flag]
    <2>3. node \in Node
      BY <2>2 DEF Node
    <2>4. Vouched(node, m, asked', wasMaster')
      BY <1>1, <1>5, <2>1, <2>2 DEF Vouched, Node, Grows
    <2>5. PutEntry(m, node)
      BY <1>5
    <2> HIDE DEF node
    <2> QED
      BY <1>1, <2>1, <2>3, <2>4, <2>5, PutEntryVouched DEF Provenance, TypeOK
  <1>6. MapVouched'
    <2>1. CASE Adopt(u)
      BY <1>4, <1>5, <2>1 DEF Adopt, NotFound, SetAdopted
    <2>2. CASE Unadopt(u)
      BY <1>4, <1>5, <2>2 DEF Unadopt, NotFound, SetAdopted
    <2> QED
      BY <2>1, <2>2
  <1> QED
    BY <1>1, <1>3, <1>6 DEF Provenance

\* Every step preserves the inductive invariant.
LEMMA NextProvenance == TypeOK /\ Provenance /\ [Next]_vars => Provenance'
  <1> SUFFICES ASSUME TypeOK, Provenance, [Next]_vars
               PROVE  Provenance'
    OBVIOUS
  <1>1. CASE Main
    BY <1>1, QuietProvenance, ReadNodeProvenance, TakeRoleProvenance,
       MergeProvenance, SerialiseProvenance, EndsProvenance DEF Main, Ends
  <1>2. CASE Listener
    BY <1>2, HearProvenance DEF Listener, AddService, UpdateService
  <1>3. CASE Comms
    BY <1>3, QuietProvenance, SerialiseProvenance, RaisesProvenance,
       RequestProvenance
       DEF Comms, Serve
  <1>4. CASE World
    BY <1>4, QuietProvenance, EndsProvenance DEF World, Ends
  <1>5. CASE UNCHANGED vars
    BY <1>5 DEF Provenance, MapVouched, ImagesVouched, ImageVouched, KeptVouched,
                RoleVouched, MasterArtifacts, vars, runVars, loopVars, mapVars,
                commVars, diskVars, histVars
  <1> QED
    BY <1>1, <1>2, <1>3, <1>4, <1>5 DEF Next

\* Everything adopted and every master is accounted for at all times.
LEMMA ProvenanceHolds == Spec => [](TypeOK /\ Provenance)
  BY InitType, InitProvenance, NextType, NextProvenance, PTL DEF Spec

\* No node is adopted, in memory or in the file, unless an ADD named its uuid
\* or it was a master, whatever the order of merge, listener and requests.
THEOREM AdoptionIsSolicited == Spec => []NoUnsolicitedAdoption
  <1>1. TypeOK /\ Provenance => NoUnsolicitedAdoption
    BY EntryVouched DEF Provenance, ImagesVouched, ImageVouched, Vouched,
                        NoUnsolicitedAdoption, Allowed
  <1> QED
    BY <1>1, ProvenanceHolds, PTL

\* The controller's network configuration, alias, lock and service file are
\* only found on a machine that took or announced the role of master.
THEOREM ArtifactsOfMaster == Spec => []MasterArtifacts
  <1>1. TypeOK /\ Provenance => MasterArtifacts
    BY DEF Provenance, RoleVouched
  <1> QED
    BY <1>1, ProvenanceHolds, PTL

=============================================================================

--------------------------- MODULE NodeConfMapProofs ---------------------------
(***************************************************************************)
(* Proofs about NodeConf: what network_map, its images and the file hold   *)
(* of the nodes and of their flags, while run() reads, merges and writes   *)
(* the map, the listener overwrites the objects it shares with it and      *)
(* requests change and write it.                                           *)
(***************************************************************************)
EXTENDS NodeConfProofs

USE SelfAssumption, UuidAssumption, LimitAssumption

-----------------------------------------------------------------------------
(* Writing entries in place.                                               *)

\* Which objects a write in place reaches, and which it leaves alone.
LEMMA PutEntriesWrites ==
    ASSUME MapType, NEW new \in [Mac -> Node], PutEntries(new)
    PROVE  /\ known' = known /\ ref' = ref /\ InMap' = InMap
           /\ \A m \in InMap : Entry(m)' = new[m]
           /\ \A m \in Mac : ref[m] = "loaded" => loaded'[m] = new[m]
           /\ \A m \in Mac : ref[m] # "shared" => heard'[m] = heard[m]
  BY DEF MapType, PutEntries, Entry, InMap

\* The same for one entry.
LEMMA PutEntryWrites ==
    ASSUME MapType, NEW k \in Mac, NEW node \in Node, PutEntry(k, node)
    PROVE  /\ known' = known /\ ref' = ref /\ InMap' = InMap
           /\ \A m \in InMap : Entry(m)' = IF m = k THEN node ELSE Entry(m)
           /\ \A m \in Mac : ref[m] = "loaded" => loaded'[m] = IF m = k THEN node ELSE loaded[m]
           /\ \A m \in Mac : ref[m] # "shared" => heard'[m] = heard[m]
  <1> DEFINE new == [n \in Mac |-> IF n = k THEN node ELSE Entry(n)]
  <1>1. new \in [Mac -> Node]
    BY EntryType
  <1>2. PutEntries(new)
    BY DEF PutEntry
  <1>3. \A m \in Mac : new[m] = IF m = k THEN node ELSE Entry(m)
    OBVIOUS
  <1>4. \A m \in Mac : ref[m] = "loaded" => Entry(m) = loaded[m]
    BY DEF Entry
  <1>5. InMap \subseteq Mac
    BY DEF InMap
  <1> HIDE DEF new
  <1> QED
    BY <1>1, <1>2, <1>3, <1>4, <1>5, PutEntriesWrites

\* A write that changes, of each entry, nothing the map's properties look at
\* but perhaps "online", which it can only clear.
Softens ==
    /\ known' = known /\ ref' = ref /\ InMap' = InMap
    /\ \A m \in InMap :
          /\ Entry(m)'.adopted = Entry(m).adopted
          /\ Entry(m)'.online => Entry(m).online
    /\ \A m \in Mac : ref[m] = "loaded" => loaded'[m].adopted = loaded[m].adopted
    /\ \A m \in Mac : ref[m] # "shared" => heard'[m] = heard[m]

\* Both serialisations and the loop that marks nodes offline are such writes.
LEMMA StringifySoftens ==
    ASSUME MapType, NEW done,
           PutEntries([m \in Mac |-> IF m \in done THEN Stringified(Entry(m))
                                    ELSE Entry(m)])
    PROVE  Softens
  <1> DEFINE new == [m \in Mac |-> IF m \in done THEN Stringified(Entry(m))
                                  ELSE Entry(m)]
  <1>1. new \in [Mac -> Node]
    BY EntryType, StringifiedType
  <1>2. \A m \in Mac : new[m].adopted = Entry(m).adopted /\ new[m].online = Entry(m).online
    BY EntryType DEF Stringified, Node
  <1>3. PutEntries(new)
    OBVIOUS
  <1>4. \A m \in Mac : ref[m] = "loaded" => Entry(m) = loaded[m]
    BY DEF Entry
  <1>5. InMap \subseteq Mac
    BY DEF InMap
  <1> HIDE DEF new
  <1> QED
    BY <1>1, <1>2, <1>3, <1>4, <1>5, PutEntriesWrites DEF Softens

LEMMA StringifyAllSoftens ==
    ASSUME MapType, StringifyAll
    PROVE  Softens
  <1>1. [m \in Mac |-> IF m \in Mac THEN Stringified(Entry(m)) ELSE Entry(m)]
          = [m \in Mac |-> Stringified(Entry(m))]
    OBVIOUS
  <1> QED
    BY <1>1, StringifySoftens DEF StringifyAll

LEMMA MarkSoftens ==
    ASSUME MapType, MarkOffline
    PROVE  Softens /\ \A m \in InMap : Entry(m)'.online => m \in found
  <1> DEFINE new == [m \in Mac |-> Marked(m)]
  <1>1. new \in [Mac -> Node]
    BY EntryType DEF Marked, Node
  <1>2. \A m \in Mac :
           /\ new[m].adopted = Entry(m).adopted
           /\ new[m].online => Entry(m).online /\ m \in found
    BY EntryType DEF Marked, Node
  <1>3. PutEntries(new)
    BY DEF MarkOffline
  <1>4. \A m \in Mac : ref[m] = "loaded" => Entry(m) = loaded[m]
    BY DEF Entry
  <1>5. InMap \subseteq Mac
    BY DEF InMap
  <1> HIDE DEF new
  <1> QED
    BY <1>1, <1>2, <1>3, <1>4, <1>5, PutEntriesWrites DEF Softens

-----------------------------------------------------------------------------
(* Where the entries come from.                                            *)

\* Before the map is looked for there is nothing to adopt or to write.
Outset == {"off", "start"}

\* The entries of the file are objects of their own, never the listener's, and
\* all of them are in the map once the file is read.
Origin ==
    /\ pc \in Outset =>
          InMap = {} /\ parsed.macs = {} /\ cphase \in {"idle", "answer"} /\ firstRun = FALSE
    /\ pc \notin Outset \cup {"read"} => parsed.macs \subseteq InMap
    /\ \A m \in parsed.macs : ref[m] # "shared"
    /\ firstRun => parsed.macs = {}

\* Initially there is no map.
LEMMA InitOrigin == Init => Origin
  BY DEF Init, Origin, Nothing, Outset, InMap

\* The end of the process leaves none.
LEMMA ExitOrigin ==
    ASSUME Exit
    PROVE  Origin'
  BY DEF Exit, Origin, Nothing, Outset, InMap

\* How run() moves, the steps apart in which a process starts or ends, looks
\* for its map or has read it.
Within ==
    \/ pc' = pc
    \/ pc \notin Outset \cup {"read"} /\ pc' \notin Outset \cup {"read"}

\* Steps that leave the shape of the map alone.
LEMMA KeepsOrigin ==
    ASSUME Origin, Within, UNCHANGED <<ref, parsed, firstRun>>,
           pc \in Outset => cphase' \in {cphase, "idle", "answer"}
    PROVE  Origin'
  BY DEF Origin, Within, Outset, InMap

\* Most of run() and of the rest does.
LEMMA MainOrigin ==
    ASSUME Origin,
           \/ FindLocalNode \/ AlreadyConfigured \/ BecomeMaster \/ StaySlave
           \/ CopyMasterService \/ CopySlaveService \/ ChangeNetwork
           \/ Settle \/ WaitFirstrun \/ LeaveWait \/ TakeDiscovered \/ BeginMerge
           \/ OverwriteEntry \/ RestoreAdopted \/ MarkOffline
           \/ SetMasterAlwaysAdopted \/ SerialiseMap \/ StoreMap
           \/ UpdateMasterLock \/ NotifyReady
           \/ \E m \in Mac : MergeKnown(m)
    PROVE  Origin'
  <1> USE DEF FindLocalNode, AlreadyConfigured, BecomeMaster, StaySlave, TakeRole,
              CopyMasterService, CopySlaveService, ChangeNetwork, Settle,
              WaitFirstrun, LeaveWait, TakeDiscovered, BeginMerge,
              OverwriteEntry, RestoreAdopted, MarkOffline, PutEntry, PutEntries,
              SetMasterAlwaysAdopted, SerialiseMap, StringifyAll, StoreMap,
              UpdateMasterLock, NotifyReady, MergeKnown,
              runVars, mapVars, commVars
  <1>1. Within
    BY DEF Within, Outset
  <1>2. UNCHANGED <<ref, parsed, firstRun>> /\ cphase' = cphase
    OBVIOUS
  <1> QED
    BY <1>1, <1>2, KeepsOrigin

LEMMA OthersOrigin ==
    ASSUME Origin,
           \/ Listener \/ Serve \/ InvalidAction
           \/ Advertise \/ FactoryReset
           \/ \E m \in Mac, role \in Role : NeighbourChanges(m, role)
    PROVE  Origin'
  <1> USE DEF Listener, AddService, UpdateService, Hear, Serve, SerialiseRequest,
              SerialiseRaises, StringifyAll, PutEntries, StoreRequest, Respond,
              InvalidAction, AnswerAtOnce, Advertise, FactoryReset,
              NeighbourChanges, runVars, mapVars, commVars
  <1>1. UNCHANGED <<pc, ref, parsed, firstRun>>
    OBVIOUS
  <1>2. pc \in Outset => cphase' \in {cphase, "idle", "answer"}
    BY DEF Origin
  <1> QED
    BY <1>1, <1>2, KeepsOrigin DEF Within

\* A request that comes before the map is read finds nobody.
LEMMA RequestOrigin ==
    ASSUME Origin, NEW u \in Uuid, Adopt(u) \/ Unadopt(u)
    PROVE  Origin'
  <1>1. UNCHANGED <<pc, ref, parsed, firstRun>>
    BY DEF Adopt, Unadopt, NotFound, AnswerAtOnce, SetAdopted, PutEntry,
           PutEntries, runVars, mapVars
  <1>2. pc \in Outset => cphase' = "answer"
    <2> SUFFICES ASSUME pc \in Outset PROVE cphase' = "answer"
      OBVIOUS
    <2>1. Matches(u) = {}
      BY DEF Origin, Matches
    <2> QED
      BY <2>1 DEF Adopt, Unadopt, NotFound, AnswerAtOnce
  <1> QED
    BY <1>1, <1>2, KeepsOrigin DEF Within

\* The steps in which the process starts, and its map is looked for and read.
LEMMA ReadOrigin ==
    ASSUME TypeOK, Origin,
           Boot \/ FindMap \/ ReadDone \/ \E m \in Mac : ReadNode(m) \/ MergeNew(m)
    PROVE  Origin'
  <1>1. CASE Boot
    BY <1>1 DEF Boot, Origin, Outset, InMap, runVars, mapVars, commVars
  <1>2. CASE FindMap
    BY <1>2 DEF FindMap, Origin, Outset, InMap, mapVars, TypeOK, DiskType, Image
  <1>3. CASE ReadDone
    BY <1>3 DEF ReadDone, Origin, Outset, InMap, runVars, mapVars
  <1>4. ASSUME NEW m \in Mac, ReadNode(m) \/ MergeNew(m)
        PROVE  Origin'
    <2>1. /\ pc \notin Outset /\ pc' \notin Outset /\ (pc = "read" <=> pc' = "read")
          /\ UNCHANGED <<parsed, firstRun>>
      BY <1>4 DEF ReadNode, MergeNew, Outset, runVars
    <2>2. ref' = [ref EXCEPT ![m] = "loaded"] \/ ref' = [ref EXCEPT ![m] = "shared"]
      BY <1>4 DEF ReadNode, MergeNew
    <2>3. InMap \subseteq InMap'
      BY <2>2 DEF InMap, TypeOK, MapType
    <2>4. \A k \in parsed.macs : ref'[k] # "shared"
      <3>1. ReadNode(m) => ref' = [ref EXCEPT ![m] = "loaded"]
        BY DEF ReadNode
      <3>2. MergeNew(m) => m \notin parsed.macs /\ ref' = [ref EXCEPT ![m] = "shared"]
        BY DEF MergeNew, Origin, Outset, InMap
      <3>3. parsed.macs \subseteq Mac /\ ref \in [Mac -> {"none", "loaded", "shared"}]
        BY DEF TypeOK, RunType, Image, MapType
      <3> QED
        BY <1>4, <3>1, <3>2, <3>3 DEF Origin
    <2> QED
      BY <2>1, <2>3, <2>4 DEF Origin
  <1> QED
    BY <1>1, <1>2, <1>3, <1>4

\* Every step preserves the shape of the map.
LEMMA NextOrigin == TypeOK /\ Origin /\ [Next]_vars => Origin'
  <1> SUFFICES ASSUME TypeOK, Origin, [Next]_vars
               PROVE  Origin'
    OBVIOUS
  <1>1. CASE Main
    BY <1>1, MainOrigin, ReadOrigin, EndsExit, ExitOrigin DEF Main, Ends
  <1>2. CASE Listener
    BY <1>2, OthersOrigin
  <1>3. CASE Comms
    BY <1>3, RequestOrigin, OthersOrigin DEF Comms
  <1>4. CASE World
    BY <1>4, ReadOrigin, OthersOrigin, EndsExit, ExitOrigin DEF World, Ends
  <1>5. CASE UNCHANGED vars
    BY <1>5, KeepsOrigin DEF Within, vars, runVars, mapVars, commVars
  <1> QED
    BY <1>1, <1>2, <1>3, <1>4, <1>5 DEF Next

-----------------------------------------------------------------------------
(* What the file and its images hold.                                      *)

\* The nodes of the file are in the map or were when the process started; the
\* main thread's image is the whole map, that of a request a part of it.
FileCovered ==
    /\ pc \notin Outset => file.macs \subseteq parsed.macs \cup InMap
    /\ pc = "store" => image.macs = InMap
    /\ cphase = "store" => cimage.macs \subseteq InMap

LEMMA InitFileCovered == Init => FileCovered
  BY DEF Init, FileCovered, Outset

\* The file is not touched when a process ends.
LEMMA EndsFileCovered ==
    ASSUME Ends
    PROVE  FileCovered'
  BY EndsExit DEF Exit, FileCovered, Outset

\* Steps that neither serialise nor store anything.
LEMMA KeepsFileCovered ==
    ASSUME FileCovered,
           UNCHANGED <<parsed, file>>, InMap \subseteq InMap',
           pc' = "store" => pc = "store" /\ InMap' = InMap /\ image' = image,
           cphase' = "store" => cphase = "store" /\ cimage' = cimage,
           pc \in Outset => pc' \in Outset
    PROVE  FileCovered'
  BY DEF FileCovered

LEMMA MainFileCovered ==
    ASSUME TypeOK, FileCovered,
           \/ ReadDone \/ FindLocalNode \/ AlreadyConfigured \/ BecomeMaster \/ StaySlave
           \/ CopyMasterService \/ CopySlaveService \/ ChangeNetwork
           \/ Settle \/ WaitFirstrun \/ LeaveWait \/ TakeDiscovered \/ BeginMerge
           \/ OverwriteEntry \/ RestoreAdopted \/ MarkOffline
           \/ SetMasterAlwaysAdopted \/ UpdateMasterLock \/ NotifyReady
           \/ \E m \in Mac : ReadNode(m) \/ MergeKnown(m) \/ MergeNew(m)
    PROVE  FileCovered'
  <1> USE DEF ReadDone, FindLocalNode, AlreadyConfigured, BecomeMaster, StaySlave,
              TakeRole, CopyMasterService, CopySlaveService, ChangeNetwork,
              Settle, WaitFirstrun, LeaveWait, TakeDiscovered, BeginMerge,
              OverwriteEntry, RestoreAdopted, MarkOffline, PutEntry, PutEntries,
              SetMasterAlwaysAdopted, UpdateMasterLock, NotifyReady, ReadNode,
              MergeKnown, MergeNew, runVars, mapVars, commVars, diskVars
  <1>1. UNCHANGED <<parsed, file, cphase, cimage>>
    OBVIOUS
  <1>2. pc' # "store" /\ (pc \in Outset => pc' \in Outset)
    BY DEF Outset
  <1>3. \/ ref' = ref
        \/ \E m \in Mac : ref' = [ref EXCEPT ![m] = "loaded"] \/ ref' = [ref EXCEPT ![m] = "shared"]
    OBVIOUS
  <1>4. InMap \subseteq InMap'
    BY <1>3 DEF InMap, TypeOK, MapType
  <1> QED
    BY <1>1, <1>2, <1>4, KeepsFileCovered

LEMMA OthersFileCovered ==
    ASSUME FileCovered,
           \/ Boot \/ Listener \/ SerialiseRaises \/ Respond \/ InvalidAction
           \/ Advertise \/ FactoryReset
           \/ \E u \in Uuid : Adopt(u) \/ Unadopt(u)
           \/ \E m \in Mac, role \in Role : NeighbourChanges(m, role)
    PROVE  FileCovered'
  <1> USE DEF Boot, Listener, AddService, UpdateService, Hear, SerialiseRaises,
              Respond, InvalidAction, AnswerAtOnce, Adopt, Unadopt, NotFound,
              SetAdopted, PutEntry, PutEntries, Advertise, FactoryReset,
              NeighbourChanges, runVars, mapVars, commVars, diskVars
  <1>1. UNCHANGED <<parsed, file, ref, image>>
    OBVIOUS
  <1>2. pc' # "store" \/ pc' = pc
    OBVIOUS
  <1>3. pc \in Outset => pc' \in Outset
    BY DEF Outset
  <1>4. cphase' = "store" => cphase = "store" /\ cimage' = cimage
    OBVIOUS
  <1>5. InMap' = InMap
    BY <1>1 DEF InMap
  <1> QED
    BY <1>1, <1>2, <1>3, <1>4, <1>5, KeepsFileCovered

\* The steps that serialise the map, store an image or read the file.
LEMMA StoreFileCovered ==
    ASSUME TypeOK, Origin, FileCovered,
           \/ FindMap \/ SerialiseMap \/ StoreMap
           \/ SerialiseRequest \/ StoreRequest
    PROVE  FileCovered'
  <1>1. Serialised.macs = InMap
    BY DEF Serialised
  <1>2. CASE FindMap
    BY <1>2 DEF FindMap, Origin, FileCovered, Outset, mapVars, commVars, diskVars
  <1>3. CASE SerialiseMap
    <2>1. /\ image' = Serialised /\ ref' = ref /\ pc = "write" /\ pc' = "store"
          /\ UNCHANGED <<parsed, file, cphase, cimage>>
      BY <1>3 DEF SerialiseMap, StringifyAll, PutEntries, runVars, commVars, diskVars
    <2>2. InMap' = InMap
      BY <2>1 DEF InMap
    <2> QED
      BY <1>1, <2>1, <2>2 DEF FileCovered, Outset
  <1>4. CASE SerialiseRequest
    <2>1. /\ cimage' = Serialised /\ ref' = ref
          /\ UNCHANGED <<pc, parsed, file, image>>
      BY <1>4 DEF SerialiseRequest, StringifyAll, PutEntries, runVars, diskVars
    <2>2. InMap' = InMap
      BY <2>1 DEF InMap
    <2> QED
      BY <1>1, <2>1, <2>2 DEF FileCovered
  <1>5. CASE StoreMap
    <2>1. InMap' = InMap
      BY <1>5 DEF StoreMap, InMap, mapVars
    <2> QED
      BY <1>5, <2>1 DEF StoreMap, FileCovered, Outset, runVars, commVars
  <1>6. CASE StoreRequest
    <2>1. InMap' = InMap
      BY <1>6 DEF StoreRequest, InMap, mapVars
    <2> QED
      BY <1>6, <2>1 DEF StoreRequest, FileCovered, runVars
  <1> QED
    BY <1>2, <1>3, <1>4, <1>5, <1>6

LEMMA NextFileCovered ==
    TypeOK /\ Origin /\ FileCovered /\ [Next]_vars => FileCovered'
  <1> SUFFICES ASSUME TypeOK, Origin, FileCovered, [Next]_vars
               PROVE  FileCovered'
    OBVIOUS
  <1>1. CASE Main
    BY <1>1, MainFileCovered, StoreFileCovered, EndsFileCovered DEF Main, Ends
  <1>2. CASE Listener
    BY <1>2, OthersFileCovered
  <1>3. CASE Comms
    BY <1>3, StoreFileCovered, OthersFileCovered DEF Comms, Serve
  <1>4. CASE World
    BY <1>4, OthersFileCovered, EndsFileCovered DEF World, Ends
  <1>5. CASE UNCHANGED vars
    <2>1. InMap' = InMap
      BY <1>5 DEF InMap, vars, mapVars
    <2> QED
      BY <1>5, <2>1, KeepsFileCovered DEF vars, runVars, commVars, diskVars
  <1> QED
    BY <1>1, <1>2, <1>3, <1>4, <1>5 DEF Next

\* run() never writes a map that lacks a node of the one on disk, although a
\* request may have written that one since run() read its own.
THEOREM MapKeepsNodes == Spec => []MapKeepsKnownNodes
  <1> DEFINE Inv == TypeOK /\ Origin /\ FileCovered
  <1>1. Init => Inv
    BY InitType, InitOrigin, InitFileCovered
  <1>2. Inv /\ [Next]_vars => Inv'
    BY NextType, NextOrigin, NextFileCovered
  <1>3. Inv => MapKeepsKnownNodes
    BY DEF Origin, FileCovered, MapKeepsKnownNodes, Outset
  <1> QED
    BY <1>1, <1>2, <1>3, PTL DEF Spec

-----------------------------------------------------------------------------
(* Who is online.                                                          *)

\* The merge takes nodes from the listener only, and shares objects with it.
HeardFirst ==
    /\ todo \subseteq known /\ found \subseteq known
    /\ \A m \in Mac : ref[m] = "shared" => m \in known
    /\ OnlineMeansHeard

LEMMA InitHeardFirst == Init => HeardFirst
  BY DEF Init, HeardFirst, OnlineMeansHeard, Merged

LEMMA ExitHeardFirst ==
    ASSUME Exit
    PROVE  HeardFirst'
  BY DEF Exit, HeardFirst, OnlineMeansHeard, Merged

\* Steps that put no entry online and share no object.
LEMMA KeepsHeardFirst ==
    ASSUME HeardFirst,
           known' = known, ref' = ref, InMap' = InMap,
           todo' \subseteq known, found' \subseteq known,
           pc' \in Merged => pc \in Merged \/ \A m \in InMap : Entry(m)'.online => m \in known,
           pc \in Merged => \A m \in InMap : Entry(m)'.online => Entry(m).online
    PROVE  HeardFirst'
  BY DEF HeardFirst, OnlineMeansHeard

\* run() outside of the merge, the requests that change nothing and what
\* happens outside of the process: no entry is touched.
LEMMA QuietHeardFirst ==
    ASSUME HeardFirst,
           \/ Boot \/ FindMap \/ ReadDone \/ FindLocalNode \/ AlreadyConfigured
           \/ CopyMasterService \/ CopySlaveService \/ ChangeNetwork
           \/ Settle \/ WaitFirstrun \/ LeaveWait \/ TakeDiscovered \/ BeginMerge
           \/ StoreMap \/ UpdateMasterLock \/ NotifyReady
           \/ StoreRequest \/ Respond \/ InvalidAction
           \/ Advertise \/ FactoryReset
           \/ \E m \in Mac : MergeKnown(m)
           \/ \E m \in Mac, role \in Role : NeighbourChanges(m, role)
    PROVE  HeardFirst'
  <1> USE DEF Boot, FindMap, ReadDone, FindLocalNode, AlreadyConfigured,
              CopyMasterService, CopySlaveService, ChangeNetwork, Settle,
              WaitFirstrun, LeaveWait, TakeDiscovered, BeginMerge, StoreMap,
              UpdateMasterLock, NotifyReady, StoreRequest, Respond,
              InvalidAction, AnswerAtOnce, Advertise, FactoryReset,
              MergeKnown, NeighbourChanges, runVars, loopVars, mapVars, commVars
  <1>1. UNCHANGED <<known, heard, ref, loaded>>
    OBVIOUS
  <1>2. todo' \in {todo, known, todo \cap todo'} /\ found' \in {found, known}
    OBVIOUS
  <1>3. pc' \in Merged => pc \in Merged
    BY DEF Merged
  <1>4. InMap' = InMap /\ \A m \in InMap : Entry(m)' = Entry(m)
    BY <1>1 DEF InMap, Entry
  <1> QED
    BY <1>1, <1>2, <1>3, <1>4, KeepsHeardFirst DEF HeardFirst

\* The steps before the merge that touch objects, and the one that shares one.
LEMMA EarlyHeardFirst ==
    ASSUME TypeOK, HeardFirst,
           \/ BecomeMaster \/ StaySlave
           \/ \E m \in Mac : ReadNode(m) \/ MergeNew(m)
    PROVE  HeardFirst'
  <1>1. pc' \notin Merged
    BY DEF BecomeMaster, StaySlave, ReadNode, MergeNew, Merged
  <1>2. known' = known /\ todo' \subseteq todo /\ found' = found
    BY DEF BecomeMaster, StaySlave, TakeRole, ReadNode, MergeNew, loopVars
  <1>3. \A m \in Mac : ref'[m] = "shared" => ref[m] = "shared" \/ m \in todo
    BY DEF BecomeMaster, StaySlave, TakeRole, ReadNode, MergeNew, TypeOK, MapType
  <1> QED
    BY <1>1, <1>2, <1>3 DEF HeardFirst, OnlineMeansHeard

\* The listener adds to the nodes known, and puts online whom it adds.
LEMMA HearHeardFirst ==
    ASSUME TypeOK, HeardFirst, Listener
    PROVE  HeardFirst'
  <1>1. PICK k \in Mac : Hear(k)
    BY DEF Listener, AddService, UpdateService
  <1>2. known \subseteq known' /\ k \in known' /\ UNCHANGED <<pc, todo, found, ref, loaded>>
    BY <1>1 DEF Hear, loopVars
  <1>3. \A m \in Mac : m # k => heard'[m] = heard[m]
    BY <1>1 DEF Hear, TypeOK, MapType
  <1>4. InMap' = InMap /\ InMap \subseteq Mac
    BY <1>2 DEF InMap
  <1>5. \A m \in InMap : m # k => Entry(m)' = Entry(m)
    BY <1>2, <1>3, <1>4 DEF Entry
  <1> QED
    BY <1>2, <1>4, <1>5 DEF HeardFirst, OnlineMeansHeard

\* Entries written in place.  The loop that marks nodes offline is the one that
\* leaves nobody online who was not discovered.
LEMMA WriteHeardFirst ==
    ASSUME TypeOK, HeardFirst,
           \/ OverwriteEntry \/ RestoreAdopted \/ MarkOffline
           \/ SetMasterAlwaysAdopted \/ SerialiseMap \/ SerialiseRequest
           \/ SerialiseRaises
    PROVE  HeardFirst'
  <1>1. MapType /\ cur \in Mac /\ \A m \in Mac : Entry(m) \in Node
    BY EntryType DEF TypeOK, LoopType
  <1>2. CASE OverwriteEntry \/ RestoreAdopted
    <2>1. PICK node \in Node : PutEntry(cur, node)
      <3>1. OverwriteEntry => heard[cur] \in Node /\ PutEntry(cur, heard[cur])
        BY <1>1 DEF OverwriteEntry, MapType
      <3>2. Restored(Entry(cur)) \in Node
        BY <1>1 DEF Restored, Node, TypeOK, LoopType
      <3>3. RestoreAdopted => PutEntry(cur, Restored(Entry(cur)))
        BY DEF RestoreAdopted
      <3> QED
        BY <1>2, <3>1, <3>2, <3>3
    <2>2. known' = known /\ ref' = ref /\ InMap' = InMap
      BY <1>1, <2>1, PutEntryWrites
    <2>3. pc' \notin Merged /\ todo' = todo /\ found' = found
      BY <1>2 DEF OverwriteEntry, RestoreAdopted, Merged, loopVars
    <2> QED
      BY <2>2, <2>3 DEF HeardFirst, OnlineMeansHeard
  <1>3. CASE MarkOffline
    <2>1. Softens /\ \A m \in InMap : Entry(m)'.online => m \in found
      BY <1>1, <1>3, MarkSoftens
    <2>2. todo' = todo /\ found' = {}
      BY <1>3 DEF MarkOffline
    <2> QED
      BY <2>1, <2>2, KeepsHeardFirst DEF Softens, HeardFirst
  <1>4. CASE SerialiseMap \/ SerialiseRequest \/ SerialiseRaises
    <2>1. Softens
      BY <1>1, <1>4, StringifyAllSoftens, StringifySoftens
         DEF SerialiseMap, SerialiseRequest, SerialiseRaises
    <2>2. (pc' \in Merged => pc \in Merged) /\ todo' = todo /\ found' = found
      BY <1>4 DEF SerialiseMap, SerialiseRequest, SerialiseRaises, Merged, loopVars
    <2> QED
      BY <2>1, <2>2, KeepsHeardFirst DEF Softens, HeardFirst
  <1>5. CASE SetMasterAlwaysAdopted
    <2> DEFINE new == [m \in Mac |-> MasterAdopted(Entry(m))]
    <2>1. new \in [Mac -> Node] /\ \A m \in Mac : new[m].online = Entry(m).online
      BY <1>1 DEF MasterAdopted, Node
    <2>2. PutEntries(new)
      BY <1>5 DEF SetMasterAlwaysAdopted
    <2>3. InMap \subseteq Mac
      BY DEF InMap
    <2> HIDE DEF new
    <2>4. /\ known' = known /\ ref' = ref /\ InMap' = InMap
          /\ \A m \in InMap : Entry(m)'.online = Entry(m).online
      BY <1>1, <2>1, <2>2, <2>3, PutEntriesWrites
    <2>5. pc \in Merged /\ todo' = todo /\ found' = found
      BY <1>5 DEF SetMasterAlwaysAdopted, Merged, loopVars
    <2> QED
      BY <2>4, <2>5, KeepsHeardFirst DEF HeardFirst
  <1> QED
    BY <1>2, <1>3, <1>4, <1>5

\* A request touches nothing outside of the map, and there sets one flag of
\* one node at most.
LEMMA RequestWrites ==
    ASSUME NEW u \in Uuid, Adopt(u) \/ Unadopt(u)
    PROVE  /\ UNCHANGED <<pc, runVars, loopVars, image, cimage, diskVars, txt>>
           /\ cphase = "idle" /\ dropped \subseteq dropped'
           /\ \/ AnswerAtOnce
              \/ \E m \in InMap, op \in {"ADD", "REMOVE"} :
                    /\ SetAdopted(m, op, op = "ADD")
                    /\ op = "REMOVE" => UuidOf[m] \in dropped'
  <1>1. UNCHANGED <<pc, runVars, loopVars, image, cimage, diskVars, txt>>
    BY DEF Adopt, Unadopt, NotFound, AnswerAtOnce, SetAdopted
  <1>2. cphase = "idle" /\ dropped \subseteq dropped'
    BY DEF Adopt, Unadopt
  <1>3. CASE Adopt(u)
    <2>1. AnswerAtOnce \/ \E m \in Matches(u) : SetAdopted(m, "ADD", TRUE)
      BY <1>3 DEF Adopt, NotFound
    <2>2. Matches(u) \subseteq InMap
      BY DEF Matches
    <2>3. ("ADD" = "ADD") = TRUE
      OBVIOUS
    <2> QED
      BY <1>1, <1>2, <2>1, <2>2, <2>3
  <1>4. CASE Unadopt(u)
    <2>1. u \in dropped'
      BY <1>4 DEF Unadopt
    <2>2. AnswerAtOnce \/ \E m \in Matches(u) : SetAdopted(m, "REMOVE", FALSE)
      BY <1>4 DEF Unadopt, NotFound
    <2>3. \A m \in Matches(u) : m \in InMap /\ UuidOf[m] = u
      BY DEF Matches
    <2>4. ("REMOVE" = "ADD") = FALSE
      OBVIOUS
    <2> QED
      BY <1>1, <1>2, <2>1, <2>2, <2>3, <2>4
  <1> QED
    BY <1>3, <1>4

\* Which flags a request leaves as they were.
LEMMA SetAdoptedWrites ==
    ASSUME MapType, NEW k \in InMap, NEW op \in {"ADD", "REMOVE"},
           SetAdopted(k, op, op = "ADD")
    PROVE  /\ known' = known /\ ref' = ref /\ InMap' = InMap
           /\ \A m \in InMap : Entry(m)'.online = Entry(m).online
           /\ \A m \in InMap : Entry(m)'.adopted = IF m = k THEN op = "ADD" ELSE Entry(m).adopted
           /\ ref[k] = "loaded" => loaded'[k].adopted = (op = "ADD")
           /\ \A m \in Mac : ref[m] # "shared" => heard'[m] = heard[m]
  <1> DEFINE node == [Entry(k) EXCEPT !.adopted = (op = "ADD")]
  <1>1. k \in Mac /\ InMap \subseteq Mac
    BY DEF InMap
  <1>2. node \in Node /\ node.online = Entry(k).online /\ node.adopted = (op = "ADD")
    BY <1>1, EntryType DEF Node
  <1>3. PutEntry(k, node)
    BY DEF SetAdopted
  <1> HIDE DEF node
  <1> QED
    BY <1>1, <1>2, <1>3, PutEntryWrites

\* No request puts a node online.
LEMMA RequestHeardFirst ==
    ASSUME TypeOK, HeardFirst, NEW u \in Uuid, Adopt(u) \/ Unadopt(u)
    PROVE  HeardFirst'
  <1>1. UNCHANGED <<pc, todo, found>>
    BY RequestWrites DEF loopVars
  <1>2. CASE AnswerAtOnce
    <2>1. UNCHANGED <<known, heard, ref, loaded>>
      BY <1>2 DEF AnswerAtOnce, mapVars
    <2>2. InMap' = InMap /\ \A m \in InMap : Entry(m)' = Entry(m)
      BY <2>1 DEF InMap, Entry
    <2> QED
      BY <1>1, <2>1, <2>2, KeepsHeardFirst DEF HeardFirst
  <1>3. ASSUME NEW m \in InMap, NEW op \in {"ADD", "REMOVE"}, SetAdopted(m, op, op = "ADD")
        PROVE  HeardFirst'
    <2>1. /\ known' = known /\ ref' = ref /\ InMap' = InMap
          /\ \A n \in InMap : Entry(n)'.online = Entry(n).online
      BY <1>3, SetAdoptedWrites DEF TypeOK
    <2> QED
      BY <1>1, <2>1, KeepsHeardFirst DEF HeardFirst
  <1> QED
    BY <1>2, <1>3, RequestWrites

LEMMA NextHeardFirst == TypeOK /\ HeardFirst /\ [Next]_vars => HeardFirst'
  <1> SUFFICES ASSUME TypeOK, HeardFirst, [Next]_vars
               PROVE  HeardFirst'
    OBVIOUS
  <1>1. CASE Main
    BY <1>1, QuietHeardFirst, EarlyHeardFirst, WriteHeardFirst, EndsExit,
       ExitHeardFirst DEF Main, Ends
  <1>2. CASE Listener
    BY <1>2, HearHeardFirst
  <1>3. CASE Comms
    BY <1>3, QuietHeardFirst, WriteHeardFirst, RequestHeardFirst DEF Comms, Serve
  <1>4. CASE World
    BY <1>4, QuietHeardFirst, EndsExit, ExitHeardFirst DEF World, Ends
  <1>5. CASE UNCHANGED vars
    <2>1. UNCHANGED <<pc, todo, found, known, heard, ref, loaded>>
      BY <1>5 DEF vars, loopVars, mapVars
    <2>2. InMap' = InMap /\ \A m \in InMap : Entry(m)' = Entry(m)
      BY <2>1 DEF InMap, Entry
    <2> QED
      BY <2>1, <2>2, KeepsHeardFirst DEF HeardFirst
  <1> QED
    BY <1>1, <1>2, <1>3, <1>4, <1>5 DEF Next

\* Past the merge, the map has online only nodes heard of since the process
\* started: no "online" of an earlier run survives, whatever shares objects.
THEOREM OnlineWasHeard == Spec => []OnlineMeansHeard
  <1>1. HeardFirst => OnlineMeansHeard
    BY DEF HeardFirst
  <1> QED
    BY <1>1, InitType, InitHeardFirst, NextType, NextHeardFirst, PTL DEF Spec

-----------------------------------------------------------------------------
(* Which objects hold their type as a string.                              *)

\* The type of an object that only the listener holds is a member of the
\* enumeration: write_network_map gets at the objects of the map.
TypedUnlessShared == \A m \in Mac : ref[m] # "shared" => heard[m].typed

\* Initially no object is the map's.
LEMMA InitTyped == Init => TypedUnlessShared
  BY DEF Init, TypedUnlessShared, Blank

LEMMA EndsTyped ==
    ASSUME Ends
    PROVE  TypedUnlessShared'
  <1>1. heard' = [m \in Mac |-> Blank]
    BY EndsExit DEF Exit
  <1> QED
    BY <1>1 DEF TypedUnlessShared, Blank

\* The entries of run() and of requests that are written in place leave the
\* listener's own objects alone.
LEMMA WriteTyped ==
    ASSUME TypeOK, TypedUnlessShared,
           \/ OverwriteEntry \/ RestoreAdopted \/ MarkOffline
           \/ SetMasterAlwaysAdopted \/ SerialiseMap \/ SerialiseRequest
           \/ SerialiseRaises \/ \E u \in Uuid : Adopt(u) \/ Unadopt(u)
    PROVE  TypedUnlessShared'
  <1> SUFFICES ref' = ref /\ \A m \in Mac : ref[m] # "shared" => heard'[m] = heard[m]
    BY DEF TypedUnlessShared
  <1>1. ASSUME NEW new, PutEntries(new)
        PROVE  ref' = ref /\ \A m \in Mac : ref[m] # "shared" => heard'[m] = heard[m]
    BY <1>1 DEF PutEntries, TypeOK, MapType
  <1>2. ASSUME AnswerAtOnce
        PROVE  ref' = ref /\ heard' = heard
    BY <1>2 DEF AnswerAtOnce, mapVars
  <1> QED
    BY <1>1, <1>2, RequestWrites
       DEF OverwriteEntry, RestoreAdopted, MarkOffline, SetMasterAlwaysAdopted,
           SerialiseMap, SerialiseRequest, SerialiseRaises, StringifyAll,
           SetAdopted, PutEntry

\* Other steps write a typed object ...
LEMMA NewTyped ==
    ASSUME TypeOK, TypedUnlessShared,
           \/ Listener \/ BecomeMaster \/ StaySlave
           \/ \E m \in Mac : ReadNode(m) \/ MergeNew(m)
    PROVE  TypedUnlessShared'
  <1>1. CASE Listener
    BY <1>1 DEF Listener, AddService, UpdateService, Hear, Announced,
                TypedUnlessShared, TypeOK, MapType
  <1>2. CASE BecomeMaster \/ StaySlave
    BY <1>2 DEF BecomeMaster, StaySlave, TakeRole, TypedUnlessShared, TypeOK,
                MapType, Node
  <1>3. ASSUME NEW k \in Mac, ReadNode(k) \/ MergeNew(k)
        PROVE  TypedUnlessShared'
    <2>1. heard' = heard /\ ref[k] = "none"
      BY <1>3 DEF ReadNode, MergeNew, InMap
    <2>2. \A m \in Mac : m # k => ref'[m] = ref[m]
      BY <1>3 DEF ReadNode, MergeNew, TypeOK, MapType
    <2> QED
      BY <2>1, <2>2 DEF TypedUnlessShared
  <1> QED
    BY <1>1, <1>2, <1>3

\* ... or none.
LEMMA QuietTyped ==
    ASSUME TypedUnlessShared,
           \/ Boot \/ FindMap \/ ReadDone \/ FindLocalNode \/ AlreadyConfigured
           \/ CopyMasterService \/ CopySlaveService \/ ChangeNetwork
           \/ Settle \/ WaitFirstrun \/ LeaveWait \/ TakeDiscovered \/ BeginMerge
           \/ StoreMap \/ UpdateMasterLock \/ NotifyReady
           \/ StoreRequest \/ Respond \/ InvalidAction
           \/ Advertise \/ FactoryReset
           \/ \E m \in Mac : MergeKnown(m)
           \/ \E m \in Mac, role \in Role : NeighbourChanges(m, role)
    PROVE  TypedUnlessShared'
  <1>1. UNCHANGED <<heard, ref>>
    BY DEF Boot, FindMap, ReadDone, FindLocalNode, AlreadyConfigured,
           CopyMasterService, CopySlaveService, ChangeNetwork, Settle,
           WaitFirstrun, LeaveWait, TakeDiscovered, BeginMerge, StoreMap,
           UpdateMasterLock, NotifyReady, StoreRequest, Respond, InvalidAction,
           AnswerAtOnce, Advertise, FactoryReset, MergeKnown, NeighbourChanges,
           mapVars
  <1> QED
    BY <1>1 DEF TypedUnlessShared

LEMMA NextTyped == TypeOK /\ TypedUnlessShared /\ [Next]_vars => TypedUnlessShared'
  <1> SUFFICES ASSUME TypeOK, TypedUnlessShared, [Next]_vars
               PROVE  TypedUnlessShared'
    OBVIOUS
  <1>1. CASE Main
    BY <1>1, NewTyped, QuietTyped, WriteTyped, EndsTyped DEF Main, Ends
  <1>2. CASE Listener
    BY <1>2, NewTyped
  <1>3. CASE Comms
    BY <1>3, QuietTyped, WriteTyped DEF Comms, Serve
  <1>4. CASE World
    BY <1>4, QuietTyped, EndsTyped DEF World, Ends
  <1>5. CASE UNCHANGED vars
    BY <1>5 DEF TypedUnlessShared, vars, mapVars
  <1> QED
    BY <1>1, <1>2, <1>3, <1>4, <1>5 DEF Next

=============================================================================

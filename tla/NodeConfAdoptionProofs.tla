------------------------ MODULE NodeConfAdoptionProofs ------------------------
(***************************************************************************)
(* Proofs about NodeConf: what becomes of adoption, from the file that a   *)
(* process finds through its merge to the file it leaves, and from a       *)
(* request to the file.                                                    *)
(***************************************************************************)
EXTENDS NodeConfMapProofs

-----------------------------------------------------------------------------
(* Adoption survives the merge.                                            *)

\* What the map said of m's adoption at the start of the process counts.
Remembered(m) ==
    m \in parsed.macs /\ parsed.rows[m].adopted /\ UuidOf[m] \notin dropped

\* An entry remembered as adopted is, or its flag is in preserved_adopted: the
\* latter from the moment the loop turns to it.  What run() is about to write
\* says the same.
KeptInHand ==
    /\ \A m \in InMap : Remembered(m) /\ ~(pc = "restore" /\ cur = m) => Entry(m).adopted
    /\ pc \in {"overwrite", "restore"} /\ Remembered(cur) => kept
    /\ pc = "store" => \A m \in InMap : Remembered(m) => image.rows[m].adopted

LEMMA InitKept == Init => KeptInHand
  BY DEF Init, KeptInHand, InMap

LEMMA ExitKept ==
    ASSUME Exit
    PROVE  KeptInHand'
  BY DEF Exit, KeptInHand, InMap

\* What is remembered was read from the file, an object of its own.
LEMMA RememberedIsLoaded ==
    ASSUME TypeOK, Origin, NEW m \in InMap, Remembered(m)
    PROVE  ref[m] = "loaded" /\ Entry(m) = loaded[m] /\ m \in Mac
  BY DEF Origin, Remembered, InMap, Entry, TypeOK, MapType

\* Steps that leave the rounds of the merge loop and the image alone, and each
\* entry that is remembered as adopted.
LEMMA KeepsKept ==
    ASSUME KeptInHand,
           parsed' = parsed, dropped \subseteq dropped', InMap' = InMap,
           pc = "restore" => pc' = "restore",
           pc' \in {"overwrite", "restore"} => pc' = pc /\ cur' = cur /\ kept' = kept,
           pc' = "store" => pc = "store" /\ image' = image,
           \A m \in InMap : Remembered(m) /\ Entry(m).adopted
              => Entry(m)'.adopted \/ UuidOf[m] \in dropped'
    PROVE  KeptInHand'
  BY DEF KeptInHand, Remembered

\* Steps that touch no entry, or only an object of the listener's that is not
\* remembered, whatever it is.
LEMMA AloofKept ==
    ASSUME TypeOK, Origin, KeptInHand,
           UNCHANGED <<parsed, ref, loaded>>, dropped \subseteq dropped',
           pc = "restore" => pc' = "restore",
           pc' \in {"overwrite", "restore"} => pc' = pc /\ cur' = cur /\ kept' = kept,
           pc' = "store" => pc = "store" /\ image' = image
    PROVE  KeptInHand'
  <1>1. InMap' = InMap
    BY DEF InMap
  <1>2. \A m \in InMap : Remembered(m) => Entry(m)' = Entry(m)
    BY RememberedIsLoaded DEF Entry
  <1> QED
    BY <1>1, <1>2, KeepsKept

LEMMA QuietKept ==
    ASSUME TypeOK, Origin, KeptInHand,
           \/ Boot \/ ReadDone \/ FindLocalNode \/ AlreadyConfigured
           \/ BecomeMaster \/ StaySlave
           \/ CopyMasterService \/ CopySlaveService \/ ChangeNetwork
           \/ Settle \/ WaitFirstrun \/ LeaveWait \/ TakeDiscovered \/ BeginMerge
           \/ StoreMap \/ UpdateMasterLock \/ NotifyReady
           \/ Listener \/ StoreRequest \/ Respond \/ InvalidAction
           \/ Advertise \/ FactoryReset
           \/ \E m \in Mac, role \in Role : NeighbourChanges(m, role)
    PROVE  KeptInHand'
  <1> USE DEF Boot, ReadDone, FindLocalNode, AlreadyConfigured, BecomeMaster,
              StaySlave, TakeRole, CopyMasterService, CopySlaveService,
              ChangeNetwork, Settle, WaitFirstrun, LeaveWait, TakeDiscovered,
              BeginMerge, StoreMap, UpdateMasterLock, NotifyReady,
              Listener, AddService, UpdateService, Hear, StoreRequest, Respond,
              InvalidAction, AnswerAtOnce, Advertise, FactoryReset,
              NeighbourChanges, runVars, loopVars, mapVars, commVars, diskVars,
              histVars
  <1>1. UNCHANGED <<parsed, ref, loaded, dropped>>
    OBVIOUS
  <1>2. \/ pc' = pc /\ UNCHANGED <<cur, kept, image>>
        \/ pc # "restore" /\ pc' \notin {"overwrite", "restore", "store"}
    OBVIOUS
  <1> QED
    BY <1>1, <1>2, AloofKept

\* Until the map is read, nothing is remembered of an entry; when one is read
\* it is adopted if the file says so.
LEMMA ReadKept ==
    ASSUME TypeOK, Origin, KeptInHand,
           FindMap \/ \E m \in Mac : ReadNode(m)
    PROVE  KeptInHand'
  <1>1. CASE FindMap
    <2>1. InMap' = {}
      BY <1>1 DEF FindMap, Origin, Outset, InMap, mapVars
    <2> QED
      BY <1>1, <2>1 DEF FindMap, KeptInHand
  <1>2. ASSUME NEW k \in Mac, ReadNode(k)
        PROVE  KeptInHand'
    <2>1. /\ pc = "read" /\ pc' = pc /\ ref[k] = "none"
          /\ UNCHANGED <<parsed, dropped, heard>>
          /\ ref' = [ref EXCEPT ![k] = "loaded"]
          /\ loaded' = [loaded EXCEPT ![k] = Normalised(parsed.rows[k])]
      BY <1>2 DEF ReadNode, InMap, runVars, histVars
    <2>2. InMap' = InMap \cup {k} /\ k \notin InMap
      BY <2>1 DEF InMap, TypeOK, MapType
    <2>3. \A m \in InMap : Entry(m)' = Entry(m)
      BY <2>1, <2>2 DEF Entry, InMap, TypeOK, MapType
    <2>4. Entry(k)'.adopted = parsed.rows[k].adopted
      BY <2>1 DEF Entry, Normalised, TypeOK, MapType, RunType, Image, Node
    <2> QED
      BY <2>1, <2>2, <2>3, <2>4 DEF KeptInHand, Remembered
  <1> QED
    BY <1>1, <1>2

\* A round of the merge loop.
LEMMA MergeKept ==
    ASSUME TypeOK, Origin, KeptInHand,
           \/ \E m \in Mac : MergeKnown(m) \/ MergeNew(m)
           \/ OverwriteEntry \/ RestoreAdopted
    PROVE  KeptInHand'
  <1>1. MapType /\ cur \in Mac /\ \A m \in Mac : Entry(m) \in Node
    BY EntryType DEF TypeOK, LoopType
  <1>2. ASSUME NEW k \in Mac, MergeKnown(k)
        PROVE  KeptInHand'
    <2>1. /\ pc = "merge" /\ pc' = "overwrite" /\ cur' = k /\ kept' = Entry(k).adopted
          /\ UNCHANGED <<parsed, dropped, heard, ref, loaded>> /\ k \in InMap
      BY <1>2 DEF MergeKnown, InMap, runVars, mapVars, histVars
    <2>2. InMap' = InMap /\ \A m \in InMap : Entry(m)' = Entry(m)
      BY <2>1 DEF InMap, Entry
    <2> QED
      BY <2>1, <2>2 DEF KeptInHand, Remembered
  <1>3. ASSUME NEW k \in Mac, MergeNew(k)
        PROVE  KeptInHand'
    <2>1. /\ pc = "merge" /\ pc' = "restore" /\ cur' = k /\ ref[k] = "none"
          /\ UNCHANGED <<parsed, dropped, heard, loaded>>
          /\ ref' = [ref EXCEPT ![k] = "shared"]
      BY <1>3 DEF MergeNew, runVars, histVars
    <2>2. InMap' = InMap \cup {k} /\ k \notin InMap
      BY <2>1 DEF InMap, TypeOK, MapType
    <2>3. \A m \in InMap : Entry(m)' = Entry(m)
      BY <2>1, <2>2 DEF Entry, InMap, TypeOK, MapType
    <2>4. k \notin parsed.macs
      BY <2>1, <2>2 DEF Origin, Outset
    <2> QED
      BY <2>1, <2>2, <2>3, <2>4 DEF KeptInHand, Remembered
  <1>4. CASE OverwriteEntry
    <2>1. heard[cur] \in Node /\ PutEntry(cur, heard[cur])
      BY <1>1, <1>4 DEF OverwriteEntry, MapType
    <2>2. /\ InMap' = InMap
          /\ \A m \in InMap : Entry(m)' = IF m = cur THEN heard[cur] ELSE Entry(m)
      BY <1>1, <2>1, PutEntryWrites
    <2>3. pc = "overwrite" /\ pc' = "restore" /\ UNCHANGED <<parsed, dropped, cur, kept>>
      BY <1>4 DEF OverwriteEntry, runVars, loopVars, histVars
    <2> QED
      BY <2>2, <2>3 DEF KeptInHand, Remembered
  <1>5. CASE RestoreAdopted
    <2> DEFINE node == Restored(Entry(cur))
    <2>1. node \in Node /\ node.adopted = kept
      BY <1>1 DEF Restored, Node, TypeOK, LoopType
    <2>2. PutEntry(cur, node)
      BY <1>5 DEF RestoreAdopted
    <2> HIDE DEF node
    <2>3. /\ InMap' = InMap
          /\ \A m \in InMap : Entry(m)' = IF m = cur THEN node ELSE Entry(m)
      BY <1>1, <2>1, <2>2, PutEntryWrites
    <2>4. pc = "restore" /\ pc' = "merge" /\ UNCHANGED <<parsed, dropped>>
      BY <1>5 DEF RestoreAdopted, runVars, histVars
    <2> QED
      BY <2>1, <2>3, <2>4 DEF KeptInHand, Remembered
  <1> QED
    BY <1>2, <1>3, <1>4, <1>5

\* The end of the merge, and the serialisations.
LEMMA WriteKept ==
    ASSUME TypeOK, Origin, KeptInHand,
           \/ MarkOffline \/ SetMasterAlwaysAdopted
           \/ SerialiseMap \/ SerialiseRequest \/ SerialiseRaises
    PROVE  KeptInHand'
  <1>1. MapType /\ \A m \in Mac : Entry(m) \in Node
    BY EntryType DEF TypeOK
  <1>2. CASE MarkOffline \/ SerialiseRequest \/ SerialiseRaises
    <2>1. Softens
      BY <1>1, <1>2, MarkSoftens, StringifyAllSoftens, StringifySoftens
         DEF SerialiseRequest, SerialiseRaises
    <2>2. /\ UNCHANGED <<parsed, dropped, image, cur, kept>>
          /\ pc' = pc \/ (pc = "merge" /\ pc' = "masters")
      BY <1>2 DEF MarkOffline, SerialiseRequest, SerialiseRaises, runVars,
                  loopVars, histVars
    <2> QED
      BY <2>1, <2>2, KeepsKept DEF Softens
  <1>3. CASE SetMasterAlwaysAdopted
    <2> DEFINE new == [m \in Mac |-> MasterAdopted(Entry(m))]
    <2>1. new \in [Mac -> Node]
      BY <1>1 DEF MasterAdopted, Node
    <2>2. \A m \in Mac : Entry(m).adopted /\ ~firstRun => new[m].adopted
      BY <1>1 DEF MasterAdopted, Node
    <2>3. PutEntries(new)
      BY <1>3 DEF SetMasterAlwaysAdopted
    <2>4. InMap \subseteq Mac
      BY DEF InMap
    <2> HIDE DEF new
    <2>5. /\ InMap' = InMap
          /\ \A m \in InMap : Entry(m).adopted /\ ~firstRun => Entry(m)'.adopted
      BY <1>1, <2>1, <2>2, <2>3, <2>4, PutEntriesWrites
    <2>6. \A m \in InMap : Remembered(m) => ~firstRun
      BY DEF Origin, Remembered
    <2>7. pc = "masters" /\ pc' = "write" /\ UNCHANGED <<parsed, dropped>>
      BY <1>3 DEF SetMasterAlwaysAdopted, runVars, histVars
    <2> QED
      BY <2>5, <2>6, <2>7, KeepsKept
  <1>4. CASE SerialiseMap
    <2>1. Softens
      BY <1>1, <1>4, StringifyAllSoftens DEF SerialiseMap
    <2>2. /\ pc = "write" /\ pc' = "store" /\ image' = Serialised
          /\ UNCHANGED <<parsed, dropped>>
      BY <1>4 DEF SerialiseMap, runVars, histVars
    <2>3. \A m \in InMap : Serialised.rows[m].adopted = Entry(m).adopted
      BY <1>1 DEF Serialised, InMap, Stringified, Node
    <2> QED
      BY <2>1, <2>2, <2>3 DEF KeptInHand, Remembered, Softens
  <1> QED
    BY <1>2, <1>3, <1>4

\* A request clears the flag of a node whose uuid it drops, of no other.
LEMMA RequestKept ==
    ASSUME TypeOK, Origin, KeptInHand, NEW u \in Uuid, Adopt(u) \/ Unadopt(u)
    PROVE  KeptInHand'
  <1>1. UNCHANGED <<pc, parsed, image, cur, kept>> /\ dropped \subseteq dropped'
    BY RequestWrites DEF runVars, loopVars
  <1>2. CASE AnswerAtOnce
    BY <1>1, <1>2, AloofKept DEF AnswerAtOnce, mapVars
  <1>3. ASSUME NEW k \in InMap, NEW op \in {"ADD", "REMOVE"},
               SetAdopted(k, op, op = "ADD"), op = "REMOVE" => UuidOf[k] \in dropped'
        PROVE  KeptInHand'
    <2>1. /\ InMap' = InMap
          /\ \A m \in InMap : Entry(m)'.adopted = IF m = k THEN op = "ADD" ELSE Entry(m).adopted
      BY <1>3, SetAdoptedWrites DEF TypeOK
    <2> QED
      BY <1>1, <1>3, <2>1, KeepsKept
  <1> QED
    BY <1>2, <1>3, RequestWrites

LEMMA NextKept == TypeOK /\ Origin /\ KeptInHand /\ [Next]_vars => KeptInHand'
  <1> SUFFICES ASSUME TypeOK, Origin, KeptInHand, [Next]_vars
               PROVE  KeptInHand'
    OBVIOUS
  <1>1. CASE Main
    BY <1>1, QuietKept, ReadKept, MergeKept, WriteKept, EndsExit, ExitKept DEF Main, Ends
  <1>2. CASE Listener
    BY <1>2, QuietKept
  <1>3. CASE Comms
    BY <1>3, QuietKept, WriteKept, RequestKept DEF Comms, Serve
  <1>4. CASE World
    BY <1>4, QuietKept, EndsExit, ExitKept DEF World, Ends
  <1>5. CASE UNCHANGED vars
    BY <1>5, AloofKept DEF vars, runVars, loopVars, mapVars, histVars
  <1> QED
    BY <1>1, <1>2, <1>3, <1>4, <1>5 DEF Next

\* A node adopted in the file at the start is adopted in memory from then on,
\* whatever was announced and overwritten, unless a REMOVE named its uuid.
THEOREM AdoptionSurvives == Spec => []AdoptionSurvivesBoot
  <1> DEFINE Inv == TypeOK /\ Origin /\ KeptInHand
  <1>1. Init => Inv
    BY InitType, InitOrigin, InitKept
  <1>2. Inv /\ [Next]_vars => Inv'
    BY NextType, NextOrigin, NextKept
  <1>3. Inv => AdoptionSurvivesBoot
    BY DEF KeptInHand, Remembered, AdoptionSurvivesBoot
  <1> QED
    BY <1>1, <1>2, <1>3, PTL DEF Spec

-----------------------------------------------------------------------------
(* A process that serves no request keeps the file.                        *)

\* Without a request nobody else writes the file: it is the one that was read
\* until run() stores its map.
Undisturbed ==
    spent["request"] = 0 =>
        /\ cphase = "idle" /\ dropped = {}
        /\ pc \notin Outset \cup {"lock", "notify", "ready"} => file = parsed

LEMMA InitUndisturbed == Init => Undisturbed
  BY DEF Init, Undisturbed, Outset

LEMMA EndsUndisturbed ==
    ASSUME Ends
    PROVE  Undisturbed'
  BY EndsExit DEF Exit, Undisturbed, Outset

\* Requests are counted.
LEMMA RequestUndisturbed ==
    ASSUME TypeOK,
           InvalidAction \/ \E u \in Uuid : Adopt(u) \/ Unadopt(u)
    PROVE  Undisturbed'
  <1>1. Spend("request")
    BY DEF InvalidAction, Adopt, Unadopt
  <1>2. spent'["request"] = spent["request"] + 1 /\ spent["request"] \in Nat
    BY <1>1 DEF Spend, TypeOK, HistType
  <1> QED
    BY <1>2 DEF Undisturbed

\* The other steps of run() and of the world: those that change the file come
\* after a request, or are the last to look at it.
LEMMA MainUndisturbed ==
    ASSUME Undisturbed,
           \/ FindMap \/ ReadDone \/ FindLocalNode \/ AlreadyConfigured
           \/ BecomeMaster \/ StaySlave
           \/ CopyMasterService \/ CopySlaveService \/ ChangeNetwork
           \/ Settle \/ WaitFirstrun \/ LeaveWait \/ TakeDiscovered \/ BeginMerge
           \/ OverwriteEntry \/ RestoreAdopted \/ MarkOffline
           \/ SetMasterAlwaysAdopted \/ SerialiseMap \/ StoreMap
           \/ UpdateMasterLock \/ NotifyReady
           \/ \E m \in Mac : ReadNode(m) \/ MergeKnown(m) \/ MergeNew(m)
    PROVE  Undisturbed'
  <1> USE DEF FindMap, ReadDone, FindLocalNode, AlreadyConfigured, BecomeMaster,
              StaySlave, CopyMasterService, CopySlaveService, ChangeNetwork,
              Settle, WaitFirstrun, LeaveWait, TakeDiscovered, BeginMerge,
              OverwriteEntry, RestoreAdopted, MarkOffline,
              SetMasterAlwaysAdopted, SerialiseMap, StoreMap, UpdateMasterLock,
              NotifyReady, ReadNode, MergeKnown, MergeNew,
              runVars, commVars, diskVars, histVars
  <1>1. UNCHANGED <<spent, cphase, dropped>>
    OBVIOUS
  <1>2. \/ pc' \in {"lock", "notify", "ready"}
        \/ file' = parsed'
        \/ /\ file' = file /\ parsed' = parsed
           /\ pc \notin Outset \cup {"lock", "notify", "ready"}
    BY DEF Outset
  <1> QED
    BY <1>1, <1>2 DEF Undisturbed

LEMMA OthersUndisturbed ==
    ASSUME TypeOK, Undisturbed,
           \/ Boot \/ Listener \/ Serve \/ Advertise \/ FactoryReset
           \/ \E m \in Mac, role \in Role : NeighbourChanges(m, role)
    PROVE  Undisturbed'
  <1>1. CASE Serve
    BY <1>1 DEF Serve, SerialiseRequest, SerialiseRaises, StoreRequest, Respond,
                histVars, Undisturbed
  <1>2. CASE Boot \/ Listener \/ Advertise \/ FactoryReset
             \/ \E m \in Mac, role \in Role : NeighbourChanges(m, role)
    <2> USE <1>2 DEF Boot, Listener, AddService, UpdateService, Hear, Advertise,
                     FactoryReset, NeighbourChanges, Spend, runVars, commVars,
                     diskVars, histVars
    <2>1. UNCHANGED <<parsed, file, cphase, dropped>>
      OBVIOUS
    <2>2. spent'["request"] = spent["request"]
      BY DEF TypeOK, HistType
    <2>3. pc' = pc \/ pc' = "start"
      OBVIOUS
    <2> QED
      BY <2>1, <2>2, <2>3 DEF Undisturbed, Outset
  <1> QED
    BY <1>1, <1>2

LEMMA NextUndisturbed == TypeOK /\ Undisturbed /\ [Next]_vars => Undisturbed'
  <1> SUFFICES ASSUME TypeOK, Undisturbed, [Next]_vars
               PROVE  Undisturbed'
    OBVIOUS
  <1>1. CASE Main
    BY <1>1, MainUndisturbed, EndsUndisturbed DEF Main, Ends
  <1>2. CASE Listener
    BY <1>2, OthersUndisturbed
  <1>3. CASE Comms
    BY <1>3, OthersUndisturbed, RequestUndisturbed DEF Comms
  <1>4. CASE World
    BY <1>4, OthersUndisturbed, EndsUndisturbed DEF World, Ends
  <1>5. CASE UNCHANGED vars
    BY <1>5 DEF Undisturbed, vars, runVars, commVars, diskVars, histVars
  <1> QED
    BY <1>1, <1>2, <1>3, <1>4, <1>5 DEF Next

\* Who writes the file.
LEMMA FileWriters ==
    ASSUME [Next]_vars, file' # file
    PROVE  StoreMap \/ StoreRequest
  <1> USE DEF diskVars
  <1>1. CASE Main
    BY <1>1 DEF Main, FindMap, FindIpTimesOut, ReadDone, ReadNode, FindLocalNode,
                LocalNodeTimesOut, AlreadyConfigured, BecomeMaster, StaySlave,
                CopyMasterService, CopySlaveService, CopyServiceFails,
                ChangeNetwork, ChangeNetworkFails, Settle, WaitFirstrun,
                LeaveWait, TakeDiscovered, BeginMerge, MergeKnown, MergeNew,
                OverwriteEntry, RestoreAdopted, MergeRaises, MarkOffline,
                SetMasterAlwaysAdopted, SerialiseMap, UpdateMasterLock, NotifyReady
  <1>2. CASE Listener \/ Comms
    BY <1>2 DEF Listener, AddService, UpdateService, Hear, Comms, Serve, Adopt,
                Unadopt, InvalidAction, SerialiseRequest, SerialiseRaises, Respond
  <1>3. CASE World
    BY <1>3 DEF World, Boot, Crash, FactoryReset, Reboot, Advertise, NeighbourChanges
  <1>4. CASE UNCHANGED vars
    BY <1>4 DEF vars
  <1> QED
    BY <1>1, <1>2, <1>3, <1>4 DEF Next

\* Over however many starts and crashes, the file loses no node and no adoption
\* but to a request: what run() writes has at least what it found.
THEOREM FileKept == Spec => BootKeepsFile
  <1> DEFINE Inv == TypeOK /\ Origin /\ FileCovered /\ KeptInHand /\ Undisturbed
             Keeps == spent["request"] = 0 =>
                         /\ file.macs \subseteq file'.macs
                         /\ \A m \in file.macs : file.rows[m].adopted => file'.rows[m].adopted
  <1>1. Init => Inv
    BY InitType, InitOrigin, InitFileCovered, InitKept, InitUndisturbed
  <1>2. Inv /\ [Next]_vars => Inv'
    BY NextType, NextOrigin, NextFileCovered, NextKept, NextUndisturbed
  <1>3. Inv /\ [Next]_vars => Keeps
    <2> SUFFICES ASSUME Inv, [Next]_vars, spent["request"] = 0, file' # file
                 PROVE  Keeps
      OBVIOUS
    <2>1. StoreMap /\ file' = image
      <3>1. ~StoreRequest
        BY DEF Undisturbed, StoreRequest
      <3> QED
        BY <3>1, FileWriters DEF StoreMap
    <2>2. pc = "store" /\ file = parsed /\ dropped = {}
      BY <2>1 DEF StoreMap, Undisturbed, Outset
    <2>3. file.macs \subseteq InMap /\ image.macs = InMap
      BY <2>2 DEF Origin, FileCovered, Outset
    <2>4. \A m \in file.macs : file.rows[m].adopted => image.rows[m].adopted
      BY <2>2, <2>3 DEF KeptInHand, Remembered
    <2> QED
      BY <2>1, <2>3, <2>4
  <1>4. Inv /\ [Next]_vars => [Keeps]_vars
    BY <1>3
  <1> QED
    BY <1>1, <1>2, <1>4, PTL DEF Spec, BootKeepsFile

-----------------------------------------------------------------------------
(* A late request reaches the file.                                        *)

\* A map, whatever it is written on, has all nodes, and the flag the request
\* asked for if the node's entry is an object of its own.
Carries(img) ==
    /\ img.macs = InMap
    /\ ref[job.mac] = "loaded" => img.rows[job.mac].adopted = (job.op = "ADD")

\* Where a request that came after READY has got to.  By then run() neither
\* inserts nor overwrites, and the listener has other objects.  One whose write
\* failed is no longer such a request.
LateChange ==
    job.late =>
        /\ pc = "ready" /\ cphase # "idle"
        /\ cphase = "write" /\ ref[job.mac] = "loaded" =>
              loaded[job.mac].adopted = (job.op = "ADD")
        /\ cphase = "store" => Carries(cimage)
        /\ cphase = "answer" => Carries(file)

\* Without a late request, there is nothing to say.
LEMMA NotLate ==
    ASSUME job'.late = FALSE
    PROVE  LateChange'
  BY DEF LateChange

LEMMA InitLate == Init => LateChange
  BY DEF Init, Idle, LateChange

LEMMA EndsLate ==
    ASSUME Ends
    PROVE  LateChange'
  <1>1. job' = Idle
    BY EndsExit DEF Exit
  <1>2. job'.late = FALSE
    BY <1>1 DEF Idle
  <1> QED
    BY <1>2, NotLate

\* run() has nothing left to do after READY.
LEMMA MainLate ==
    ASSUME TypeOK, LateChange, Main
    PROVE  LateChange'
  <1>1. CASE Ends
    BY <1>1, EndsLate
  <1>2. CASE ~Ends
    <2>1. pc # "ready" /\ job' = job
      BY <1>2 DEF Main, Ends, FindMap, ReadDone, ReadNode, FindLocalNode,
                  AlreadyConfigured, BecomeMaster, StaySlave,
                  CopyMasterService, CopySlaveService, ChangeNetwork,
                  Settle, WaitFirstrun, LeaveWait, TakeDiscovered, BeginMerge,
                  MergeKnown, MergeNew, OverwriteEntry, RestoreAdopted,
                  MarkOffline, SetMasterAlwaysAdopted, SerialiseMap, StoreMap,
                  UpdateMasterLock, NotifyReady, commVars
    <2>2. job.late = FALSE
      BY <2>1 DEF LateChange, TypeOK, CommType
    <2> QED
      BY <2>1, <2>2, NotLate
  <1> QED
    BY <1>1, <1>2

\* The listener and the world leave the request, its images and the entries
\* that were read from the file alone.
LEMMA OthersLate ==
    ASSUME TypeOK, LateChange, Listener \/ World
    PROVE  LateChange'
  <1>1. CASE Ends
    BY <1>1, EndsLate
  <1>2. CASE Boot
    <2>1. job' = job /\ pc = "off"
      BY <1>2 DEF Boot, commVars
    <2>2. job.late = FALSE
      BY <2>1 DEF LateChange, TypeOK, CommType
    <2> QED
      BY <2>1, <2>2, NotLate
  <1>3. CASE ~Ends /\ ~Boot
    <2>1. UNCHANGED <<pc, job, cphase, cimage, file, ref, loaded>>
      BY <1>3 DEF Listener, AddService, UpdateService, Hear, World, Ends,
                  Advertise, FactoryReset, NeighbourChanges, mapVars, commVars,
                  diskVars
    <2>2. InMap' = InMap
      BY <2>1 DEF InMap
    <2> QED
      BY <2>1, <2>2 DEF LateChange, Carries
  <1> QED
    BY <1>1, <1>2, <1>3

\* A new request is late or not from the moment it sets the flag.
LEMMA RequestLate ==
    ASSUME TypeOK, LateChange,
           InvalidAction \/ \E u \in Uuid : Adopt(u) \/ Unadopt(u)
    PROVE  LateChange'
  <1>1. cphase = "idle" /\ pc' = pc
    BY DEF InvalidAction, Adopt, Unadopt
  <1>2. job.late = FALSE
    BY <1>1 DEF LateChange, TypeOK, CommType
  <1>3. CASE AnswerAtOnce
    BY <1>2, <1>3, NotLate DEF AnswerAtOnce
  <1>4. ASSUME NEW m \in InMap, NEW op \in {"ADD", "REMOVE"}, SetAdopted(m, op, op = "ADD")
        PROVE  LateChange'
    <2>1. /\ ref' = ref
          /\ ref[m] = "loaded" => loaded'[m].adopted = (op = "ADD")
      BY <1>4, SetAdoptedWrites DEF TypeOK
    <2>2. /\ cphase' = "write"
          /\ job'.mac = m /\ job'.op = op /\ job'.late = (pc = "ready")
      BY <1>4 DEF SetAdopted
    <2> QED
      BY <1>1, <2>1, <2>2 DEF LateChange
  <1> QED
    BY <1>3, <1>4, RequestWrites DEF InvalidAction

\* The stages of a request.
LEMMA ServeLate ==
    ASSUME TypeOK, LateChange, Serve
    PROVE  LateChange'
  <1>1. MapType /\ \A m \in Mac : Entry(m) \in Node
    BY EntryType DEF TypeOK
  <1>2. CASE SerialiseRequest
    <2>1. Softens
      BY <1>1, <1>2, StringifyAllSoftens DEF SerialiseRequest
    <2>2. /\ cphase = "write" /\ cphase' = "store" /\ cimage' = Serialised
          /\ UNCHANGED <<pc, job>>
      BY <1>2 DEF SerialiseRequest
    <2>3. Serialised.macs = InMap
      BY DEF Serialised
    <2>4. \A m \in Mac : ref[m] = "loaded" => Serialised.rows[m].adopted = loaded[m].adopted
      BY <1>1 DEF Serialised, InMap, Stringified, Node, Entry
    <2>5. job.mac \in Mac
      BY DEF TypeOK, CommType
    <2> QED
      BY <2>1, <2>2, <2>3, <2>4, <2>5 DEF LateChange, Carries, Softens
  <1>3. CASE SerialiseRaises
    BY <1>3, NotLate DEF SerialiseRaises, Idle
  <1>4. CASE StoreRequest /\ job' = Idle
    BY <1>4, NotLate DEF Idle
  <1>5. CASE StoreRequest /\ job' # Idle
    <2>1. /\ cphase = "store" /\ cphase' = "answer" /\ file' = cimage
          /\ UNCHANGED <<pc, job, ref, loaded>>
      BY <1>5 DEF StoreRequest, mapVars
    <2>2. InMap' = InMap
      BY <2>1 DEF InMap
    <2> QED
      BY <2>1, <2>2 DEF LateChange, Carries
  <1>6. CASE Respond
    BY <1>6, NotLate DEF Respond, Idle
  <1> QED
    BY <1>2, <1>3, <1>4, <1>5, <1>6 DEF Serve

LEMMA NextLate == TypeOK /\ LateChange /\ [Next]_vars => LateChange'
  <1> SUFFICES ASSUME TypeOK, LateChange, [Next]_vars
               PROVE  LateChange'
    OBVIOUS
  <1>1. CASE UNCHANGED vars
    <2>1. InMap' = InMap
      BY <1>1 DEF InMap, vars, mapVars
    <2> QED
      BY <1>1, <2>1 DEF LateChange, Carries, vars, mapVars, commVars, diskVars
  <1> QED
    BY <1>1, MainLate, OthersLate, RequestLate, ServeLate DEF Next, Comms

LEMMA LateHolds == Spec => [](TypeOK /\ Origin /\ LateChange)
  BY InitType, InitOrigin, InitLate, NextType, NextOrigin, NextLate, PTL DEF Spec

\* What a late request asked for is in the file when the engine is told OK, for
\* a node that was in the file at the start, whatever failed before.
THEOREM LateChangeStored == Spec => []AckedChangeIsStored
  <1>1. TypeOK /\ Origin /\ LateChange => AckedChangeIsStored
    BY DEF LateChange, Carries, AckedChangeIsStored
  <1> QED
    BY <1>1, LateHolds, PTL

\* And the file has all nodes then, those among them that a request during the
\* read may have taken out of it and run()'s failed write left out.
THEOREM LateChangeMends == Spec => []LateChangeMendsFile
  <1>1. TypeOK /\ Origin /\ LateChange => LateChangeMendsFile
    BY DEF LateChange, Carries, Origin, Outset, LateChangeMendsFile
  <1> QED
    BY <1>1, LateHolds, PTL

-----------------------------------------------------------------------------
(* The masters of the file.                                                *)

\* Once run() has serialised the map.
Sealed == {"store", "lock", "notify", "ready"}

\* As long as no request writes the map, the objects that were read from the
\* file compare as what they are until run() writes it; those of masters are
\* adopted from the pass over them on, and so are their rows in the image.
MastersInHand ==
    spent["request"] = 0 =>
        /\ pc \notin Sealed =>
              \A m \in Mac : ref[m] = "loaded" => loaded[m].typed
        /\ pc = "write" =>
              \A m \in Mac : ref[m] = "loaded" /\ loaded[m].role = "master"
                 => loaded[m].adopted
        /\ pc = "store" =>
              \A m \in Mac : ref[m] = "loaded" /\ image.rows[m].role = "master"
                 => image.rows[m].adopted
        /\ KnownMasterIsAdopted

LEMMA InitMasters == Init => MastersInHand
  BY DEF Init, MastersInHand, KnownMasterIsAdopted

LEMMA EndsMasters ==
    ASSUME Ends
    PROVE  MastersInHand'
  <1>1. pc' = "off" /\ ref' = [m \in Mac |-> "none"]
    BY EndsExit DEF Exit
  <1> QED
    BY <1>1 DEF MastersInHand, KnownMasterIsAdopted

\* Requests are counted.
LEMMA RequestMasters ==
    ASSUME TypeOK,
           InvalidAction \/ \E u \in Uuid : Adopt(u) \/ Unadopt(u)
    PROVE  MastersInHand'
  <1>1. Spend("request")
    BY DEF InvalidAction, Adopt, Unadopt
  <1>2. spent'["request"] # 0
    BY <1>1 DEF Spend, TypeOK, HistType
  <1> QED
    BY <1>2 DEF MastersInHand

\* Steps that leave the objects that were read, the image and the file alone.
LEMMA QuietMasters ==
    ASSUME TypeOK, MastersInHand,
           \/ Boot \/ ReadDone \/ FindLocalNode \/ AlreadyConfigured
           \/ BecomeMaster \/ StaySlave
           \/ CopyMasterService \/ CopySlaveService \/ ChangeNetwork
           \/ Settle \/ WaitFirstrun \/ LeaveWait \/ TakeDiscovered \/ BeginMerge
           \/ UpdateMasterLock \/ NotifyReady
           \/ Listener \/ Advertise \/ FactoryReset
           \/ \E m \in Mac : MergeKnown(m)
           \/ \E m \in Mac, role \in Role : NeighbourChanges(m, role)
    PROVE  MastersInHand'
  <1> USE DEF Boot, ReadDone, FindLocalNode, AlreadyConfigured, BecomeMaster,
              StaySlave, TakeRole, CopyMasterService, CopySlaveService,
              ChangeNetwork, Settle, WaitFirstrun, LeaveWait, TakeDiscovered,
              BeginMerge, UpdateMasterLock, NotifyReady, Listener, AddService,
              UpdateService, Hear, Advertise, FactoryReset, MergeKnown,
              NeighbourChanges, Spend, runVars, loopVars, mapVars, diskVars,
              histVars
  <1>1. UNCHANGED <<parsed, ref, loaded, image, file>>
    OBVIOUS
  <1>2. spent'["request"] = spent["request"]
    BY DEF TypeOK, HistType
  <1>3. \/ pc' = pc
        \/ pc \notin Sealed /\ pc' \notin Sealed \cup {"write"}
        \/ pc \in {"lock", "notify"} /\ pc' \in {"notify", "ready"}
    BY DEF Sealed
  <1> QED
    BY <1>1, <1>2, <1>3 DEF MastersInHand, KnownMasterIsAdopted, Sealed

\* What is read from the file is normalised; a new entry is not read.
LEMMA ReadMasters ==
    ASSUME TypeOK, Origin, MastersInHand,
           FindMap \/ \E m \in Mac : ReadNode(m) \/ MergeNew(m)
    PROVE  MastersInHand'
  <1>1. CASE FindMap
    <2>1. \A m \in Mac : ref'[m] = "none"
      BY <1>1 DEF FindMap, Origin, Outset, InMap, mapVars
    <2>2. pc' \in {"listen", "read"}
      BY <1>1 DEF FindMap
    <2> QED
      BY <2>1, <2>2 DEF MastersInHand, KnownMasterIsAdopted
  <1>2. ASSUME NEW k \in Mac, ReadNode(k) \/ MergeNew(k)
        PROVE  MastersInHand'
    <2>1. pc \notin Sealed /\ pc' \notin Sealed \cup {"write"} /\ spent' = spent
      BY <1>2 DEF ReadNode, MergeNew, Sealed, histVars
    <2>2. CASE ReadNode(k)
      <3>1. loaded'[k].typed /\ \A m \in Mac : m # k => loaded'[m] = loaded[m] /\ ref'[m] = ref[m]
        BY <2>2 DEF ReadNode, Normalised, TypeOK, MapType, RunType, Image, Node
      <3> QED
        BY <2>1, <3>1 DEF MastersInHand, KnownMasterIsAdopted, Sealed
    <2>3. CASE MergeNew(k)
      <3>1. loaded' = loaded /\ \A m \in Mac : ref'[m] = "loaded" => ref[m] = "loaded"
        BY <2>3 DEF MergeNew, TypeOK, MapType
      <3> QED
        BY <2>1, <3>1 DEF MastersInHand, KnownMasterIsAdopted, Sealed
    <2> QED
      BY <1>2, <2>2, <2>3
  <1> QED
    BY <1>1, <1>2

\* Up to the pass over the masters, each object is written with one that is
\* typed: a listener's own for one that was read.
LEMMA MergeMasters ==
    ASSUME TypeOK, TypedUnlessShared, MastersInHand,
           OverwriteEntry \/ RestoreAdopted \/ MarkOffline
    PROVE  MastersInHand'
  <1>1. MapType /\ cur \in Mac /\ \A m \in Mac : Entry(m) \in Node
    BY EntryType DEF TypeOK, LoopType
  <1>2. pc \notin Sealed /\ pc' \notin Sealed \cup {"write"} /\ spent' = spent
    BY DEF OverwriteEntry, RestoreAdopted, MarkOffline, Sealed, histVars
  <1>3. \A m \in Mac : ref[m] = "loaded" => Entry(m) = loaded[m]
    BY DEF Entry
  <1> SUFFICES ASSUME \A m \in Mac : ref[m] = "loaded" => loaded[m].typed
               PROVE  ref' = ref /\ \A m \in Mac : ref[m] = "loaded" => loaded'[m].typed
    BY <1>2 DEF MastersInHand, KnownMasterIsAdopted, Sealed
  <1>4. CASE OverwriteEntry
    <2>1. heard[cur] \in Node /\ PutEntry(cur, heard[cur])
      BY <1>1, <1>4 DEF OverwriteEntry, MapType
    <2>2. ref[cur] = "loaded" => heard[cur].typed
      BY <1>1 DEF TypedUnlessShared
    <2> QED
      BY <1>1, <2>1, <2>2, PutEntryWrites
  <1>5. CASE RestoreAdopted
    <2> DEFINE node == Restored(Entry(cur))
    <2>1. node \in Node /\ node.typed = Entry(cur).typed
      BY <1>1 DEF Restored, Node, TypeOK, LoopType
    <2>2. PutEntry(cur, node)
      BY <1>5 DEF RestoreAdopted
    <2> HIDE DEF node
    <2> QED
      BY <1>1, <1>3, <2>1, <2>2, PutEntryWrites
  <1>6. CASE MarkOffline
    <2> DEFINE new == [m \in Mac |-> Marked(m)]
    <2>1. new \in [Mac -> Node] /\ \A m \in Mac : new[m].typed = Entry(m).typed
      BY <1>1 DEF Marked, Node
    <2>2. PutEntries(new)
      BY <1>6 DEF MarkOffline
    <2> HIDE DEF new
    <2> QED
      BY <1>1, <1>3, <2>1, <2>2, PutEntriesWrites
  <1> QED
    BY <1>4, <1>5, <1>6

\* The pass, the serialisation and the file.
LEMMA WriteMasters ==
    ASSUME TypeOK, Origin, MastersInHand,
           SetMasterAlwaysAdopted \/ SerialiseMap \/ StoreMap
    PROVE  MastersInHand'
  <1>1. MapType /\ \A m \in Mac : Entry(m) \in Node
    BY EntryType DEF TypeOK
  <1>2. \A m \in Mac : ref[m] = "loaded" => Entry(m) = loaded[m]
    BY DEF Entry
  <1>3. spent' = spent
    BY DEF SetMasterAlwaysAdopted, SerialiseMap, StoreMap, histVars
  <1>4. CASE SetMasterAlwaysAdopted
    <2> DEFINE new == [m \in Mac |-> MasterAdopted(Entry(m))]
    <2>1. new \in [Mac -> Node]
      BY <1>1 DEF MasterAdopted, Node
    <2>2. \A m \in Mac : Entry(m).typed =>
             new[m].typed /\ (new[m].role = "master" => new[m].adopted)
      BY <1>1 DEF MasterAdopted, HasRole, Node
    <2>3. PutEntries(new)
      BY <1>4 DEF SetMasterAlwaysAdopted
    <2> HIDE DEF new
    <2>4. ref' = ref /\ \A m \in Mac : ref[m] = "loaded" => loaded'[m] = new[m]
      BY <1>1, <2>1, <2>3, PutEntriesWrites
    <2>5. pc = "masters" /\ pc' = "write"
      BY <1>4 DEF SetMasterAlwaysAdopted
    <2> QED
      BY <1>2, <1>3, <2>2, <2>4, <2>5 DEF MastersInHand, KnownMasterIsAdopted, Sealed
  <1>5. CASE SerialiseMap
    <2>1. pc = "write" /\ pc' = "store" /\ image' = Serialised /\ ref' = ref
      BY <1>5 DEF SerialiseMap, StringifyAll, PutEntries
    <2>2. \A m \in Mac : ref[m] = "loaded" =>
             /\ Serialised.rows[m].role = loaded[m].role
             /\ Serialised.rows[m].adopted = loaded[m].adopted
      BY <1>1, <1>2 DEF Serialised, InMap, Stringified, Node
    <2> QED
      BY <1>3, <2>1, <2>2 DEF MastersInHand, KnownMasterIsAdopted, Sealed
  <1>6. CASE StoreMap
    <2>1. /\ pc = "store" /\ pc' = "lock" /\ parsed' = parsed
          /\ "store" \notin Faults => file' = image
      BY <1>6 DEF StoreMap, runVars
    <2>2. \A m \in parsed.macs : m \in Mac /\ ref[m] = "loaded"
      BY <2>1 DEF Origin, Outset, InMap, TypeOK, MapType
    <2> QED
      BY <1>3, <2>1, <2>2 DEF MastersInHand, KnownMasterIsAdopted, Sealed
  <1> QED
    BY <1>4, <1>5, <1>6

\* Without a request there is nothing to serve.
LEMMA ServeMasters ==
    ASSUME Undisturbed, Serve
    PROVE  MastersInHand'
  BY DEF Serve, SerialiseRequest, SerialiseRaises, StoreRequest, Respond,
         histVars, Undisturbed, MastersInHand

LEMMA NextMasters ==
    TypeOK /\ Origin /\ TypedUnlessShared /\ Undisturbed /\ MastersInHand /\ [Next]_vars
       => MastersInHand'
  <1> SUFFICES ASSUME TypeOK, Origin, TypedUnlessShared, Undisturbed, MastersInHand,
                      [Next]_vars
               PROVE  MastersInHand'
    OBVIOUS
  <1>1. CASE Main
    BY <1>1, QuietMasters, ReadMasters, MergeMasters, WriteMasters, EndsMasters
       DEF Main, Ends
  <1>2. CASE Listener
    BY <1>2, QuietMasters
  <1>3. CASE Comms
    BY <1>3, RequestMasters, ServeMasters DEF Comms
  <1>4. CASE World
    BY <1>4, QuietMasters, EndsMasters DEF World, Ends
  <1>5. CASE UNCHANGED vars
    BY <1>5 DEF MastersInHand, KnownMasterIsAdopted, vars, runVars, mapVars, diskVars,
                histVars
  <1> QED
    BY <1>1, <1>2, <1>3, <1>4, <1>5 DEF Next

\* set_master_always_adopted does for the masters of an old map what its name
\* says, up to the file, as long as no request has turned the types of the
\* entries into strings before.
THEOREM MastersAdopted == Spec => []KnownMasterIsAdopted
  <1> DEFINE Inv == /\ TypeOK /\ Origin /\ TypedUnlessShared
                    /\ Undisturbed /\ MastersInHand
  <1>1. Init => Inv
    BY InitType, InitOrigin, InitTyped, InitUndisturbed, InitMasters
  <1>2. Inv /\ [Next]_vars => Inv'
    BY NextType, NextOrigin, NextTyped, NextUndisturbed, NextMasters
  <1>3. Inv => KnownMasterIsAdopted
    BY DEF MastersInHand, KnownMasterIsAdopted
  <1> QED
    BY <1>1, <1>2, <1>3, PTL DEF Spec

=============================================================================

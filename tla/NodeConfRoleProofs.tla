-------------------------- MODULE NodeConfRoleProofs --------------------------
(***************************************************************************)
(* Proofs about NodeConf: a configured node keeps its role, and the alias  *)
(* of the controller is only published where the service file says master. *)
(***************************************************************************)
EXTENDS NodeConfMapProofs

USE SelfAssumption

-----------------------------------------------------------------------------
(* How a role travels from the service file to memory and back.            *)

\* The announcement lags behind the service file, the listener's object
\* behind the announcement; both can only lag at "firstrun".  While the
\* service file is being copied, memory is ahead of it.
RoleFollows ==
    /\ txt[Self] \in {svc, "firstrun"}
    /\ Self \in known =>
          \/ heard[Self].role \in {svc, "firstrun"}
          \/ pc = "copyMaster" /\ heard[Self].role = "master"
          \/ pc = "copySlave" /\ heard[Self].role = "slave"

\* Up to the copy of the service file.
Early == {"start", "read", "listen", "decide", "copyMaster", "copySlave"}

\* Only a process that started first-run assigns a role, and only once.
RoleOnce ==
    /\ bootRole # "firstrun" =>
          /\ svc = bootRole /\ txt[Self] = bootRole
          /\ Self \in known => heard[Self].role = bootRole
          /\ pc \notin {"copyMaster", "copySlave", "network"}
    /\ bootRole = "firstrun" /\ pc \in Early => svc = "firstrun"
    /\ pc \notin {"start", "read", "listen"} => Self \in known

\* The inductive invariant.  A reset by the power button ends what it says of
\* the running process, until the reboot.
RoleInv ==
    /\ pc # "off" /\ ~rebooting => RoleFollows /\ RoleOnce
    /\ pc \in {"off", "start", "read"} => known = {}
    /\ AliasBackedByService

\* Initially there is no process and no alias.
LEMMA InitRole == Init => RoleInv
  BY DEF Init, RoleInv, AliasBackedByService

-----------------------------------------------------------------------------
(* The steps.                                                              *)

\* What run() does between the points where a role matters.
Moves ==
    \/ pc' = pc
    \/ pc = "start" /\ pc' \in {"read", "listen"}
    \/ pc = "read" /\ pc' = "listen"
    \/ pc = "listen" /\ Self \in known /\ pc' = "decide"
    \/ /\ pc \notin Early \cup {"off"} \/ pc = "decide"
       /\ pc' \notin Early \cup {"off", "network"}

\* Steps that leave the role of the local object and everything outside of
\* the process as they are.
Keeps ==
    /\ Moves
    /\ known' = known /\ heard'[Self].role = heard[Self].role
    /\ UNCHANGED <<svc, alias, rebooting, bootRole>> /\ txt'[Self] = txt[Self]

\* Such a step preserves the invariant.
LEMMA KeepsRole ==
    ASSUME RoleInv, Keeps
    PROVE  RoleInv'
  BY DEF RoleInv, RoleFollows, RoleOnce, Keeps, Moves, Early, AliasBackedByService

\* Entries written in place leave the local role alone if the new ones do.
LEMMA PutKeepsRole ==
    ASSUME MapType, NEW new \in [Mac -> Node], PutEntries(new),
           new[Self].role = Entry(Self).role
    PROVE  known' = known /\ heard'[Self].role = heard[Self].role
  BY DEF MapType, PutEntries, Entry

\* The same for one entry written in place.
LEMMA PutOneKeepsRole ==
    ASSUME MapType, NEW k \in Mac, NEW node \in Node, PutEntry(k, node),
           k = Self => node.role = Entry(Self).role
    PROVE  known' = known /\ heard'[Self].role = heard[Self].role
  <1> DEFINE new == [n \in Mac |-> IF n = k THEN node ELSE Entry(n)]
  <1>1. new \in [Mac -> Node] /\ new[Self].role = Entry(Self).role
    BY EntryType
  <1>2. PutEntries(new)
    BY DEF PutEntry
  <1> HIDE DEF new
  <1> QED
    BY <1>1, <1>2, PutKeepsRole

\* run() outside of the choice of the role, and the merge.
LEMMA QuietRole ==
    ASSUME TypeOK, RoleInv,
           \/ FindMap \/ ReadDone \/ FindLocalNode \/ AlreadyConfigured
           \/ WaitFirstrun \/ LeaveWait \/ TakeDiscovered \/ BeginMerge
           \/ StoreMap \/ UpdateMasterLock \/ NotifyReady
           \/ StoreRequest \/ Respond \/ InvalidAction
           \/ \E m \in Mac : ReadNode(m) \/ MergeKnown(m) \/ MergeNew(m)
           \/ \E m \in Mac, role \in Role : NeighbourChanges(m, role)
    PROVE  RoleInv'
  <1> USE DEF FindMap, ReadDone, FindLocalNode, AlreadyConfigured, WaitFirstrun,
              LeaveWait, TakeDiscovered, BeginMerge, StoreMap, UpdateMasterLock,
              NotifyReady, StoreRequest, Respond, InvalidAction, AnswerAtOnce,
              ReadNode, MergeKnown, MergeNew, NeighbourChanges, runVars,
              loopVars, mapVars, commVars, diskVars, histVars
  <1>1. Moves
    BY DEF Moves, Early
  <1>2. UNCHANGED <<known, heard, svc, alias, rebooting, bootRole>>
    OBVIOUS
  <1>3. txt'[Self] = txt[Self]
    BY DEF TypeOK, DiskType
  <1> QED
    BY <1>1, <1>2, <1>3, KeepsRole DEF Keeps

\* Steps that write entries of the map: no field but adopted and online is
\* new, or the entry is overwritten with the listener's own object.
LEMMA EntriesRole ==
    ASSUME TypeOK, RoleInv,
           \/ OverwriteEntry \/ RestoreAdopted \/ MarkOffline
           \/ SetMasterAlwaysAdopted \/ SerialiseMap \/ SerialiseRequest
           \/ SerialiseRaises
    PROVE  RoleInv'
  <1>1. /\ Moves /\ UNCHANGED <<svc, alias, rebooting, bootRole, txt>>
    BY DEF Moves, Early, OverwriteEntry, RestoreAdopted, MarkOffline,
           SetMasterAlwaysAdopted, SerialiseMap, SerialiseRequest,
           SerialiseRaises, diskVars, histVars
  <1>2. MapType /\ cur \in Mac /\ \A m \in Mac : Entry(m) \in Node
    BY EntryType DEF TypeOK, LoopType
  <1> SUFFICES known' = known /\ heard'[Self].role = heard[Self].role
    BY <1>1, KeepsRole DEF Keeps
  <1>3. CASE OverwriteEntry
    <2>1. heard[cur] \in Node /\ PutEntry(cur, heard[cur])
      BY <1>2, <1>3 DEF OverwriteEntry, MapType
    <2>2. CASE cur = Self
      BY <1>2, <2>1, <2>2 DEF PutEntry, PutEntries, MapType
    <2>3. CASE cur # Self
      BY <1>2, <2>1, <2>3, PutOneKeepsRole
    <2> QED
      BY <2>2, <2>3
  <1>4. CASE RestoreAdopted
    <2>1. /\ Restored(Entry(cur)) \in Node
          /\ Restored(Entry(cur)).role = Entry(cur).role
      BY <1>2 DEF TypeOK, LoopType, Restored, Node
    <2> QED
      BY <1>2, <1>4, <2>1, PutOneKeepsRole DEF RestoreAdopted
  <1>5. CASE MarkOffline
    <2> DEFINE new == [m \in Mac |-> Marked(m)]
    <2>1. new \in [Mac -> Node] /\ new[Self].role = Entry(Self).role
      BY <1>2 DEF Marked, Node
    <2>2. PutEntries(new)
      BY <1>5 DEF MarkOffline
    <2> HIDE DEF new
    <2> QED
      BY <1>2, <2>1, <2>2, PutKeepsRole
  <1>6. CASE SetMasterAlwaysAdopted
    <2> DEFINE new == [m \in Mac |-> MasterAdopted(Entry(m))]
    <2>1. new \in [Mac -> Node] /\ new[Self].role = Entry(Self).role
      BY <1>2 DEF MasterAdopted, Node
    <2>2. PutEntries(new)
      BY <1>6 DEF SetMasterAlwaysAdopted
    <2> HIDE DEF new
    <2> QED
      BY <1>2, <2>1, <2>2, PutKeepsRole
  <1>7. CASE SerialiseMap \/ SerialiseRequest
    <2> DEFINE new == [m \in Mac |-> Stringified(Entry(m))]
    <2>1. new \in [Mac -> Node] /\ new[Self].role = Entry(Self).role
      BY <1>2 DEF Stringified, Node
    <2>2. PutEntries(new)
      BY <1>7 DEF SerialiseMap, SerialiseRequest, StringifyAll
    <2> HIDE DEF new
    <2> QED
      BY <1>2, <2>1, <2>2, PutKeepsRole
  <1>8. CASE SerialiseRaises
    <2>1. PICK done \in SUBSET InMap :
              PutEntries([m \in Mac |-> IF m \in done THEN Stringified(Entry(m))
                                       ELSE Entry(m)])
      BY <1>8 DEF SerialiseRaises
    <2> DEFINE new == [m \in Mac |-> IF m \in done THEN Stringified(Entry(m))
                                    ELSE Entry(m)]
    <2>2. new \in [Mac -> Node] /\ new[Self].role = Entry(Self).role
      BY <1>2 DEF Stringified, Node
    <2>3. PutEntries(new)
      BY <2>1
    <2> HIDE DEF new
    <2> QED
      BY <1>2, <2>2, <2>3, PutKeepsRole
  <1> QED
    BY <1>3, <1>4, <1>5, <1>6, <1>7, <1>8

\* A request writes adopted and nothing else.
LEMMA RequestRole ==
    ASSUME TypeOK, RoleInv, NEW u \in Uuid, Adopt(u) \/ Unadopt(u)
    PROVE  RoleInv'
  <1>1. UNCHANGED <<pc, svc, alias, rebooting, bootRole, txt>>
    BY DEF Adopt, Unadopt, diskVars
  <1> SUFFICES known' = known /\ heard'[Self].role = heard[Self].role
    BY <1>1, KeepsRole DEF Keeps, Moves
  <1>2. ASSUME AnswerAtOnce
        PROVE  known' = known /\ heard'[Self].role = heard[Self].role
    BY <1>2 DEF AnswerAtOnce, mapVars
  <1>3. ASSUME NEW m \in Matches(u), NEW flag \in BOOLEAN,
               PutEntry(m, [Entry(m) EXCEPT !.adopted = flag])
        PROVE  known' = known /\ heard'[Self].role = heard[Self].role
    <2> DEFINE node == [Entry(m) EXCEPT !.adopted = flag]
    <2>1. m \in Mac /\ Entry(m) \in Node /\ MapType
      BY EntryType DEF Matches, InMap, TypeOK
    <2>2. node \in Node /\ node.role = Entry(m).role
      BY <2>1 DEF Node
    <2>3. PutEntry(m, node)
      BY <1>3
    <2> HIDE DEF node
    <2> QED
      BY <2>1, <2>2, <2>3, PutOneKeepsRole
  <1>4. CASE Adopt(u)
    BY <1>2, <1>3, <1>4 DEF Adopt, NotFound, SetAdopted
  <1>5. CASE Unadopt(u)
    BY <1>2, <1>3, <1>5 DEF Unadopt, NotFound, SetAdopted
  <1> QED
    BY <1>4, <1>5

\* The process starts from what the service file says.
LEMMA BootRole ==
    ASSUME TypeOK, RoleInv, Boot
    PROVE  RoleInv'
  BY DEF Boot, RoleInv, RoleFollows, RoleOnce, Early, AliasBackedByService,
         mapVars, diskVars

\* set_node_type: memory is ahead of the service file ...
LEMMA TakeRoleRole ==
    ASSUME TypeOK, RoleInv, BecomeMaster \/ StaySlave
    PROVE  RoleInv'
  <1>1. /\ pc = "decide" /\ known' = known
        /\ UNCHANGED <<svc, alias, rebooting, bootRole, txt>>
        /\ heard[Self].role = "firstrun"
    BY DEF BecomeMaster, StaySlave, TakeRole, NeedsRole, HasRole, diskVars, histVars
  <1>a. ASSUME NEW role, TakeRole(role)
        PROVE  heard'[Self].role = role
    <2>1. heard \in [Mac -> Node] /\ heard[Self] \in Node
      BY DEF TypeOK, MapType
    <2>2. heard'[Self] = [heard[Self] EXCEPT !.role = role, !.typed = TRUE]
      BY <1>a, <2>1 DEF TakeRole
    <2> QED
      BY <2>1, <2>2 DEF Node
  <1>2. \/ pc' = "copyMaster" /\ heard'[Self].role = "master"
        \/ pc' = "copySlave" /\ heard'[Self].role = "slave"
    BY <1>a DEF BecomeMaster, StaySlave
  <1> QED
    BY <1>1, <1>2 DEF RoleInv, RoleFollows, RoleOnce, Early, AliasBackedByService

\* ... and the copy catches up with it.
LEMMA CopyRole ==
    ASSUME TypeOK, RoleInv, CopyMasterService \/ CopySlaveService
    PROVE  RoleInv'
  BY DEF CopyMasterService, CopySlaveService, RoleInv, RoleFollows, RoleOnce, Early,
         AliasBackedByService, runVars, loopVars, mapVars, commVars, histVars

\* A machine whose memory says master, past the copy, has it in the file.
LEMMA SettleRole ==
    ASSUME TypeOK, RoleInv, ChangeNetwork \/ Settle
    PROVE  RoleInv'
  <1>1. /\ pc \in {"network", "settle"} /\ pc' \in {"settle", "firstruns"}
        /\ UNCHANGED <<known, heard, svc, rebooting, bootRole, txt>>
        /\ alias' = alias \/ alias' = (alias \/ HasRole(heard[Self], "master"))
    BY DEF ChangeNetwork, Settle, mapVars, histVars
  <1>2. AliasBackedByService'
    BY <1>1 DEF AliasBackedByService, RoleInv, RoleFollows, RoleOnce, HasRole
  <1>3. pc' # "off" /\ ~rebooting' => RoleFollows' /\ RoleOnce'
    BY <1>1 DEF RoleInv, RoleFollows, RoleOnce, Early
  <1> QED
    BY <1>1, <1>2, <1>3 DEF RoleInv

\* The listener brings the local object up to the announcement.
LEMMA HearRole ==
    ASSUME TypeOK, RoleInv, NEW k \in Mac, Hear(k)
    PROVE  RoleInv'
  <1>1. /\ pc' = pc /\ pc \notin {"off", "start", "read"}
        /\ UNCHANGED <<svc, alias, rebooting, bootRole, txt>>
    BY DEF Hear, diskVars, histVars
  <1>2. known' = known \cup {k}
    BY DEF Hear
  <1>3. heard'[Self].role = IF k = Self THEN txt[Self] ELSE heard[Self].role
    BY DEF Hear, Announced, TypeOK, MapType
  <1> QED
    BY <1>1, <1>2, <1>3 DEF RoleInv, RoleFollows, RoleOnce, AliasBackedByService

\* The alias outlives the process but not the reboot.
LEMMA EndsRole ==
    ASSUME TypeOK, RoleInv, Ends
    PROVE  RoleInv'
  <1>1. pc' = "off" /\ known' = {}
    BY EndsExit DEF Exit
  <1>2. \/ UNCHANGED <<alias, rebooting, svc>>
        \/ ~alias'
    BY DEF Ends, FindIpTimesOut, LocalNodeTimesOut, CopyServiceFails,
           ChangeNetworkFails, MergeRaises, Crash, Reboot, diskVars
  <1> QED
    BY <1>1, <1>2 DEF RoleInv, AliasBackedByService

\* Neither the announcement nor the power button breaks it.
LEMMA OutsideRole ==
    ASSUME TypeOK, RoleInv, Advertise \/ FactoryReset
    PROVE  RoleInv'
  <1>1. CASE Advertise
    <2>1. txt'[Self] = svc
      BY <1>1 DEF Advertise, TypeOK, DiskType
    <2>2. UNCHANGED <<pc, known, heard, svc, alias, rebooting, bootRole>>
      BY <1>1 DEF Advertise, mapVars, diskVars
    <2> QED
      BY <2>1, <2>2 DEF RoleInv, RoleFollows, RoleOnce, AliasBackedByService
  <1>2. CASE FactoryReset
    BY <1>2 DEF FactoryReset, RoleInv, AliasBackedByService, mapVars
  <1> QED
    BY <1>1, <1>2

\* Every step preserves the inductive invariant.
LEMMA NextRole == TypeOK /\ RoleInv /\ [Next]_vars => RoleInv'
  <1> SUFFICES ASSUME TypeOK, RoleInv, [Next]_vars
               PROVE  RoleInv'
    OBVIOUS
  <1>1. CASE Main
    BY <1>1, QuietRole, EntriesRole, TakeRoleRole, CopyRole, SettleRole, EndsRole
       DEF Main, Ends
  <1>2. CASE Listener
    BY <1>2, HearRole DEF Listener, AddService, UpdateService
  <1>3. CASE Comms
    BY <1>3, QuietRole, EntriesRole, RequestRole DEF Comms, Serve
  <1>4. CASE World
    BY <1>4, BootRole, QuietRole, EndsRole, OutsideRole DEF World, Ends
  <1>5. CASE UNCHANGED vars
    BY <1>5 DEF RoleInv, RoleFollows, RoleOnce, AliasBackedByService, vars,
                runVars, loopVars, mapVars, commVars, diskVars, histVars
  <1> QED
    BY <1>1, <1>2, <1>3, <1>4, <1>5 DEF Next

\* The role in memory follows the service file at all times.
LEMMA RoleInvHolds == Spec => [](TypeOK /\ RoleInv)
  BY InitType, InitRole, NextType, NextRole, PTL DEF Spec

-----------------------------------------------------------------------------
(* The theorems.                                                           *)

\* README.md, Idempotent re-entry: run() never changes the service file of a
\* machine that started configured, until an operator resets it.
THEOREM RoleKept == Spec => []IdempotentReentry
  <1>1. TypeOK /\ RoleInv => IdempotentReentry
    BY DEF RoleInv, RoleOnce, IdempotentReentry
  <1> QED
    BY <1>1, RoleInvHolds, PTL

\* controller.local is published only while the service file says master,
\* whatever became of the process that published it.
THEOREM AliasBacked == Spec => []AliasBackedByService
  <1>1. TypeOK /\ RoleInv => AliasBackedByService
    BY DEF RoleInv
  <1> QED
    BY <1>1, RoleInvHolds, PTL

-----------------------------------------------------------------------------
(* The machine implements RoleLedger.                                      *)

\* What the ledger needs besides RoleInv: a machine that was reset while its
\* process still runs may have its role assigned once more before it goes
\* down, and only follows a master that there was.
LedgerInv ==
    /\ rebooting /\ pc \in Early => svc = "firstrun"
    /\ pc = "copySlave" => wasMaster \ {Self} # {}

\* Steps that neither change the role nor lead up to a change of it.
Stands ==
    /\ svc' = svc /\ wasMaster \subseteq wasMaster'
    /\ rebooting' => rebooting
    /\ pc' \in Early => pc \in Early \/ ~rebooting'
    /\ pc' = "copySlave" => pc = "copySlave"

\* The steps of run() that do.
Assigns == StaySlave \/ CopyMasterService \/ CopySlaveService

\* All other steps of the main thread stand.
LEMMA MainStands ==
    ASSUME TypeOK, Main
    PROVE  Stands \/ Assigns
  <1> USE DEF Stands, Assigns, Early
  <1>1. CASE Ends
    <2>1. pc' = "off" /\ wasMaster' = wasMaster
      BY <1>1, EndsExit DEF Exit
    <2>2. svc' = svc /\ (rebooting' => rebooting)
      BY <1>1 DEF Ends, FindIpTimesOut, LocalNodeTimesOut, CopyServiceFails,
                  ChangeNetworkFails, MergeRaises, Crash, Reboot, diskVars
    <2> QED
      BY <2>1, <2>2
  <1>2. CASE FindMap \/ ReadDone \/ FindLocalNode \/ AlreadyConfigured \/ BecomeMaster
             \/ \E m \in Mac : ReadNode(m)
    BY <1>2 DEF FindMap, ReadDone, FindLocalNode, AlreadyConfigured, BecomeMaster,
                ReadNode, diskVars, histVars
  <1>3. CASE ChangeNetwork \/ Settle \/ WaitFirstrun \/ LeaveWait
             \/ TakeDiscovered \/ BeginMerge
             \/ \E m \in Mac : MergeKnown(m) \/ MergeNew(m)
    BY <1>3 DEF ChangeNetwork, Settle, WaitFirstrun, LeaveWait, TakeDiscovered,
                BeginMerge, MergeKnown, MergeNew, diskVars, histVars
  <1>4. CASE OverwriteEntry \/ RestoreAdopted \/ MarkOffline \/ SetMasterAlwaysAdopted
             \/ SerialiseMap \/ StoreMap \/ UpdateMasterLock \/ NotifyReady
    BY <1>4 DEF OverwriteEntry, RestoreAdopted, MarkOffline, SetMasterAlwaysAdopted,
                SerialiseMap, StoreMap, UpdateMasterLock, NotifyReady, diskVars,
                histVars
  <1> QED
    BY <1>1, <1>2, <1>3, <1>4 DEF Main, Ends

\* So do all steps of the other threads.
LEMMA ThreadsStand ==
    ASSUME TypeOK, Listener \/ Comms
    PROVE  Stands
  <1> USE DEF Stands, diskVars, histVars
  <1>1. CASE Listener
    BY <1>1 DEF Listener, AddService, UpdateService, Hear
  <1>2. ASSUME NEW u \in Uuid, Adopt(u) \/ Unadopt(u)
        PROVE  Stands
    <2>1. UNCHANGED <<pc, svc, rebooting, wasMaster>>
      BY <1>2 DEF Adopt, Unadopt
    <2> QED
      BY <2>1
  <1>3. CASE InvalidAction \/ StoreRequest \/ Respond
    BY <1>3 DEF InvalidAction, StoreRequest, Respond
  <1>4. CASE SerialiseRequest \/ SerialiseRaises
    BY <1>4 DEF SerialiseRequest, SerialiseRaises
  <1> QED
    BY <1>1, <1>2, <1>3, <1>4 DEF Comms, Serve

\* And those of the world, but for the reset.
LEMMA WorldStands ==
    ASSUME TypeOK, World
    PROVE  Stands \/ FactoryReset
  <1> USE DEF Stands, Early
  <1>1. CASE Crash \/ Reboot
    <2>1. pc' = "off" /\ wasMaster' = wasMaster
      BY <1>1 DEF Crash, Reboot, Exit
    <2>2. svc' = svc /\ (rebooting' => rebooting)
      BY <1>1 DEF Crash, Reboot, diskVars
    <2> QED
      BY <2>1, <2>2
  <1>2. CASE Boot \/ Advertise \/ \E m \in Mac, role \in Role : NeighbourChanges(m, role)
    BY <1>2 DEF Boot, Advertise, NeighbourChanges, diskVars
  <1> QED
    BY <1>1, <1>2 DEF World

\* Every step is a step of the ledger, and prepares the next one.
LEMMA NextLedger ==
    TypeOK /\ RoleInv /\ Provenance /\ LedgerInv /\ [Next]_vars
        => LedgerInv' /\ [Ledger!Next]_<<svc, wasMaster \ {Self} # {}, rebooting>>
  <1> SUFFICES ASSUME TypeOK, RoleInv, Provenance, LedgerInv, [Next]_vars
               PROVE  LedgerInv' /\ Ledger!Next
    OBVIOUS
  <1> USE DEF Ledger!Next
  <1>1. CASE Stands
    BY <1>1 DEF Stands, LedgerInv, Ledger!Others
  <1>2. CASE StaySlave
    <2>1. PICK m \in Mac : m # Self /\ heard[m].role = "master"
      BY <1>2 DEF StaySlave, Masters, WithRole, NeedsRole, HasRole, TypeOK, MapType
    <2>2. wasMaster \ {Self} # {}
      BY <2>1 DEF Provenance, MapVouched, Vouched
    <2>3. pc = "decide" /\ UNCHANGED <<svc, rebooting, wasMaster>>
      BY <1>2 DEF StaySlave, diskVars, histVars
    <2> QED
      BY <2>2, <2>3 DEF LedgerInv, Early, Ledger!Others
  <1>3. CASE CopyMasterService \/ CopySlaveService
    <2>1. svc = "firstrun"
      BY <1>3 DEF CopyMasterService, CopySlaveService, RoleInv, RoleOnce, LedgerInv,
                  Early
    <2>2. pc' \notin Early /\ UNCHANGED <<rebooting, wasMaster>>
      BY <1>3 DEF CopyMasterService, CopySlaveService, Early, histVars
    <2>3. svc' = "master" \/ (svc' = "slave" /\ wasMaster \ {Self} # {})
      BY <1>3 DEF CopyMasterService, CopySlaveService, LedgerInv
    <2>4. LedgerInv'
      BY <2>2 DEF LedgerInv, Early
    <2> QED
      BY <2>1, <2>2, <2>3, <2>4 DEF Ledger!Lead, Ledger!Follow
  <1>4. CASE FactoryReset
    <2>1. svc' = "firstrun" /\ rebooting' # rebooting /\ UNCHANGED <<pc, wasMaster>>
      BY <1>4 DEF FactoryReset
    <2> QED
      BY <2>1 DEF LedgerInv, Ledger!Reset
  <1>5. CASE UNCHANGED vars
    BY <1>5 DEF LedgerInv, Ledger!Others, vars, diskVars, histVars
  <1> QED
    BY <1>1, <1>2, <1>3, <1>4, <1>5, MainStands, ThreadsStand, WorldStands
       DEF Next, Assigns

\* The machine starts where a ledger may.
LEMMA InitLedger == Init => LedgerInv /\ Ledger!Init
  BY DEF Init, LedgerInv, Early, Ledger!Init

\* The role assignment of one machine implements the ledger, whatever its
\* neighbours, its operator and its other threads do.
THEOREM LedgerKept == Spec => RoleIsAssigned
  <1>1. TypeOK /\ RoleInv /\ Provenance /\ [Next]_vars /\ LedgerInv => LedgerInv'
    BY NextLedger
  <1>2. TypeOK /\ RoleInv /\ Provenance /\ LedgerInv /\ [Next]_vars
           => [Ledger!Next]_<<svc, wasMaster \ {Self} # {}, rebooting>>
    BY NextLedger
  <1> QED
    BY <1>1, <1>2, InitLedger, RoleInvHolds, ProvenanceHolds, PTL
       DEF Spec, RoleIsAssigned, Ledger!Spec
-----------------------------------------------------------------------------
(* The lock tells the role.                                                *)

\* Past the update of the lock file, until the next start.
Locked == {"notify", "ready"}

LockTells ==
    /\ pc \in Locked /\ ~rebooting /\ "lock" \notin Faults
    /\ bootRole # "firstrun" /\ Self \in parsed.macs
    => (lock <=> svc = "master")

LEMMA InitLock == Init => LockTells
  BY DEF Init, LockTells, Locked

LEMMA EndsLock ==
    ASSUME Ends
    PROVE  LockTells'
  BY EndsExit DEF Exit, LockTells, Locked

\* run() looks at an object that says what the service file says: on a node
\* that starts configured nobody changes the role, and on one whose entry was
\* read from the file nobody turns the listener's object into a string.
LEMMA UpdateLock ==
    ASSUME TypeOK, Origin, RoleInv, TypedUnlessShared, UpdateMasterLock
    PROVE  LockTells'
  <1> SUFFICES ASSUME ~rebooting, "lock" \notin Faults, bootRole # "firstrun",
                      Self \in parsed.macs
               PROVE  lock' <=> svc = "master"
    BY DEF UpdateMasterLock, LockTells, runVars, histVars
  <1>1. pc = "lock" /\ lock' = HasRole(heard[Self], "master")
    BY DEF UpdateMasterLock
  <1>2. heard[Self].role = svc
    BY <1>1 DEF RoleInv, RoleOnce
  <1>3. heard[Self].typed
    BY DEF Origin, TypedUnlessShared
  <1> QED
    BY <1>1, <1>2, <1>3 DEF HasRole

\* Nothing else touches the lock, nor the service file of a process past it but
\* a reset.
LEMMA KeepsLock ==
    ASSUME LockTells, [Next]_vars, ~UpdateMasterLock, ~Ends
    PROVE  LockTells'
  <1>1. ASSUME pc' \in Locked, ~rebooting'
        PROVE  /\ pc \in Locked /\ ~rebooting
               /\ UNCHANGED <<lock, svc, bootRole, parsed>>
    <2> USE <1>1 DEF Locked, runVars, diskVars, histVars
    <2>1. CASE Main
      BY <2>1 DEF Main, Ends, FindMap, ReadDone, ReadNode, FindLocalNode,
                  AlreadyConfigured, BecomeMaster, StaySlave,
                  CopyMasterService, CopySlaveService, ChangeNetwork,
                  Settle, WaitFirstrun, LeaveWait, TakeDiscovered, BeginMerge,
                  MergeKnown, MergeNew, OverwriteEntry, RestoreAdopted,
                  MarkOffline, SetMasterAlwaysAdopted, SerialiseMap, StoreMap,
                  NotifyReady
    <2>2. CASE Listener \/ Comms
      <3>1. UNCHANGED <<pc, rebooting, lock, svc, bootRole, parsed>>
        BY <2>2 DEF Listener, AddService, UpdateService, Hear, Comms, Serve,
                    Adopt, Unadopt, InvalidAction, SerialiseRequest,
                    SerialiseRaises, StoreRequest, Respond
      <3> QED
        BY <1>1, <3>1
    <2>3. CASE World
      BY <2>3 DEF World, Ends, Boot, Advertise, FactoryReset, NeighbourChanges
    <2>4. CASE UNCHANGED vars
      BY <2>4 DEF vars
    <2> QED
      BY <2>1, <2>2, <2>3, <2>4 DEF Next
  <1> QED
    BY <1>1 DEF LockTells

\* On a node that started configured, with a map that holds it, READY means that
\* the lock file tells the role, whatever was heard and requested on the way.
THEOREM LockKept == Spec => []LockMatchesRole
  <1> DEFINE Inv == TypeOK /\ Origin /\ RoleInv /\ TypedUnlessShared /\ LockTells
  <1>1. Init => Inv
    BY InitType, InitOrigin, InitRole, InitTyped, InitLock
  <1>2. TypeOK /\ Origin /\ RoleInv /\ TypedUnlessShared /\ LockTells /\ [Next]_vars
           => LockTells'
    BY UpdateLock, KeepsLock, EndsLock
  <1>3. Inv /\ [Next]_vars => Inv'
    BY <1>2, NextType, NextOrigin, NextRole, NextTyped
  <1>4. Inv => LockMatchesRole
    BY DEF LockTells, Locked, LockMatchesRole
  <1> QED
    BY <1>1, <1>3, <1>4, PTL DEF Spec

=============================================================================

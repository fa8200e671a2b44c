------------------------ MODULE NodeConfProgressProofs ------------------------
(***************************************************************************)
(* Proofs about NodeConf: the part of its progress that is a safety        *)
(* property.  Every step of run() makes what is left of it less, and no    *)
(* other thread makes it more.                                             *)
(***************************************************************************)
EXTENDS NodeConfProofs

USE SelfAssumption, WaitAssumption

-----------------------------------------------------------------------------
(* run()                                                                   *)

\* The steps that lead to a later place.
LEMMA MoveAdvances ==
    ASSUME \/ FindMap \/ ReadDone \/ FindLocalNode \/ AlreadyConfigured
           \/ BecomeMaster \/ StaySlave
           \/ CopyMasterService \/ CopySlaveService \/ ChangeNetwork
           \/ Settle \/ LeaveWait \/ TakeDiscovered \/ BeginMerge
           \/ MarkOffline \/ SetMasterAlwaysAdopted
           \/ SerialiseMap \/ StoreMap \/ UpdateMasterLock \/ NotifyReady
           \/ Boot
    PROVE  Advances
  <1>1. Place[pc'] > Place[pc]
    BY DEF Place, FindMap, ReadDone, FindLocalNode, AlreadyConfigured,
           BecomeMaster, StaySlave, CopyMasterService, CopySlaveService,
           ChangeNetwork, Settle, LeaveWait, TakeDiscovered, BeginMerge,
           MarkOffline, SetMasterAlwaysAdopted, SerialiseMap, StoreMap,
           UpdateMasterLock, NotifyReady, Boot
  <1> QED
    BY <1>1 DEF Advances

\* A round of the loop of read_network_map reads a node that was not read.
LEMMA ReadAdvances ==
    ASSUME TypeOK, NEW m \in Mac, ReadNode(m)
    PROVE  Advances
  <1>1. pc = "read" /\ pc' = pc /\ m \in Unread
    BY DEF ReadNode, Unread
  <1>2. parsed' = parsed /\ ref' = [ref EXCEPT ![m] = "loaded"]
    BY DEF ReadNode, runVars
  <1>3. Unread' = Unread \ {m}
    BY <1>2 DEF Unread, InMap, TypeOK, MapType
  <1> QED
    BY <1>1, <1>3 DEF Advances

\* A round of the wait is counted.
LEMMA WaitAdvances ==
    ASSUME TypeOK, WaitFirstrun
    PROVE  Advances
  BY DEF WaitFirstrun, Advances, TypeOK, RunType

\* A round of the merge loop takes one node from those left, and its steps come
\* in order.
LEMMA MergeAdvances ==
    ASSUME \/ OverwriteEntry \/ RestoreAdopted
           \/ \E m \in Mac : MergeKnown(m) \/ MergeNew(m)
    PROVE  Advances
  <1>1. pc \in DOMAIN Round /\ pc' \in DOMAIN Round
    BY DEF Round, OverwriteEntry, RestoreAdopted, MergeKnown, MergeNew
  <1>2. CASE OverwriteEntry \/ RestoreAdopted
    <2>1. todo' = todo /\ Round[pc'] > Round[pc]
      BY <1>2 DEF Round, OverwriteEntry, RestoreAdopted, loopVars
    <2> QED
      BY <1>1, <2>1 DEF Advances
  <1>3. ASSUME NEW m \in Mac, MergeKnown(m) \/ MergeNew(m)
        PROVE  Advances
    <2>1. todo' = todo \ {m} /\ m \in todo
      BY <1>3 DEF MergeKnown, MergeNew
    <2> QED
      BY <1>1, <2>1 DEF Advances
  <1> QED
    BY <1>2, <1>3

LEMMA EndsAdvance ==
    ASSUME Ends
    PROVE  Advances
  BY EndsExit DEF Exit, Advances

LEMMA MainAdvances ==
    ASSUME TypeOK, Main
    PROVE  Advances
  BY MoveAdvances, ReadAdvances, WaitAdvances, MergeAdvances, EndsAdvance
     DEF Main, Ends

-----------------------------------------------------------------------------
(* The others.                                                             *)

LEMMA OthersLetBe ==
    ASSUME TypeOK, Listener \/ Comms \/ World
    PROVE  Advances \/ UNCHANGED <<pc, tick, todo, Unread>>
  <1>1. CASE Listener \/ Comms
    <2>1. UNCHANGED <<pc, tick, todo, parsed, ref>>
      BY <1>1 DEF Listener, AddService, UpdateService, Hear, Comms, Serve,
                  Adopt, Unadopt, NotFound, SetAdopted, PutEntry, PutEntries,
                  InvalidAction, AnswerAtOnce, SerialiseRequest, StringifyAll,
                  SerialiseRaises, StoreRequest, Respond, runVars, loopVars,
                  mapVars
    <2> QED
      BY <2>1 DEF Unread, InMap
  <1>2. CASE World
    <2>1. CASE Boot \/ Ends
      BY <2>1, MoveAdvances, EndsAdvance
    <2>2. CASE ~Boot /\ ~Ends
      <3>1. UNCHANGED <<pc, tick, todo, parsed, ref>>
        BY <1>2, <2>2 DEF World, Ends, Advertise, FactoryReset, NeighbourChanges,
                          runVars, loopVars, mapVars
      <3> QED
        BY <3>1 DEF Unread, InMap
    <2> QED
      BY <2>1, <2>2
  <1> QED
    BY <1>1, <1>2

\* Each step of run() leaves less of it to do: a later place, or a round less of
\* one of its three loops, whatever set of nodes they run over.  No record and no
\* request gives it more.
THEOREM RunAdvances == Spec => BootAdvances
  <1>1. TypeOK /\ [Next]_vars
           => [Advances \/ (~Main /\ UNCHANGED <<pc, tick, todo, Unread>>)]_vars
    BY MainAdvances, OthersLetBe DEF Next
  <1> QED
    BY <1>1, TypeCorrect, PTL DEF Spec, BootAdvances

=============================================================================

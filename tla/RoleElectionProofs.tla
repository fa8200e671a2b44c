-------------------------- MODULE RoleElectionProofs --------------------------
(***************************************************************************)
(* Proofs about RoleElection, for any set of machines and any bounds: how  *)
(* far what a machine remembers of the others can be trusted.              *)
(***************************************************************************)
EXTENDS RoleElection, TLAPS

USE BoundsAssumption

-----------------------------------------------------------------------------
(* Type correctness.                                                       *)

\* A process that ends leaves well-typed volatile state.
LEMMA ExitType ==
    ASSUME TypeOK, NEW h \in Host, Exit(h)
    PROVE  /\ phase' \in [Host -> Phase] /\ tick' \in [Host -> 0 .. MaxWait]
           /\ view' \in [Host -> [Host -> Role \cup {"unheard"}]]
  <1>1. phase' \in [Host -> Phase]
    BY DEF TypeOK, Exit, Phase
  <1>2. tick' \in [Host -> 0 .. MaxWait]
    BY DEF TypeOK, Exit
  <1>3. Nobody \in [Host -> Role \cup {"unheard"}]
    BY DEF Nobody
  <1>4. view' \in [Host -> [Host -> Role \cup {"unheard"}]]
    BY <1>3 DEF TypeOK, Exit
  <1> QED
    BY <1>1, <1>2, <1>4

\* A role is put into a machine's memory of itself or of another one.
LEMMA ViewType ==
    ASSUME TypeOK, NEW h \in Host, NEW k \in Host,
           NEW role \in Role \cup {"unheard"},
           view' = [view EXCEPT ![h][k] = role]
    PROVE  view' \in [Host -> [Host -> Role \cup {"unheard"}]]
  BY DEF TypeOK

\* Every variable keeps its type in every step.
LEMMA NextType == TypeOK /\ [Next]_vars => TypeOK'
  <1> SUFFICES ASSUME TypeOK, [Next]_vars
               PROVE  TypeOK'
    OBVIOUS
  <1> USE DEF TypeOK, Phase, Role
  <1>1. ASSUME NEW h \in Host, Run(h)
        PROVE  TypeOK'
    <2> USE DEF To
    <2>1. CASE FindLocalNode(h) \/ AlreadyConfigured(h) \/ ChangeNetwork(h)
               \/ Settle(h) \/ LeaveWait(h)
      BY <2>1 DEF FindLocalNode, AlreadyConfigured, ChangeNetwork, Settle, LeaveWait
    <2>2. CASE LocalNodeTimesOut(h) \/ CopyServiceFails(h) \/ ChangeNetworkFails(h)
      BY <2>2, ExitType DEF LocalNodeTimesOut, CopyServiceFails, ChangeNetworkFails
    <2>3. CASE BecomeMaster(h) \/ StaySlave(h)
      <3>1. view' \in [Host -> [Host -> Role \cup {"unheard"}]]
        BY <2>3, ViewType DEF BecomeMaster, StaySlave
      <3> QED
        BY <2>3, <3>1 DEF BecomeMaster, StaySlave
    <2>4. CASE CopyMasterService(h) \/ CopySlaveService(h)
      <3>1. UNCHANGED <<tick, view, txt, starts, resets>> /\ wasMaster' \subseteq Host
        BY <2>4 DEF CopyMasterService, CopySlaveService
      <3>2. phase' \in [Host -> Phase] /\ svc' \in [Host -> Role]
        BY <2>4 DEF CopyMasterService, CopySlaveService
      <3> QED
        BY <3>1, <3>2
    <2>5. CASE WaitFirstrun(h)
      <3>1. tick[h] + 1 \in 0 .. MaxWait
        BY <2>5 DEF WaitFirstrun
      <3>2. tick' \in [Host -> 0 .. MaxWait]
        BY <2>5, <3>1 DEF WaitFirstrun
      <3> QED
        BY <2>5, <3>2 DEF WaitFirstrun
    <2> QED
      BY <1>1, <2>1, <2>2, <2>3, <2>4, <2>5 DEF Run
  <1>2. ASSUME NEW h \in Host, Machine(h)
        PROVE  TypeOK'
    <2>1. CASE Boot(h)
      <3>1. starts' \in 0 .. MaxStarts
        BY <2>1 DEF Boot
      <3>2. phase' \in [Host -> Phase]
        BY <2>1 DEF Boot, To
      <3> QED
        BY <2>1, <3>1, <3>2 DEF Boot
    <2>3. CASE Advertise(h)
      BY <2>3 DEF Advertise
    <2>2. CASE Crash(h) \/ PowerOff(h) \/ FactoryReset(h)
      <3>1. /\ phase' \in [Host -> Phase] /\ tick' \in [Host -> 0 .. MaxWait]
            /\ view' \in [Host -> [Host -> Role \cup {"unheard"}]]
        BY <2>2, ExitType DEF Crash, PowerOff, FactoryReset
      <3>2. /\ svc' \in [Host -> Role] /\ txt' \in [Host -> Role \cup {"silent"}]
            /\ UNCHANGED <<starts, wasMaster>>
        BY <2>2 DEF Crash, PowerOff, FactoryReset
      <3>3. resets' \in 0 .. MaxResets
        BY <2>2 DEF Crash, PowerOff, FactoryReset
      <3> QED
        BY <3>1, <3>2, <3>3
    <2> QED
      BY <1>2, <2>1, <2>2, <2>3 DEF Machine
  <1>3. ASSUME NEW h \in Host, NEW k \in Host, Hear(h, k)
        PROVE  TypeOK'
    BY <1>3, ViewType DEF Hear
  <1>4. CASE UNCHANGED vars
    BY <1>4 DEF vars
  <1> QED
    BY <1>1, <1>2, <1>3, <1>4 DEF Next

\* Initially, too.
LEMMA InitType == Init => TypeOK
  BY DEF Init, TypeOK, Phase, Role, Nobody

\* Every variable keeps its type in every reachable state.
THEOREM TypeCorrect == Spec => []TypeOK
  BY InitType, NextType, PTL DEF Spec

-----------------------------------------------------------------------------
(* What a machine knows of itself and of the others.                       *)

\* The role assignment starts from a view of the machine itself that agrees
\* with its service file, and stays with a first-run file up to the copy.
OwnView(h) ==
    /\ phase[h] \in {"listen", "decide"} =>
          txt[h] = svc[h] /\ view[h][h] \in {"unheard", svc[h]}
    /\ phase[h] \in {"copyMaster", "copySlave"} => svc[h] = "firstrun"
    /\ phase[h] = "off" => view[h] = Nobody

\* A master that no reset can have taken away.
Led(k) == k \in wasMaster /\ (resets = 0 => svc[k] = "master")

Leader(h) == \E k \in Host : k # h /\ Led(k)

\* The inductive invariant.  Whatever says "master" of k, the service file,
\* its announcement or some machine's memory of it, k has led; and slaves, or
\* those about to become one, have seen such a k.
Election ==
    /\ \A h \in Host : OwnView(h)
    /\ \A k \in Host : svc[k] = "master" => k \in wasMaster
    /\ \A k \in Host : txt[k] = "master" => Led(k)
    /\ \A h, k \in Host :
          view[h][k] = "master" => Led(k) \/ (k = h /\ phase[h] = "copyMaster")
    /\ \A h \in Host : phase[h] = "copySlave" \/ svc[h] = "slave" => Leader(h)

\* Nobody has said anything in the initial state.
LEMMA InitElection == Init => Election
  BY DEF Init, Election, OwnView, Nobody

\* What a step does to service files and history: a role is only put where
\* there was none, unless a reset is counted.
Forward ==
    /\ wasMaster \subseteq wasMaster'
    /\ resets' \in Nat /\ resets' >= resets
    /\ \A k \in Host : svc[k] # "firstrun" /\ svc'[k] # svc[k] => resets' > resets

\* Every step goes forward.
LEMMA NextForward == TypeOK /\ Election /\ [Next]_vars => Forward
  <1> SUFFICES ASSUME TypeOK, Election, [Next]_vars
               PROVE  Forward
    OBVIOUS
  <1> USE DEF Forward, TypeOK
  <1>1. ASSUME NEW h \in Host, Run(h)
        PROVE  Forward
    <2>1. CASE CopyMasterService(h) \/ CopySlaveService(h)
      <3>1. svc[h] = "firstrun"
        BY <2>1 DEF CopyMasterService, CopySlaveService, To, Election, OwnView
      <3>2. \A k \in Host : k # h => svc'[k] = svc[k]
        BY <2>1 DEF CopyMasterService, CopySlaveService
      <3> QED
        BY <2>1, <3>1, <3>2 DEF CopyMasterService, CopySlaveService
    <2>2. CASE UNCHANGED <<svc, resets, wasMaster>>
      BY <2>2
    <2> QED
      BY <1>1, <2>1, <2>2
         DEF Run, FindLocalNode, LocalNodeTimesOut, AlreadyConfigured, BecomeMaster,
             StaySlave, CopyServiceFails, ChangeNetwork, ChangeNetworkFails,
             Settle, WaitFirstrun, LeaveWait
  <1>2. ASSUME NEW h \in Host, Machine(h)
        PROVE  Forward
    <2>1. CASE FactoryReset(h)
      BY <2>1 DEF FactoryReset
    <2>2. CASE UNCHANGED <<svc, resets, wasMaster>>
      BY <2>2
    <2> QED
      BY <1>2, <2>1, <2>2 DEF Machine, Boot, Advertise, Crash, PowerOff
  <1>3. ASSUME NEW h \in Host, NEW k \in Host, Hear(h, k)
        PROVE  Forward
    BY <1>3 DEF Hear
  <1>4. CASE UNCHANGED vars
    BY <1>4 DEF vars
  <1> QED
    BY <1>1, <1>2, <1>3, <1>4 DEF Next

\* Who has led has still led after a step forward.
LEMMA LedStays ==
    ASSUME TypeOK, Forward
    PROVE  /\ \A k \in Host : Led(k) => Led(k)'
           /\ \A h \in Host : Leader(h) => Leader(h)'
  <1>1. ASSUME NEW k \in Host, Led(k)
        PROVE  Led(k)'
    <2>1. resets' = 0 => resets = 0 /\ svc[k] = "master"
      BY <1>1 DEF Forward, TypeOK, Led
    <2>2. resets' = 0 => svc'[k] = "master"
      BY <2>1 DEF Forward
    <2> QED
      BY <1>1, <2>2 DEF Led, Forward
  <1> QED
    BY <1>1 DEF Leader

-----------------------------------------------------------------------------
(* The steps.                                                              *)

\* Steps of run() on g that leave views and service files alone.
LEMMA QuietElection ==
    ASSUME TypeOK, Election, Forward, NEW g \in Host,
           \/ FindLocalNode(g) \/ AlreadyConfigured(g) \/ ChangeNetwork(g)
           \/ Settle(g) \/ WaitFirstrun(g) \/ LeaveWait(g) \/ Boot(g)
    PROVE  Election'
  <1>1. /\ UNCHANGED <<view, svc, txt, wasMaster>>
        /\ \A h \in Host : h # g => phase'[h] = phase[h]
        /\ phase'[g] \notin {"off", "copyMaster", "copySlave"}
        /\ phase[g] \notin {"copyMaster", "copySlave"}
        /\ phase'[g] \in {"listen", "decide"} =>
              phase[g] = "listen" \/ (phase[g] = "off" /\ txt[g] = svc[g])
    <2> USE DEF To, TypeOK
    <2>1. CASE FindLocalNode(g)
      BY <2>1 DEF FindLocalNode
    <2>2. CASE AlreadyConfigured(g)
      BY <2>2 DEF AlreadyConfigured
    <2>3. CASE ChangeNetwork(g) \/ Settle(g)
      BY <2>3 DEF ChangeNetwork, Settle
    <2>4. CASE WaitFirstrun(g)
      BY <2>4 DEF WaitFirstrun
    <2>5. CASE LeaveWait(g)
      BY <2>5 DEF LeaveWait
    <2>6. CASE Boot(g)
      BY <2>6 DEF Boot
    <2> QED
      BY <2>1, <2>2, <2>3, <2>4, <2>5, <2>6
  <1>2. \A h \in Host : OwnView(h)'
    BY <1>1 DEF Election, OwnView, Nobody
  <1> QED
    BY <1>1, <1>2, LedStays DEF Election

\* A process that ends forgets what it heard; its machine may fall silent.
LEMMA ExitElection ==
    ASSUME TypeOK, Election, Forward, NEW g \in Host, Exit(g),
           \A h \in Host : h # g => txt'[h] = txt[h] /\ svc'[h] = svc[h],
           txt'[g] \in {txt[g], "silent"}, svc'[g] \in {svc[g], "firstrun"}
    PROVE  Election'
  <1>1. /\ \A h \in Host : h # g => phase'[h] = phase[h] /\ view'[h] = view[h]
        /\ phase'[g] = "off" /\ view'[g] = Nobody
    BY DEF Exit, TypeOK
  <1>2. \A h \in Host : OwnView(h)'
    BY <1>1 DEF Election, OwnView
  <1>3. \A h, k \in Host : view'[h][k] = "master" => h # g /\ view[h][k] = "master"
    BY <1>1 DEF Nobody
  <1>4. \A h, k \in Host :
           view'[h][k] = "master" => Led(k)' \/ (k = h /\ phase'[h] = "copyMaster")
    BY <1>1, <1>3, LedStays DEF Election
  <1>5. \A k \in Host : txt'[k] = "master" => Led(k)'
    BY LedStays DEF Election
  <1>6. \A h \in Host : phase'[h] = "copySlave" \/ svc'[h] = "slave" => Leader(h)'
    BY <1>1, LedStays DEF Election
  <1>7. \A k \in Host : svc'[k] = "master" => k \in wasMaster'
    BY DEF Election, Forward
  <1> QED
    BY <1>2, <1>4, <1>5, <1>6, <1>7 DEF Election

\* set_node_type: a machine that takes the role of a slave has seen a leader,
\* which is not itself, since it sees itself as first-run.
LEMMA TakeRoleElection ==
    ASSUME TypeOK, Election, Forward, NEW g \in Host,
           BecomeMaster(g) \/ StaySlave(g)
    PROVE  Election'
  <1>1. /\ UNCHANGED <<svc, txt, wasMaster>>
        /\ \A h \in Host : h # g => phase'[h] = phase[h] /\ view'[h] = view[h]
        /\ phase[g] = "decide" /\ view[g][g] = "firstrun"
        /\ \A k \in Host : k # g => view'[g][k] = view[g][k]
    BY DEF BecomeMaster, StaySlave, NeedsRole, To, TypeOK
  <1>2. \/ phase'[g] = "copyMaster"
        \/ /\ phase'[g] = "copySlave" /\ view'[g][g] = "slave"
           /\ \E k \in Host : view[g][k] = "master"
    BY DEF BecomeMaster, StaySlave, MayLead, Seen, To, TypeOK
  <1>3. \A h \in Host : OwnView(h)'
    BY <1>1, <1>2 DEF Election, OwnView
  <1>4. phase'[g] = "copySlave" => Leader(g)
    BY <1>1, <1>2 DEF Election, Leader
  <1>5. \A h \in Host : phase'[h] = "copySlave" \/ svc'[h] = "slave" => Leader(h)'
    BY <1>1, <1>4, LedStays DEF Election
  <1>6. \A h, k \in Host :
           view'[h][k] = "master" => Led(k)' \/ (k = h /\ phase'[h] = "copyMaster")
    BY <1>1, <1>2, LedStays DEF Election
  <1> QED
    BY <1>1, <1>3, <1>5, <1>6, LedStays DEF Election

\* The copy makes what memory says true.
LEMMA CopyElection ==
    ASSUME TypeOK, Election, Forward, NEW g \in Host,
           CopyMasterService(g) \/ CopySlaveService(g)
    PROVE  Election'
  <1>1. /\ UNCHANGED <<view, txt>>
        /\ \A h \in Host : h # g => phase'[h] = phase[h] /\ svc'[h] = svc[h]
        /\ phase'[g] \in {"network", "settle"}
    BY DEF CopyMasterService, CopySlaveService, To, TypeOK
  <1>2. \/ phase[g] = "copyMaster" /\ svc'[g] = "master" /\ g \in wasMaster'
        \/ phase[g] = "copySlave" /\ svc'[g] = "slave" /\ wasMaster' = wasMaster
    BY DEF CopyMasterService, CopySlaveService, To, TypeOK
  <1>3. \A h \in Host : OwnView(h)'
    BY <1>1 DEF Election, OwnView
  <1>4. svc'[g] = "master" => Led(g)'
    BY <1>2 DEF Led
  <1>5. \A h \in Host : phase'[h] = "copySlave" \/ svc'[h] = "slave" => Leader(h)'
    BY <1>1, <1>2, LedStays DEF Election
  <1>6. \A h, k \in Host :
           view'[h][k] = "master" => Led(k)' \/ (k = h /\ phase'[h] = "copyMaster")
    BY <1>1, <1>2, <1>4, LedStays DEF Election
  <1>7. \A k \in Host : svc'[k] = "master" => k \in wasMaster'
    BY <1>1, <1>2 DEF Election, Forward
  <1> QED
    BY <1>1, <1>3, <1>5, <1>6, <1>7, LedStays DEF Election

\* Announcements repeat the service file, memories repeat announcements.
LEMMA SpreadElection ==
    ASSUME TypeOK, Election, Forward, NEW g \in Host, NEW n \in Host,
           Advertise(g) \/ Hear(g, n)
    PROVE  Election'
  <1>1. CASE Advertise(g)
    <2>1. /\ UNCHANGED <<phase, view, svc, resets, wasMaster>>
          /\ \A h \in Host : h # g => txt'[h] = txt[h]
          /\ txt'[g] = svc[g]
      BY <1>1 DEF Advertise, TypeOK
    <2>2. \A h \in Host : OwnView(h)'
      BY <2>1 DEF Election, OwnView
    <2>3. \A k \in Host : txt'[k] = "master" => Led(k)'
      BY <2>1 DEF Election, Led
    <2> QED
      BY <2>1, <2>2, <2>3, LedStays DEF Election
  <1>2. CASE Hear(g, n)
    <2>1. /\ UNCHANGED <<phase, txt, svc, wasMaster>> /\ phase[g] # "off"
          /\ \A h \in Host : h # g => view'[h] = view[h]
          /\ \A k \in Host : k # n => view'[g][k] = view[g][k]
          /\ view'[g][n] = txt[n]
      BY <1>2 DEF Hear, TypeOK
    <2>2. \A h \in Host : OwnView(h)'
      BY <2>1 DEF Election, OwnView
    <2>3. \A h, k \in Host :
             view'[h][k] = "master" => Led(k)' \/ (k = h /\ phase'[h] = "copyMaster")
      BY <2>1, LedStays DEF Election
    <2> QED
      BY <2>1, <2>2, <2>3, LedStays DEF Election
  <1> QED
    BY <1>1, <1>2

\* Every step preserves the inductive invariant.
LEMMA NextElection == TypeOK /\ Election /\ [Next]_vars => Election'
  <1> SUFFICES ASSUME TypeOK, Election, [Next]_vars
               PROVE  Election'
    OBVIOUS
  <1>f. Forward
    BY NextForward
  <1>1. ASSUME NEW h \in Host, Run(h)
        PROVE  Election'
    <2>1. CASE LocalNodeTimesOut(h) \/ CopyServiceFails(h) \/ ChangeNetworkFails(h)
      <3>1. Exit(h) /\ UNCHANGED <<svc, txt>>
        BY <2>1 DEF LocalNodeTimesOut, CopyServiceFails, ChangeNetworkFails
      <3> QED
        BY <1>f, <3>1, ExitElection
    <2> QED
      BY <1>f, <1>1, <2>1, QuietElection, TakeRoleElection, CopyElection DEF Run
  <1>2. ASSUME NEW h \in Host, Machine(h)
        PROVE  Election'
    <2>1. CASE Crash(h) \/ PowerOff(h) \/ FactoryReset(h)
      <3>1. /\ Exit(h) /\ \A k \in Host : k # h => txt'[k] = txt[k] /\ svc'[k] = svc[k]
            /\ txt'[h] \in {txt[h], "silent"} /\ svc'[h] \in {svc[h], "firstrun"}
        BY <2>1 DEF Crash, PowerOff, FactoryReset, TypeOK
      <3> QED
        BY <1>f, <3>1, ExitElection
    <2> QED
      BY <1>f, <1>2, <2>1, QuietElection, SpreadElection DEF Machine
  <1>3. ASSUME NEW h \in Host, NEW k \in Host, Hear(h, k)
        PROVE  Election'
    BY <1>f, <1>3, SpreadElection
  <1>4. CASE UNCHANGED vars
    BY <1>4 DEF vars, Election, OwnView, Nobody, Led, Leader
  <1> QED
    BY <1>1, <1>2, <1>3, <1>4 DEF Next

\* Whatever is said of masters is true of their past.
LEMMA ElectionHolds == Spec => [](TypeOK /\ Election)
  BY InitType, InitElection, NextType, NextElection, PTL DEF Spec

-----------------------------------------------------------------------------
(* The theorems.                                                           *)

\* No machine becomes a slave without another one having been master, for any
\* number of machines and whatever is late, lost or cut short.
THEOREM SlavesFollowed == Spec => []SlaveFollowedMaster
  <1>1. TypeOK /\ Election => SlaveFollowedMaster
    BY DEF Election, Leader, Led, SlaveFollowedMaster
  <1> QED
    BY <1>1, ElectionHolds, PTL

\* Without resets, a LAN that has a slave has a master.
THEOREM SlavesAreLed == Spec => []SlavesHaveMaster
  <1>1. TypeOK /\ Election => SlavesHaveMaster
    BY DEF Election, Leader, Led, SlavesHaveMaster
  <1> QED
    BY <1>1, ElectionHolds, PTL

\* A role in a service file is only ever taken away by a reset.
THEOREM RolesKept == Spec => RoleIsKept
  <1>1. TypeOK /\ Election /\ [Next]_vars =>
          [\A h \in Host :
              svc[h] # "firstrun" /\ svc'[h] # svc[h] => resets' > resets]_vars
    BY NextForward DEF Forward
  <1> QED
    BY <1>1, ElectionHolds, PTL DEF Spec, RoleIsKept

-----------------------------------------------------------------------------
(* Each machine implements RoleLedger.                                     *)

\* What one step of the LAN does to the role of one machine.
Decides(h) ==
    \/ svc'[h] = svc[h]
    \/ svc'[h] = "firstrun" /\ resets' # resets
    \/ /\ svc[h] = "firstrun" /\ resets' = resets
       /\ svc'[h] = "master" \/ (svc'[h] = "slave" /\ Leader(h))

\* A role comes out of one decision, or goes with a reset.
LEMMA NextDecides == TypeOK /\ Election /\ [Next]_vars => \A h \in Host : Decides(h)
  <1> SUFFICES ASSUME TypeOK, Election, [Next]_vars, NEW h \in Host
               PROVE  Decides(h)
    OBVIOUS
  <1> USE DEF Decides
  <1>1. ASSUME NEW g \in Host, CopyMasterService(g) \/ CopySlaveService(g)
        PROVE  Decides(h)
    <2>1. h # g => svc'[h] = svc[h]
      BY <1>1 DEF CopyMasterService, CopySlaveService, TypeOK
    <2>2. svc[g] = "firstrun" /\ resets' = resets
      BY <1>1 DEF CopyMasterService, CopySlaveService, To, Election, OwnView
    <2>3. svc'[g] = "master" \/ (svc'[g] = "slave" /\ Leader(g))
      BY <1>1 DEF CopyMasterService, CopySlaveService, To, Election, TypeOK
    <2> QED
      BY <2>1, <2>2, <2>3
  <1>2. ASSUME NEW g \in Host, FactoryReset(g)
        PROVE  Decides(h)
    <2>1. resets' # resets
      BY <1>2 DEF FactoryReset, TypeOK
    <2>2. svc'[h] = svc[h] \/ svc'[h] = "firstrun"
      BY <1>2 DEF FactoryReset, TypeOK
    <2> QED
      BY <2>1, <2>2
  <1>3. CASE UNCHANGED svc
    BY <1>3
  <1> QED
    BY <1>1, <1>2, <1>3
       DEF Next, Run, Machine, Hear, FindLocalNode, LocalNodeTimesOut,
           AlreadyConfigured, BecomeMaster, StaySlave, CopyServiceFails,
           ChangeNetwork, ChangeNetworkFails, Settle, WaitFirstrun, LeaveWait,
           Boot, Advertise, Crash, PowerOff, vars

\* Every step of the LAN is a step of every machine's ledger.
LEMMA NextLedger == TypeOK /\ Election /\ [Next]_vars => \A h \in Host : Ledger(h)!Next
  <1> SUFFICES ASSUME TypeOK, Election, [Next]_vars, NEW h \in Host
               PROVE  Ledger(h)!Next
    OBVIOUS
  <1>1. Forward /\ Decides(h)
    BY NextForward, NextDecides
  <1>2. wasMaster \ {h} # {} => wasMaster' \ {h} # {}
    BY <1>1 DEF Forward
  <1>3. Leader(h) => wasMaster \ {h} # {}
    BY DEF Leader, Led
  <1>4. CASE svc'[h] = svc[h]
    BY <1>2, <1>4 DEF Ledger!Next, Ledger!Others
  <1>5. CASE svc'[h] = "firstrun" /\ resets' # resets
    BY <1>2, <1>5 DEF Ledger!Next, Ledger!Reset
  <1>6. CASE svc[h] = "firstrun" /\ resets' = resets /\ svc'[h] = "master"
    BY <1>2, <1>6 DEF Ledger!Next, Ledger!Lead
  <1>7. CASE svc[h] = "firstrun" /\ resets' = resets /\ svc'[h] = "slave" /\ Leader(h)
    BY <1>2, <1>3, <1>7 DEF Ledger!Next, Ledger!Follow
  <1> QED
    BY <1>1, <1>4, <1>5, <1>6, <1>7 DEF Decides

\* The LAN implements the ledger of each of its machines, for any number of
\* them: one decision out of first-run, a slave only after another master,
\* first-run again only by a reset.
THEOREM LedgersKept == Spec => RolesAreAssigned
  <1>1. Init => \A h \in Host : Ledger(h)!Init
    BY DEF Init, Ledger!Init
  <1>2. TypeOK /\ Election /\ [Next]_vars => [\A h \in Host : Ledger(h)!Next]_vars
    BY NextLedger
  <1> QED
    BY <1>1, <1>2, ElectionHolds, PTL DEF Spec, RolesAreAssigned
=============================================================================

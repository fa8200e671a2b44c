-------------------------- MODULE MachineStartProofs --------------------------
(***************************************************************************)
(* Safety of MachineStart for any nodes, addresses, requests and presses.  *)
(* The three parts keep invariants of their own, each over its own         *)
(* variables; what joins them is the announcement of the service file.     *)
(***************************************************************************)
EXTENDS MachineStart, TLAPS

-----------------------------------------------------------------------------
(* The process and its listener.                                           *)

\* The listener is created empty, after an address of Link was found.
ListenerInv ==
    IF proc \in {"off", "poll"}
    THEN browsed = {} /\ usable = FALSE /\ local = {} /\ entry = [m \in Mac |-> "none"]
    ELSE ip \in Link

\* A process that has found a node still has the entry it found it by.
FoundInv == proc \in {"retrieve", "found"} => entry[Self] # "none"

DiscoveryInv ==
    /\ DiscoveryTypeOK /\ ListenerInv /\ FoundInv
    /\ UsableIsFindable /\ LocalNodeIsSelf

DiscoveryStep ==
    \/ StartDiscovery \/ Discover \/ EndDiscovery
    \/ \E m \in Mac : AddService(m) \/ UpdateService(m) \/ RemoveService(m)
    \/ UNCHANGED discoveryVars

\* The discovery begins with its invariant.
LEMMA DiscoveryInit == InitDiscovery => DiscoveryInv
<1>1. SUFFICES ASSUME InitDiscovery PROVE DiscoveryInv
  OBVIOUS
<1>2. DiscoveryTypeOK
  <2>1. round \in 0..MaxPoll
    BY <1>1, PollAssumption DEF InitDiscovery
  <2>2. usable \in BOOLEAN
    BY <1>1 DEF InitDiscovery
  <2> QED  BY <1>1, <2>1, <2>2 DEF InitDiscovery, DiscoveryTypeOK
<1>3. ListenerInv
  BY <1>1, Zenon DEF InitDiscovery, ListenerInv
<1> QED
  BY <1>1, <1>2, <1>3
     DEF InitDiscovery, DiscoveryInv, FoundInv, UsableIsFindable, LocalNodeIsSelf

\* No other node can have the address that get_ips found.
LEMMA OnlySelfMatches ==
    ASSUME DiscoveryTypeOK, ip \in Link
    PROVE  Matching \subseteq {Self}
  BY LinkAssumption, SelfAssumption DEF Matching, DiscoveryTypeOK

\* The end of the process is the beginning of the next one.
LEMMA EndKeepsDiscovery == EndDiscovery => DiscoveryInv'
<1>1. SUFFICES ASSUME EndDiscovery PROVE DiscoveryInv'
  OBVIOUS
<1>2. DiscoveryTypeOK'
  <2>1. round' \in 0..MaxPoll
    BY <1>1, PollAssumption DEF EndDiscovery
  <2>2. usable' \in BOOLEAN
    BY <1>1 DEF EndDiscovery
  <2> QED  BY <1>1, <2>1, <2>2 DEF EndDiscovery, DiscoveryTypeOK
<1>3. ListenerInv'
  BY <1>1, Zenon DEF EndDiscovery, ListenerInv
<1> QED
  BY <1>1, <1>2, <1>3
     DEF EndDiscovery, DiscoveryInv, FoundInv, UsableIsFindable, LocalNodeIsSelf

\* get_ips goes on to the listener only with an address.
LEMMA PollKeepsDiscovery ==
    ASSUME DiscoveryInv, PollBridge \/ PollEthernet
    PROVE  DiscoveryInv'
<1>1. PICK ends \in BOOLEAN : PollRound(ends) /\ (ends => ip' \in Link) /\ ip' \in Link \cup {ip}
  BY DEF PollBridge, PollEthernet, PollRound, DiscoveryInv, DiscoveryTypeOK
<1>2. DiscoveryTypeOK'
  BY <1>1, PollAssumption DEF DiscoveryInv, DiscoveryTypeOK, PollRound, listenerVars
<1>3. ListenerInv' /\ FoundInv' /\ LocalNodeIsSelf'
  BY <1>1 DEF DiscoveryInv, ListenerInv, FoundInv, LocalNodeIsSelf, PollRound, listenerVars
<1>4. UsableIsFindable'
  BY <1>1 DEF DiscoveryInv, ListenerInv, UsableIsFindable, PollRound, listenerVars
<1> QED  BY <1>2, <1>3, <1>4 DEF DiscoveryInv

\* A record that is kept leaves the invariant: it is only taken by a listener
\* that has an address.
LEMMA StoreKeepsDiscovery ==
    ASSUME DiscoveryInv, proc \notin {"off", "poll"}, NEW m \in Mac, Store(m),
           browsed' \subseteq Mac, UNCHANGED <<proc, ipVars, local>>
    PROVE  DiscoveryInv'
<1>1. PICK addrs \in (SUBSET AddrOf[m]) \ {{}} :
          /\ \E a \in Preferred(addrs) : entry' = [entry EXCEPT ![m] = a]
          /\ usable' = IF m = Self THEN ip \in addrs ELSE usable
  BY DEF Store
<1>a. PICK a \in Preferred(addrs) : entry' = [entry EXCEPT ![m] = a]
  BY <1>1
<1>2. a \in AddrOf[m] /\ (ip \in addrs => a = ip)
  BY <1>1, <1>a DEF Preferred
<1>3. DiscoveryTypeOK'
  <2>1. a \in Address
    BY <1>2 DEF Address
  <2>2. usable' \in BOOLEAN
    <3>1. usable \in BOOLEAN
      BY DEF DiscoveryInv, DiscoveryTypeOK
    <3>2. (ip \in addrs) \in BOOLEAN
      OBVIOUS
    <3>3. usable' = (ip \in addrs) \/ usable' = usable
      BY <1>1, Zenon
    <3> QED  BY <3>1, <3>2, <3>3, Zenon
  <2> QED  BY <2>1, <2>2, <1>a, <1>2 DEF DiscoveryInv, DiscoveryTypeOK, ipVars
<1>4. ip \in Link /\ ip # "none" /\ ip' = ip
  BY LinkAssumption, SelfAssumption DEF DiscoveryInv, ListenerInv, ipVars
<1>5. UsableIsFindable'
  BY <1>1, <1>a, <1>2, <1>4, SelfAssumption
     DEF DiscoveryInv, UsableIsFindable, Matching, DiscoveryTypeOK
<1>6. FoundInv'
  BY <1>a, <1>2, LinkAssumption, SelfAssumption
     DEF DiscoveryInv, FoundInv, DiscoveryTypeOK
<1> QED  BY <1>3, <1>4, <1>5, <1>6 DEF DiscoveryInv, ListenerInv, LocalNodeIsSelf

\* What the listener hears keeps the invariant.
LEMMA ListenerKeepsDiscovery ==
    ASSUME DiscoveryInv, NEW m \in Mac,
           AddService(m) \/ UpdateService(m) \/ RemoveService(m)
    PROVE  DiscoveryInv'
<1>1. CASE proc \notin {"off", "poll"} /\ Store(m) /\ browsed' \subseteq Mac
           /\ UNCHANGED <<proc, ipVars, local>>
  BY <1>1, StoreKeepsDiscovery
<1>2. CASE /\ proc \notin {"off", "poll"} \/ browsed # {}
           /\ browsed' \subseteq Mac /\ UNCHANGED <<proc, ipVars, entry, usable, local>>
  BY <1>2 DEF DiscoveryInv, DiscoveryTypeOK, ListenerInv, FoundInv,
              UsableIsFindable, LocalNodeIsSelf, Matching, ipVars
<1>3. browsed' \subseteq Mac
  BY DEF DiscoveryInv, DiscoveryTypeOK, AddService, UpdateService, RemoveService
<1> QED  BY <1>1, <1>2, <1>3 DEF AddService, UpdateService, RemoveService

\* The waits of run() keep it: what matches the address is this node.
LEMMA WaitsKeepDiscovery ==
    ASSUME DiscoveryInv, SeeLocalNode \/ RetrieveLocalNode
    PROVE  DiscoveryInv'
<1>1. ip \in Link /\ proc \in {"listen", "retrieve"} /\ Matching # {}
  BY DEF DiscoveryInv, ListenerInv, SeeLocalNode, RetrieveLocalNode
<1>2. Matching = {Self}
  BY <1>1, OnlySelfMatches DEF DiscoveryInv
<1>3. entry[Self] = ip /\ ip # "none"
  BY <1>1, <1>2, LinkAssumption, SelfAssumption DEF Matching
<1>4. proc' \in {"retrieve", "found"} /\ UNCHANGED <<ipVars, listenerVars>>
      /\ local' \in {local, Matching}
  BY DEF SeeLocalNode, RetrieveLocalNode, ipVars, listenerVars
<1>5. DiscoveryTypeOK'
  BY <1>2, <1>4, SelfAssumption DEF DiscoveryInv, DiscoveryTypeOK, ipVars, listenerVars
<1>6. ListenerInv' /\ FoundInv' /\ UsableIsFindable' /\ LocalNodeIsSelf'
  BY <1>1, <1>2, <1>3, <1>4
     DEF DiscoveryInv, ListenerInv, FoundInv, UsableIsFindable, LocalNodeIsSelf,
         Matching, ipVars, listenerVars
<1> QED  BY <1>5, <1>6 DEF DiscoveryInv

\* Every step of the discovery keeps its invariant.
LEMMA DiscoveryKept == DiscoveryInv /\ DiscoveryStep => DiscoveryInv'
<1>1. SUFFICES ASSUME DiscoveryInv, DiscoveryStep PROVE DiscoveryInv'
  OBVIOUS
<1>2. CASE StartDiscovery
  BY <1>1, <1>2
     DEF StartDiscovery, DiscoveryInv, DiscoveryTypeOK, ListenerInv, FoundInv,
         UsableIsFindable, LocalNodeIsSelf, Matching, ipVars, listenerVars
<1>3. CASE Discover
  BY <1>1, <1>3, PollKeepsDiscovery, WaitsKeepDiscovery DEF Discover
<1>4. CASE EndDiscovery
  BY <1>4, EndKeepsDiscovery
<1>5. CASE \E m \in Mac : AddService(m) \/ UpdateService(m) \/ RemoveService(m)
  BY <1>1, <1>5, ListenerKeepsDiscovery
<1>6. CASE UNCHANGED discoveryVars
  BY <1>1, <1>6
     DEF discoveryVars, ipVars, listenerVars, DiscoveryInv, DiscoveryTypeOK,
         ListenerInv, FoundInv, UsableIsFindable, LocalNodeIsSelf, Matching
<1> QED  BY <1>1, <1>2, <1>3, <1>4, <1>5, <1>6 DEF DiscoveryStep

-----------------------------------------------------------------------------
(* The power button.                                                       *)

\* A script about to restart the machine has put the first-run file in place, or
\* failed to, or another one is at its copy and will be cut off by the restart.
ButtonInv ==
    /\ ButtonTypeOK /\ LostFileHasReason /\ RestartsFirstRun
    /\ At({"sleep"}) => service = "firstrun" \/ spoilt \/ At({"copy"})

ButtonStep ==
    \/ RunButton \/ \E p \in Press : Push(p)
    \/ MinutePasses \/ HaltFires \/ LosePower \/ PowerOn
    \/ UNCHANGED buttonVars

\* The machine is delivered with a service file.
LEMMA ButtonInit == InitButton => ButtonInv
  BY DEF InitButton, ButtonInv, ButtonTypeOK, LostFileHasReason, RestartsFirstRun, At

\* A machine that goes down with an unfinished copy has spoilt the file; one that
\* restarts has a script at its last command.
LEMMA DownKeepsButton ==
    ASSUME ButtonInv, NEW how \in {"restarting", "halted", "cut"}, Down(how),
           how = "restarting" => At({"sleep"})
    PROVE  ButtonInv'
<1>1. ~At({"sleep"})' /\ ~At({"copy"})'
  BY DEF Down, At
<1>2. ButtonTypeOK'
  <2>1. At({"copy"}) \in BOOLEAN
    BY Zenon DEF At
  <2>2. spoilt' \in BOOLEAN
    BY <2>1, Zenon DEF Down, ButtonInv, ButtonTypeOK
  <2>3. power' \in {"on", "restarting", "halted", "cut"} /\ halt' = "none" /\ service' = service
    BY DEF Down
  <2> QED  BY <2>2, <2>3 DEF Down, ButtonInv, ButtonTypeOK
<1>3. spoilt \/ At({"copy"}) => spoilt' = TRUE
  <2>1. spoilt' = (spoilt \/ At({"copy"}))
    BY DEF Down
  <2> QED  BY <2>1, Zenon
<1>4. service' = service /\ power' = how
  BY DEF Down
<1>5. LostFileHasReason'
  BY <1>3, <1>4 DEF ButtonInv, LostFileHasReason
<1>6. RestartsFirstRun'
  BY <1>3, <1>4 DEF ButtonInv, RestartsFirstRun
<1> QED  BY <1>1, <1>2, <1>5, <1>6 DEF ButtonInv

\* A step of one script leaves the others where they are, and so their copy
\* still to do.
LEMMA ScriptKeepsButton ==
    ASSUME ButtonInv, NEW p \in Press,
           \/ Push(p) \/ Search(p) \/ StartWaiter(p) \/ ScheduleHalt(p)
           \/ CancelHalt(p) \/ RemoveFile(p) \/ CopyFirstRun(p)
    PROVE  ButtonInv'
<1> DEFINE Place == {"none", "search", "start", "wait", "cancel",
                     "remove", "copy", "sleep", "end"}
<1>1. PICK to \in Place : script' = [script EXCEPT ![p] = to]
  BY DEF Push, Search, StartWaiter, ScheduleHalt, CancelHalt, RemoveFile, CopyFirstRun, Step
<1>2. power' = power /\ power = "on" /\ halt' \in {halt, "fresh", "none"}
  BY DEF Push, Search, StartWaiter, ScheduleHalt, CancelHalt, RemoveFile, CopyFirstRun,
         Step, Up
<1>3. service' \in {service, "missing", "firstrun"} /\ spoilt' \in {spoilt, TRUE, FALSE}
  BY DEF Push, Search, StartWaiter, ScheduleHalt, CancelHalt, RemoveFile, CopyFirstRun
<1>4. ButtonTypeOK'
  <2>1. spoilt' \in BOOLEAN
    BY <1>3, Zenon DEF ButtonInv, ButtonTypeOK
  <2> QED  BY <1>1, <1>2, <1>3, <2>1 DEF ButtonInv, ButtonTypeOK
<1>5. RestartsFirstRun'
  BY <1>2 DEF RestartsFirstRun
<1>6. LostFileHasReason' /\ (At({"sleep"})' => (service = "firstrun" \/ spoilt \/ At({"copy"}))')
  <2>1. CASE RemoveFile(p)
    <3>1. At({"copy"})'
      BY <2>1 DEF RemoveFile, Step, At, ButtonInv, ButtonTypeOK
    <3> QED  BY <3>1 DEF LostFileHasReason
  <2>2. CASE CopyFirstRun(p)
    <3>1. service' = "firstrun" \/ spoilt' = TRUE
      BY <2>2 DEF CopyFirstRun
    <3> QED  BY <3>1 DEF LostFileHasReason
  <2>3. CASE Push(p) \/ Search(p) \/ StartWaiter(p) \/ ScheduleHalt(p) \/ CancelHalt(p)
    <3>1. UNCHANGED <<service, spoilt>> /\ script[p] # "copy" /\ script'[p] # "sleep"
      BY <2>3 DEF Push, Search, StartWaiter, ScheduleHalt, CancelHalt, Step, ButtonInv,
                  ButtonTypeOK
    <3>2. (At({"copy"}) => At({"copy"})') /\ (At({"sleep"})' => At({"sleep"}))
      BY <3>1, <1>1 DEF At, ButtonInv, ButtonTypeOK
    <3> QED  BY <3>1, <3>2 DEF ButtonInv, LostFileHasReason
  <2> QED  BY <2>1, <2>2, <2>3
<1> QED  BY <1>4, <1>5, <1>6 DEF ButtonInv

\* Every step of the button keeps its invariant.
LEMMA ButtonKept == ButtonInv /\ ButtonStep => ButtonInv'
<1>1. SUFFICES ASSUME ButtonInv, ButtonStep PROVE ButtonInv'
  OBVIOUS
<1>2. CASE RunScript \/ \E p \in Press : Push(p)
  BY <1>1, <1>2, ScriptKeepsButton DEF RunScript
<1>3. CASE HaltFires \/ LosePower
  BY <1>1, <1>3, DownKeepsButton DEF HaltFires, LosePower
<1>4. CASE \E p \in Press : Restart(p)
  <2>1. At({"sleep"}) /\ Down("restarting")
    BY <1>4 DEF Restart, At
  <2> QED  BY <1>1, <2>1, DownKeepsButton
<1>5. CASE MinutePasses \/ PowerOn \/ UNCHANGED buttonVars
  <2>1. UNCHANGED <<script, service, spoilt>> /\ halt' \in {halt, "due"}
        /\ power' \in {power, "on"}
    BY <1>5 DEF MinutePasses, PowerOn, buttonVars
  <2> QED
    BY <1>1, <2>1 DEF ButtonInv, ButtonTypeOK, LostFileHasReason, RestartsFirstRun, At
<1> QED  BY <1>1, <1>2, <1>3, <1>4, <1>5 DEF ButtonStep, RunButton

-----------------------------------------------------------------------------
(* The communications thread and what the engine may count on.             *)

CommsStep ==
    \/ StartThread \/ RunLoop \/ Engine \/ RequestStop \/ EndThread
    \/ UNCHANGED commsVars

OpenRequests == {r \in Request : state[r] \in Kind \cup {"due"}}
Answered == {r \in Request : state[r] = "answered"}

\* The thread begins with nothing asked.
LEMMA CommsInit == InitComms => CommsTypeOK /\ OpenRequests = {} /\ Answered = {}
  BY DEF InitComms, CommsTypeOK, OpenRequests, Answered, Kind

\* A step moves one request along, or ends what is open.
LEMMA OneRequestMoves ==
    ASSUME CommsTypeOK, CommsStep
    PROVE  \/ UNCHANGED state
           \/ EndThread
           \/ \E r \in Request, to \in Kind : Becomes(r, "unsent", to)
           \/ \E r \in Request, from \in Kind :
                 Becomes(r, from, "due") \/ Becomes(r, from, "ignored")
           \/ \E r \in Request : Becomes(r, "due", "answered") \/ Becomes(r, "due", "lost")
  BY DEF CommsStep, StartThread, RunLoop, Engine, RequestStop, Connect, StopLoop, Send,
         TakeModify, TakeOther, TakeGarbled, Respond, commsVars, Kind

\* Every step keeps the types.
LEMMA CommsKept == CommsTypeOK /\ CommsStep => CommsTypeOK'
<1>1. SUFFICES ASSUME CommsTypeOK, CommsStep PROVE CommsTypeOK'
  OBVIOUS
<1>2. loop' \in {"off", "connect", "listen", "deaf", "stopped"}
  BY <1>1
     DEF CommsTypeOK, CommsStep, StartThread, RunLoop, Engine, RequestStop, EndThread,
         Connect, StopLoop, Send, TakeModify, TakeOther, TakeGarbled, Respond,
         Listening, commsVars
<1>3. stop' \in BOOLEAN
  <2>1. stop' \in {stop, TRUE, FALSE}
    BY <1>1
       DEF CommsStep, StartThread, RunLoop, Engine, RequestStop, EndThread,
           Connect, StopLoop, Send, TakeModify, TakeOther, TakeGarbled, Respond, commsVars
  <2> QED  BY <1>1, <2>1, Zenon DEF CommsTypeOK
<1>4. state' \in [Request -> Kind \cup {"unsent", "due", "answered", "ignored", "lost"}]
  BY <1>1, OneRequestMoves DEF CommsTypeOK, EndThread, Becomes, Kind
<1> QED  BY <1>2, <1>3, <1>4 DEF CommsTypeOK

\* What a step of the thread is to the engine: a request, an answer to an open
\* one, or the end of some that will not be answered.
LEMMA CommsImplements ==
    ASSUME CommsTypeOK, CommsStep
    PROVE  Contract!Next \/ UNCHANGED <<OpenRequests, Answered>>
<1>1. CASE UNCHANGED state
  BY <1>1 DEF OpenRequests, Answered
<1>2. CASE EndThread
  <2>1. OpenRequests' \subseteq OpenRequests /\ Answered' = Answered
    BY <1>2 DEF EndThread, OpenRequests, Answered, Kind, CommsTypeOK
  <2> QED  BY <2>1 DEF Contract!Next, Contract!GiveUp, OpenRequests, Answered
<1>3. ASSUME NEW r \in Request, NEW to \in Kind, Becomes(r, "unsent", to)
      PROVE  Contract!Next
  <2>1. /\ r \notin OpenRequests \cup Answered
        /\ OpenRequests' = OpenRequests \cup {r} /\ Answered' = Answered
    BY <1>3 DEF Becomes, OpenRequests, Answered, Kind, CommsTypeOK
  <2> QED  BY <2>1 DEF Contract!Next, Contract!Ask, OpenRequests, Answered
<1>4. ASSUME NEW r \in Request, NEW from \in Kind,
             Becomes(r, from, "due") \/ Becomes(r, from, "ignored")
      PROVE  Contract!Next
  <2>1. OpenRequests' \subseteq OpenRequests /\ Answered' = Answered
    BY <1>4 DEF Becomes, OpenRequests, Answered, Kind, CommsTypeOK
  <2> QED  BY <2>1 DEF Contract!Next, Contract!GiveUp, OpenRequests, Answered
<1>5. ASSUME NEW r \in Request, Becomes(r, "due", "answered")
      PROVE  Contract!Next
  <2>1. /\ r \in OpenRequests
        /\ OpenRequests' = OpenRequests \ {r} /\ Answered' = Answered \cup {r}
    BY <1>5 DEF Becomes, OpenRequests, Answered, Kind, CommsTypeOK
  <2> QED  BY <2>1 DEF Contract!Next, Contract!Answer, OpenRequests, Answered
<1>6. ASSUME NEW r \in Request, Becomes(r, "due", "lost")
      PROVE  Contract!Next
  <2>1. OpenRequests' \subseteq OpenRequests /\ Answered' = Answered
    BY <1>6 DEF Becomes, OpenRequests, Answered, Kind, CommsTypeOK
  <2> QED  BY <2>1 DEF Contract!Next, Contract!GiveUp, OpenRequests, Answered
<1> QED  BY <1>1, <1>2, <1>3, <1>4, <1>5, <1>6, OneRequestMoves

-----------------------------------------------------------------------------
(* The machine.                                                            *)

\* A file that is lost is not announced, and its node not known.
SilenceInv ==
    service = "missing" /\ ~At({"copy", "sleep"}) => announced = FALSE /\ entry[Self] = "none"

StartInv ==
    /\ DiscoveryInv /\ CommsTypeOK /\ ButtonInv
    /\ announced \in BOOLEAN /\ SilenceInv

\* A step of the machine is a step of each part, or leaves it alone.
LEMMA StepsOfTheParts == Next => DiscoveryStep /\ CommsStep /\ ButtonStep
<1>1. SUFFICES ASSUME Next PROVE DiscoveryStep /\ CommsStep /\ ButtonStep
  OBVIOUS
<1>2. DiscoveryStep
  BY <1>1
     DEF Next, StartProcess, RunProcess, RunComms, TalkToComms, RunScripts, PressOrWait,
         GoDown, EndsWithMachine, ComeUp, Announce, Zeroconf, DiscoveryStep, GiveUp, PollTimesOut,
         LocalNodeTimesOut, IterationRaises
<1>3. CommsStep
  BY <1>1
     DEF Next, StartProcess, RunProcess, RunComms, TalkToComms, RunScripts, PressOrWait,
         GoDown, EndsWithMachine, ComeUp, Announce, Zeroconf, CommsStep
<1>4. ButtonStep
  BY <1>1
     DEF Next, StartProcess, RunProcess, RunComms, TalkToComms, RunScripts, PressOrWait,
         GoDown, ComeUp, Announce, Zeroconf, ButtonStep
<1> QED  BY <1>2, <1>3, <1>4

\* The steps after which a lost file could be announced, or its node known.
LEMMA SilenceKept == ASSUME StartInv, Next PROVE SilenceInv'
<1>1. CASE /\ RunScript \/ MinutePasses \/ \E p \in Press : Push(p)
           /\ UNCHANGED <<discoveryVars, announced>>
  <2>1. \/ At({"copy", "sleep"})'
        \/ service' = service /\ ~At({"copy", "sleep"})
    <3>1. ASSUME NEW p \in Press, CopyFirstRun(p) \/ RemoveFile(p)
          PROVE  At({"copy", "sleep"})'
      BY <3>1 DEF CopyFirstRun, RemoveFile, Step, At, StartInv, ButtonInv, ButtonTypeOK
    <3>2. ASSUME NEW p \in Press,
                 \/ Push(p) \/ Search(p) \/ StartWaiter(p) \/ ScheduleHalt(p) \/ CancelHalt(p)
          PROVE  service' = service
                 /\ (At({"copy", "sleep"}) => At({"copy", "sleep"})')
      <4>1. service' = service /\ script[p] \notin {"copy", "sleep"}
            /\ \E to : script' = [script EXCEPT ![p] = to]
        BY <3>2 DEF Push, Search, StartWaiter, ScheduleHalt, CancelHalt, Step
      <4> QED  BY <4>1 DEF At, StartInv, ButtonInv, ButtonTypeOK
    <3>3. CASE MinutePasses
      BY <3>3 DEF MinutePasses, At
    <3> QED  BY <1>1, <3>1, <3>2, <3>3 DEF RunScript
  <2> QED  BY <1>1, <2>1 DEF StartInv, SilenceInv, discoveryVars, listenerVars
<1>2. CASE EndDiscovery /\ announced' = FALSE
  BY <1>2, SelfAssumption DEF EndDiscovery, SilenceInv
<1>3. CASE Announce
  BY <1>3 DEF Announce, StartInv, SilenceInv, At, discoveryVars, listenerVars, buttonVars
<1>4. CASE Zeroconf
  <2>1. entry'[Self] = entry[Self] \/ announced
    BY <1>4, SelfAssumption
       DEF Zeroconf, AddService, UpdateService, RemoveService, Store, StartInv,
           DiscoveryInv, DiscoveryTypeOK
  <2> QED  BY <1>4, <2>1 DEF Zeroconf, StartInv, SilenceInv, At, buttonVars
<1>5. CASE StartProcess \/ RunProcess \/ RunComms \/ TalkToComms
  <2>1. UNCHANGED <<service, script, announced>> /\ (entry'[Self] = entry[Self] \/ EndDiscovery)
    BY <1>5
       DEF StartProcess, RunProcess, RunComms, TalkToComms, StartDiscovery, Discover,
           PollBridge, PollEthernet, PollRound, SeeLocalNode, RetrieveLocalNode, GiveUp,
           PollTimesOut, LocalNodeTimesOut, IterationRaises, buttonVars, discoveryVars, listenerVars
  <2> QED  BY <2>1, SelfAssumption DEF EndDiscovery, StartInv, SilenceInv, At
<1>6. CASE ComeUp
  BY <1>6 DEF ComeUp, PowerOn, StartInv, SilenceInv, At, discoveryVars, listenerVars
<1>7. RunScript => Up'
  BY DEF RunScript, Search, StartWaiter, ScheduleHalt, CancelHalt, RemoveFile, CopyFirstRun,
         Step, Up
<1>8. (\E p \in Press : Restart(p)) \/ HaltFires \/ LosePower => ~Up'
  BY DEF Restart, HaltFires, LosePower, Down, Up
<1> QED
  BY <1>1, <1>2, <1>3, <1>4, <1>5, <1>6, <1>7, <1>8
     DEF Next, RunScripts, RunButton, PressOrWait, GoDown, EndsWithMachine

\* The machine is switched on with its invariant, and every step keeps it.
LEMMA StartInvariant == Spec => []StartInv
<1>1. Init => StartInv
  <2>1. InitButton => service # "missing"
    BY DEF InitButton
  <2> QED
    BY <2>1, DiscoveryInit, CommsInit, ButtonInit DEF Init, StartInv, SilenceInv
<1>2. StartInv /\ [Next]_startVars => StartInv'
  <2>1. CASE Next
    <3>1. StartInv /\ Next => announced' \in BOOLEAN
      <4>1. Next => announced' \in {announced, TRUE, FALSE}
        BY Zenon
           DEF Next, StartProcess, RunProcess, RunComms, TalkToComms, RunScripts,
               PressOrWait, GoDown, EndsWithMachine, ComeUp, Announce, Zeroconf
      <4> QED  BY <4>1, Zenon DEF StartInv
    <3> QED
      BY <2>1, <3>1, StepsOfTheParts, DiscoveryKept, CommsKept, ButtonKept, SilenceKept
         DEF StartInv
  <2>2. CASE UNCHANGED startVars
    <3>1. UNCHANGED <<discoveryVars, commsVars, buttonVars, announced>>
      BY <2>2 DEF startVars
    <3>2. SilenceInv => SilenceInv'
      BY <3>1 DEF SilenceInv, At, discoveryVars, listenerVars, buttonVars
    <3> QED
      BY <3>1, <3>2, DiscoveryKept, CommsKept, ButtonKept
         DEF StartInv, DiscoveryStep, CommsStep, ButtonStep
  <2> QED  BY <2>1, <2>2
<1> QED  BY <1>1, <1>2, PTL DEF Spec

\* So is a step beside run().
LEMMA StepsBesideRun == BesideRun => CommsStep /\ ButtonStep
  BY DEF BesideRun, RunComms, TalkToComms, RunScripts, PressOrWait, GoDown,
         EndsWithMachine, ComeUp, CommsStep, ButtonStep

\* There, button and thread keep their invariants.
LEMMA BesideInvariant == BesideSpec => [](ButtonInv /\ CommsTypeOK)
<1>1. Init => ButtonInv /\ CommsTypeOK
  BY ButtonInit, CommsInit DEF Init
<1>2. ButtonInv /\ CommsTypeOK /\ [BesideRun]_startVars => (ButtonInv /\ CommsTypeOK)'
  BY StepsBesideRun, ButtonKept, CommsKept DEF ButtonStep, CommsStep, startVars
<1> QED  BY <1>1, <1>2, PTL DEF BesideSpec

-----------------------------------------------------------------------------
\* Every variable of the machine keeps its type: what get_ips, the listener,
\* the thread and the scripts leave behind is what the next of them expects.
THEOREM TypeCorrect == Spec => []TypeOK
<1>1. StartInv => TypeOK
  BY DEF StartInv, DiscoveryInv, ButtonInv, TypeOK
<1> QED  BY <1>1, StartInvariant, PTL

\* After get_ips there is an address: the check of run() that follows never
\* finds one missing.
THEOREM AddressKnown == Spec => []AddressIsKnown
<1>1. StartInv => AddressIsKnown
  BY LinkAssumption, SelfAssumption DEF StartInv, DiscoveryInv, ListenerInv, AddressIsKnown
<1> QED  BY <1>1, StartInvariant, PTL

\* retreive_local_node returns this node, whatever other nodes announce.
THEOREM LocalNodeFound == Spec => []LocalNodeIsSelf
<1>1. StartInv => LocalNodeIsSelf
  BY DEF StartInv, DiscoveryInv
<1> QED  BY <1>1, StartInvariant, PTL

\* Of the addresses of a record the listener keeps the one of the link: a
\* record of this node by which it can be found is kept as such.
THEOREM UsableFound == Spec => []UsableIsFindable
<1>1. StartInv => UsableIsFindable
  BY DEF StartInv, DiscoveryInv
<1> QED  BY <1>1, StartInvariant, PTL

\* For any number of presses, with and without run(): powerbtn-custom-handler.sh only
\* leaves no service file when its cp failed, or the machine went down between its rm
\* and its cp.
THEOREM LostFileReason == Spec \/ BesideSpec => []LostFileHasReason
<1>1. ButtonInv => LostFileHasReason
  BY DEF ButtonInv
<1>2. StartInv => LostFileHasReason
  BY <1>1 DEF StartInv
<1> QED  BY <1>1, <1>2, StartInvariant, BesideInvariant, PTL

\* For any number of presses, resets side by side among them: what restarts is a
\* first-run machine, but for the same two reasons.
THEOREM FirstRunRestarts == Spec \/ BesideSpec => []RestartsFirstRun
<1>1. ButtonInv => RestartsFirstRun
  BY DEF ButtonInv
<1>2. StartInv => RestartsFirstRun
  BY <1>1 DEF StartInv
<1> QED  BY <1>1, <1>2, StartInvariant, BesideInvariant, PTL

\* For any number of presses, failed copies among them: past the restart of the
\* reset that lost the service file no process of this machine knows its node.
THEOREM LostFileIsSilent == Spec => []LostFileMeansSilence
<1>1. StartInv => LostFileMeansSilence
  BY DEF StartInv, SilenceInv, LostFileMeansSilence, DiscoveryInv, FoundInv
<1> QED  BY <1>1, StartInvariant, PTL

\* communicate.py keeps the contract of RequestReply with the engine, for any
\* number of requests open at once and through every end of the process, with and
\* without run().
THEOREM ContractKept == Spec \/ BesideSpec => RepliesKeepContract
<1>1. Init => Contract!Init
  BY CommsInit DEF Init, Contract!Init, OpenRequests, Answered
<1>2. ASSUME CommsTypeOK, CommsStep
      PROVE  [Contract!Next]_<<OpenRequests, Answered>>
  BY <1>2, CommsImplements
<1>3. StartInv /\ [Next]_startVars => [Contract!Next]_<<OpenRequests, Answered>>
  BY <1>2, StepsOfTheParts DEF StartInv, CommsStep, startVars
<1>4. ButtonInv /\ CommsTypeOK /\ [BesideRun]_startVars
        => [Contract!Next]_<<OpenRequests, Answered>>
  BY <1>2, StepsBesideRun DEF CommsStep, startVars
<1>5. Spec => [][Contract!Next]_<<OpenRequests, Answered>>
  BY <1>3, StartInvariant, PTL DEF Spec
<1>6. BesideSpec => [][Contract!Next]_<<OpenRequests, Answered>>
  BY <1>4, BesideInvariant, PTL DEF BesideSpec
<1> QED
  BY <1>1, <1>5, <1>6, PTL
     DEF Spec, BesideSpec, RepliesKeepContract, Contract!Spec, OpenRequests, Answered
=============================================================================

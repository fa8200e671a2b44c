------------------------------ MODULE PowerButton ------------------------------
(***************************************************************************)
(* powerbtn-custom-handler.sh, which acpid runs once per press, and the    *)
(* service file and the power state it works on.  Scripts of several       *)
(* presses run side by side and end with the machine.                      *)
(***************************************************************************)
CONSTANT Press

VARIABLES
    power,    \* "on", or how the machine went down: "restarting", "halted", "cut"
    script,   \* where the script of each press is
    service,  \* cuems.service: "role", "firstrun" or "missing", also when unusable
    halt,     \* the scheduled shutdown: "none", "fresh", or "due" after its minute
    spoilt    \* history: a cp failed, or the machine went down before it

buttonVars == <<power, script, service, halt, spoilt>>

InitButton ==
    /\ power = "on" /\ script = [p \in Press |-> "none"]
    /\ service = "role" /\ halt = "none" /\ spoilt = FALSE

Up == power = "on"

Step(p, from, to) == Up /\ script[p] = from /\ script' = [script EXCEPT ![p] = to]

At(places) == \E p \in Press : script[p] \in places

\* A press: the show lock is looked at first, this once.  The player of the
\* show, which is external, makes and removes it.
Push(p) ==
    /\ \E show \in BOOLEAN : Step(p, "none", IF show THEN "end" ELSE "search")
    /\ UNCHANGED <<power, service, halt, spoilt>>

\* pgrep: is the waiter of another press running?
Search(p) ==
    /\ Step(p, "search", IF At({"wait"}) THEN "cancel" ELSE "start")
    /\ UNCHANGED <<power, service, halt, spoilt>>

\* nohup cuems-power-button-waiter.sh
StartWaiter(p) ==
    Step(p, "start", "wait") /\ UNCHANGED <<power, service, halt, spoilt>>

\* The waiter's three seconds are over: shutdown -h +1.
ScheduleHalt(p) ==
    /\ Step(p, "wait", "end")
    /\ halt' = "fresh"
    /\ UNCHANGED <<power, service, spoilt>>

\* Variant with a bug: the scheduled shutdown is left alone.
CancelNothing(p) ==
    /\ Step(p, "cancel", "remove")
    /\ UNCHANGED <<power, service, halt, spoilt>>
\* shutdown -c
CancelHalt(p) ==
    /\ Step(p, "cancel", "remove")
    /\ halt' = "none"
    /\ UNCHANGED <<power, service, spoilt>>

\* Variant with a bug: cp first, then rm.
RemoveLast(p) ==
    /\ Step(p, "remove", "sleep")
    /\ service' = "missing"
    /\ UNCHANGED <<power, halt, spoilt>>
\* Variant with a bug: a file that is there is not replaced.
KeepFile(p) ==
    /\ Step(p, "remove", IF service = "missing" THEN "copy" ELSE "sleep")
    /\ UNCHANGED <<power, service, halt, spoilt>>
\* rm, which may fail unnoticed.
RemoveFile(p) ==
    /\ Step(p, "remove", "copy")
    /\ service' \in {"missing", service}
    /\ UNCHANGED <<power, halt, spoilt>>

\* cp: without a template, or on a full disk, it leaves what was there or nothing
\* of use, and the script goes on as if it had worked.
CopyFirstRun(p) ==
    /\ Step(p, "copy", "sleep")
    /\ \/ service' = "firstrun" /\ spoilt' = FALSE
       \/ service' \in {"missing", service} /\ spoilt' = TRUE
    /\ UNCHANGED <<power, halt>>

\* The machine goes down with everything that runs on it.
Down(how) ==
    /\ Up /\ power' = how /\ halt' = "none"
    /\ script' = [p \in Press |-> IF script[p] = "none" THEN "none" ELSE "end"]
    /\ spoilt' = (spoilt \/ At({"copy"}))
    /\ UNCHANGED service

\* Variant with a bug: shutdown -r +1, which a shutdown -c may call off again.
RestartLater(p) ==
    /\ Step(p, "sleep", "end")
    /\ halt' = "fresh"
    /\ UNCHANGED <<power, service, spoilt>>
\* sleep 1, shutdown -r now
Restart(p) == script[p] = "sleep" /\ Down("restarting")

\* The minute of a scheduled shutdown passes: not within the second that a script
\* takes from its shutdown -c to its shutdown -r now.
MinutePasses ==
    /\ Up /\ halt = "fresh" /\ ~At({"remove", "copy", "sleep"})
    /\ halt' = "due"
    /\ UNCHANGED <<power, script, service, spoilt>>

HaltFires == halt = "due" /\ Down("halted")

LosePower == Down("cut")

PowerOn == ~Up /\ power' = "on" /\ UNCHANGED <<script, service, halt, spoilt>>

\* The scripts, while the machine is on.
RunScript ==
    \E p \in Press :
        \/ Search(p) \/ StartWaiter(p) \/ ScheduleHalt(p)
        \/ CancelHalt(p) \/ RemoveFile(p) \/ CopyFirstRun(p)

\* And the last command of a reset, with which they all end.
RunButton == RunScript \/ \E p \in Press : Restart(p)

-----------------------------------------------------------------------------
ButtonTypeOK ==
    /\ power \in {"on", "restarting", "halted", "cut"}
    /\ script \in [Press -> {"none", "search", "start", "wait", "cancel",
                             "remove", "copy", "sleep", "end"}]
    /\ service \in {"role", "firstrun", "missing"}
    /\ halt \in {"none", "fresh", "due"} /\ spoilt \in BOOLEAN

\* Presses in any number and order leave a service file, unless a cp failed or the
\* machine went down in the moment between the rm and the cp of one of them.
LostFileHasReason == service = "missing" => spoilt \/ At({"copy"})

\* README.md, Power-button reset: a machine that a reset restarts comes up with
\* the first-run file, also when another reset is half done or another press has
\* scheduled a halt; but for the same two reasons.
RestartsFirstRun == power = "restarting" => service = "firstrun" \/ spoilt

\* A reset that has called off the scheduled shutdown ends in a restart, unless
\* the power is cut: no shutdown that the waiter of the first press schedules
\* after it gets there before.
ResetRestarts ==
    \A p \in Press : script[p] = "remove" ~> power \in {"restarting", "cut"}
=============================================================================

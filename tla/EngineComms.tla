------------------------------ MODULE EngineComms ------------------------------
(***************************************************************************)
(* The communications thread of communicate.py: an event loop that runs    *)
(* the task of engine_listener and, scheduled by engine_callback, one      *)
(* coroutine respond_to_engine per answer.  Communicator, of cuemsutils,   *)
(* is external: responder_get_request waits for one message, decodes it    *)
(* and calls the callback.  What the callback does to the map is NodeConf. *)
(***************************************************************************)
CONSTANT Request

VARIABLES
    loop,    \* the thread: "off", "connect", "listen", "deaf", "stopped"
    stop,    \* stop_requested
    state    \* of each request: "unsent", a Kind while it waits to be read,
             \* "due", "answered", "ignored" or "lost"

commsVars == <<loop, stop, state>>

\* "other" is a message whose action is not nodelist_modify, "garbled" one
\* that responder_get_request cannot decode.
Kind == {"modify", "other", "garbled"}

InitComms ==
    /\ loop = "off" /\ stop = FALSE
    /\ state = [r \in Request |-> "unsent"]

Becomes(r, from, to) == state[r] = from /\ state' = [state EXCEPT ![r] = to]

\* set_comms, the first thing start() does.
StartThread == loop = "off" /\ loop' = "connect" /\ stop' = FALSE /\ UNCHANGED state

\* responder_connect
Connect == loop = "connect" /\ loop' = "listen" /\ UNCHANGED <<stop, state>>

\* The engine, which needs a socket to send to.
Send(r) ==
    /\ loop \in {"listen", "deaf"}
    /\ \E kind \in Kind : Becomes(r, "unsent", kind)
    /\ UNCHANGED <<loop, stop>>

\* After a message engine_listener looks at stop_requested.
Listening == IF stop THEN "deaf" ELSE "listen"

\* Variant with a bug: a refused request is not answered.
TakeModifyOrDrop(r) ==
    /\ loop = "listen"
    /\ Becomes(r, "modify", "due") \/ Becomes(r, "modify", "ignored")
    /\ loop' = Listening /\ UNCHANGED stop
\* The callback adopts, refuses or fails; each way it schedules the answer.
TakeModify(r) ==
    /\ loop = "listen" /\ Becomes(r, "modify", "due")
    /\ loop' = Listening /\ UNCHANGED stop

\* The callback knows no such action and returns.
TakeOther(r) ==
    /\ loop = "listen" /\ Becomes(r, "other", "ignored")
    /\ loop' = Listening /\ UNCHANGED stop

\* The exception ends the task; run_forever goes on without it.
TakeGarbled(r) ==
    /\ loop = "listen" /\ Becomes(r, "garbled", "ignored")
    /\ loop' = "deaf" /\ UNCHANGED stop

\* Variant with a bug: the context is kept in the thread and not passed on, so
\* that the answer goes to a request whose message came later.
RespondToLatest(r) ==
    /\ loop \in {"listen", "deaf"} /\ state[r] = "due"
    /\ \E q \in Request :
          /\ state[q] \in {"due", "ignored"}
          /\ state' = [state EXCEPT ![r] = "lost", ![q] = "answered"]
    /\ UNCHANGED <<loop, stop>>
\* respond_to_engine.  Nobody looks at the future: an asend that fails is lost.
Respond(r) ==
    /\ loop \in {"listen", "deaf"}
    /\ Becomes(r, "due", "answered") \/ Becomes(r, "due", "lost")
    /\ UNCHANGED <<loop, stop>>

\* stop(), which nothing in the repository calls, and the end of the loop.
RequestStop == loop \in {"listen", "deaf"} /\ stop' = TRUE /\ UNCHANGED <<loop, state>>

StopLoop == stop /\ loop # "off" /\ loop' = "stopped" /\ UNCHANGED <<stop, state>>

\* The thread is a daemon: it ends with the process.
EndThread ==
    /\ loop' = "off" /\ stop' = FALSE
    /\ state' = [r \in Request |->
                    IF state[r] \in Kind \cup {"due"} THEN "lost" ELSE state[r]]

\* What the event loop runs.
RunLoop ==
    \/ Connect \/ StopLoop
    \/ \E r \in Request : TakeModify(r) \/ TakeOther(r) \/ TakeGarbled(r) \/ Respond(r)

Engine == \E r \in Request : Send(r)

-----------------------------------------------------------------------------
CommsTypeOK ==
    /\ loop \in {"off", "connect", "listen", "deaf", "stopped"}
    /\ stop \in BOOLEAN
    /\ state \in [Request -> Kind \cup
                     {"unsent", "due", "answered", "ignored", "lost"}]

\* What the engine waits for, and what it has got.
Contract == INSTANCE RequestReply
    WITH open <- {r \in Request : state[r] \in Kind \cup {"due"}},
         answered <- {r \in Request : state[r] = "answered"}

\* The engine gets no answer it did not ask for, and none to another request than
\* the one that was handled, however many are taken before the first is answered
\* and whatever ends the listener or the loop meanwhile.
RepliesKeepContract == Contract!Spec

\* An adoption request is answered as long as the thread listens.
ModifyIsAnswered ==
    \A r \in Request :
        state[r] = "modify" ~> state[r] \in {"answered", "lost"} \/ loop # "listen"
=============================================================================

------------------------------ MODULE MCNodeConf ------------------------------
EXTENDS NodeConf, TLC

CONSTANTS a, b, c, ua, ub, uc

\* Each node its own uuid, or all the uuid of the shipped templates.
OwnUuid == a :> ua @@ b :> ub @@ c :> uc
MCUuidOf == [m \in Mac |-> OwnUuid[m]]

Bounds(boots, requests, changes) ==
    [kind \in {"boot", "request", "change"} |->
        CASE kind = "boot" -> boots
          [] kind = "request" -> requests
          [] kind = "change" -> changes]
\* Two starts with one request each; two starts with two role changes; one start
\* with one request and with two.
Restarts == Bounds(2, 1, 0)
Changes  == Bounds(2, 0, 2)
OneStart == Bounds(1, 1, 0)
Retry    == Bounds(1, 2, 0)
=============================================================================

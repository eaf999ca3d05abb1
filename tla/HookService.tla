---------------------------- MODULE HookService ----------------------------
(***************************************************************************)
(* What StartHook, StopHook and the DLL's automatic worker promise to the  *)
(* processes that load the extension, without threads, locks or handles.  *)
(*                                                                         *)
(* The service is                                                          *)
(*   unloaded   the DLL has not been attached;                             *)
(*   auto       a worker runs but the object hooks are not installed yet;  *)
(*   on         a worker runs and the hooks are installed;                 *)
(*   off        no worker, no hooks, no registration state;                *)
(*   changing   anything in between: some, but not all, of it is there;    *)
(*   detached   the process is being torn down.                            *)
(***************************************************************************)

CONSTANT Callers          \* the threads that call StartHook and StopHook

VARIABLES
    service,              \* one of the six states above
    calling,              \* the call each caller has in progress, or "none"
    answer                \* what its last call returned

vars == <<service, calling, answer>>

States == {"unloaded", "auto", "on", "off", "changing", "detached"}

Calling(op) == \E c \in Callers : calling[c] = op

Init ==
    /\ service = "unloaded"
    /\ calling = [c \in Callers |-> "none"]
    /\ answer = [c \in Callers |-> FALSE]

Load ==
    /\ service = "unloaded"
    /\ service' \in {"auto", "off"}
    /\ UNCHANGED <<calling, answer>>

Unload ==
    /\ service # "unloaded"
    /\ service' = "detached"
    /\ UNCHANGED <<calling, answer>>

Invoke(c, op) ==
    /\ service \notin {"unloaded", "detached"}
    /\ calling[c] = "none"
    /\ calling' = [calling EXCEPT ![c] = op]
    /\ UNCHANGED <<service, answer>>

\* The automatic worker, or a StartHook that comes first, installs the hooks.
BecomeReady ==
    /\ service = "auto"
    /\ service' = "on"
    /\ UNCHANGED <<calling, answer>>

\* The automatic worker may give up by itself; a service that is on is only
\* ever taken down by a StopHook.
TakeDown ==
    /\ \/ service = "auto"
       \/ service = "on" /\ Calling("stop")
    /\ service' = "changing"
    /\ UNCHANGED <<calling, answer>>

\* A service that is off stays off until somebody calls StartHook.
BringUp ==
    /\ service = "off"
    /\ Calling("start")
    /\ service' = "changing"
    /\ UNCHANGED <<calling, answer>>

FinishUp ==
    /\ service = "changing"
    /\ Calling("start")
    /\ service' = "on"
    /\ UNCHANGED <<calling, answer>>

FinishDown ==
    /\ service = "changing"
    /\ service' = "off"
    /\ UNCHANGED <<calling, answer>>

\* StartHook answers TRUE exactly when it leaves the service on and FALSE
\* exactly when it leaves it off; StopHook always answers TRUE and leaves it off.
Return(c) ==
    /\ \/ calling[c] = "start" /\ service \in {"on", "off"}
       \/ calling[c] = "stop"  /\ service = "off"
    /\ answer' = [answer EXCEPT ![c] = calling[c] = "stop" \/ service = "on"]
    /\ calling' = [calling EXCEPT ![c] = "none"]
    /\ UNCHANGED service

Next ==
    \/ Load
    \/ Unload
    \/ BecomeReady
    \/ TakeDown
    \/ BringUp
    \/ FinishUp
    \/ FinishDown
    \/ \E c \in Callers : Return(c) \/ \E op \in {"start", "stop"} : Invoke(c, op)

Spec == Init /\ [][Next]_vars
=============================================================================

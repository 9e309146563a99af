----------------------------- MODULE Lifecycle -----------------------------
(***************************************************************************)
(* What a transport state machine promises the machine that owns it (spec *)
(* 4.1 and 5): started from idle it runs until it finishes on its own,    *)
(* raising its result once (OK or ERROR), or until its owner stops it; a  *)
(* stop is always followed by exactly one STOPPED, after which the        *)
(* machine is idle and may be started again.                              *)
(*                                                                         *)
(*   life    the machine as its owner sees it through nn_fsm_isidle:      *)
(*           "stopping" lasts until its STOPPED event has been taken;     *)
(*   signal  the event it raised that its owner has not taken yet.        *)
(***************************************************************************)
VARIABLES life, signal

vars == <<life, signal>>

LifeStates == {"idle", "running", "done", "stopping"}
Signals == {"none", "result", "stopped"}

TypeOK == life \in LifeStates /\ signal \in Signals

Init == life = "idle" /\ signal = "none"

(* The owner starts an idle machine (nn_fsm_start). *)
Start ==
    /\ life = "idle" /\ signal = "none"
    /\ life' = "running" /\ UNCHANGED signal

(* The machine ends its work on its own and raises its result. *)
Finish ==
    /\ life = "running" /\ signal = "none"
    /\ life' = "done" /\ signal' = "result"

(* The owner takes the result. *)
TakeResult ==
    /\ signal = "result"
    /\ signal' = "none" /\ UNCHANGED life

(* The owner stops a started machine (nn_fsm_stop), taking any result it  *)
(* raised first; a machine with nothing left to wait for raises STOPPED   *)
(* at once.                                                               *)
Stop ==
    /\ life \in {"running", "done"}
    /\ life' = "stopping" /\ signal' \in {"none", "stopped"}

(* A stopping machine has wound down its children and raises STOPPED. *)
RaiseStopped ==
    /\ life = "stopping" /\ signal = "none"
    /\ signal' = "stopped" /\ UNCHANGED life

(* The owner takes STOPPED: the machine is idle. *)
Stopped ==
    /\ signal = "stopped"
    /\ life' = "idle" /\ signal' = "none"

Next == Start \/ Finish \/ TakeResult \/ Stop \/ RaiseStopped \/ Stopped

(* A stop is not left pending forever. *)
Spec == Init /\ [][Next]_vars /\ WF_vars(RaiseStopped) /\ WF_vars(Stopped)
=============================================================================

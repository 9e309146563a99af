--------------------------- MODULE AcceptSession ---------------------------
(***************************************************************************)
(* nn_artipc (src/transports/rtipc/artipc.c): the machine that accepts one *)
(* connection on the bind endpoint's listener and owns it afterwards.      *)
(*                                                                         *)
(* It borrows the listener for a single accept, gives it back on success   *)
(* (raising ACCEPTED to the bind endpoint) or on stop, starts a session    *)
(* over the accepted socket, tears it down when the session fails and then *)
(* raises ERROR, and answers a stop with the cascade session -> socket ->  *)
(* listener -> STOPPED.                                                    *)
(*                                                                         *)
(* Several artipc objects live at once, so the state of one is a record in *)
(* the function ar over the slots Slots that nn_alloc may hand out.  The   *)
(* session each one owns is abstracted by its Lifecycle (slife); what the  *)
(* session does inside is the subject of Session.tla.  Raised events go    *)
(* to the worker's FIFO queue and are delivered by BindEndpoint.           *)
(***************************************************************************)
EXTENDS Integers, Sequences

CONSTANT Slots

ASSUME Slots \subseteq Nat \ {0}

(* No artipc: the listener is with brtipc, or brtipc accepts on none. *)
NoSlot == 0

VARIABLES
    ar,     \* ar[a]: the artipc object in slot a
    lis,    \* the listening socket: its state, and the artipc it is lent to
    queue,  \* raised events not yet delivered: [to, slot, src, type]
    stats,  \* endpoint statistics touched by artipc and brtipc
    fault   \* "none", or the assertion or bad-event abort that ended the process

ArStates == {"IDLE", "ACCEPTING", "ACTIVE", "STOPPING_SRTIPC", "STOPPING_USOCK",
             "DONE", "STOPPING_SRTIPC_FINAL", "STOPPING"}

(* nn_artipc_init: a fresh object; its sockets are idle, it has no listener. *)
ArInit == [fsm |-> "idle", state |-> "IDLE", haslis |-> FALSE,
           us |-> "idle", usowner |-> "artipc", slife |-> "idle"]

Fail(w, why) == IF w.fault = "none" THEN [w EXCEPT !.fault = why] ELSE w

Stat(w, name, delta) == [w EXCEPT !.stats[name] = @ + delta]

(* nn_fsm_raise / nn_fsm_stopped: the event is queued for its receiver. *)
(* `to` is the receiving machine, "artipc" or "brtipc"; slot a is the    *)
(* artipc that receives or sends it.                                      *)
Raise(w, to, a, src, type) ==
    [w EXCEPT !.queue = Append(@, [to |-> to, slot |-> a, src |-> src, type |-> type])]

StoppedQueued(w, to, a) ==
    \E i \in 1 .. Len(w.queue) :
        w.queue[i] = [to |-> to, slot |-> a, src |-> IF to = "brtipc" THEN "artipc" ELSE "srtipc",
                      type |-> "STOPPED"]

-----------------------------------------------------------------------------
(* The session of slot a, seen through its Lifecycle.                     *)

(* nn_srtipc_start: the session takes the accepted socket. *)
SrtipcStart(w, a) == [w EXCEPT !.ar[a].slife = "running", !.ar[a].usowner = "srtipc"]

(* nn_srtipc_stop: a session with nothing to wait for hands the socket    *)
(* back and raises STOPPED at once; otherwise it does so later.  Only a   *)
(* session still in its handshake waits (for the streamhdr's timer): one  *)
(* that is DONE has its streamhdr idle or DONE with the timer stopped, so *)
(* its STOPPED is raised in the same drain (srtipc.c:187-199).            *)
SrtipcStop(w, a, immediate) ==
    IF w.ar[a].slife \in {"running", "done"}
    THEN IF immediate \/ w.ar[a].slife = "done"
         THEN Raise([w EXCEPT !.ar[a].slife = "stopping", !.ar[a].usowner = "artipc"],
                    "artipc", a, "srtipc", "STOPPED")
         ELSE [w EXCEPT !.ar[a].slife = "stopping"]
    ELSE w

(* nn_srtipc_isidle: idle, and its STOPPED taken. *)
SrtipcIsIdle(w, a) == w.ar[a].slife = "idle"

(* nn_srtipc_term: asserts the session's state is IDLE, which it is once *)
(* it has raised STOPPED, whether or not that event was taken.           *)
SrtipcTerm(w, a) ==
    IF w.ar[a].slife = "idle" \/ StoppedQueued(w, "artipc", a) THEN w
    ELSE Fail(w, "srtipc_assert_state")

(* nn_usock_stop on the accepted socket; an idle socket stays idle. *)
UsockStop(w, a) ==
    IF w.ar[a].us = "idle" THEN w ELSE [w EXCEPT !.ar[a].us = "stopping"]

-----------------------------------------------------------------------------
(* IDLE/NN_FSM_START: post an accept on the listener. *)
ArtipcOnStart(w, a) == [w EXCEPT !.ar[a].us = "accepting", !.ar[a].state = "ACCEPTING"]

(* nn_artipc_start: take the listener from its owner and start. *)
ArtipcStart(w, a) ==
    IF w.ar[a].state # "IDLE" THEN Fail(w, "artipc_assert_state")
    ELSE ArtipcOnStart([w EXCEPT !.ar[a].haslis = TRUE, !.lis.lent = a,
                                 !.ar[a].fsm = "active"], a)

(* nn_fsm_isidle on the artipc: idle and its STOPPED taken by brtipc. *)
ArtipcIsIdle(w, a) == w.ar[a].fsm = "idle" /\ ~StoppedQueued(w, "brtipc", a)

(* Mutation: the listener is not handed back to its owner on stop. *)
ArtipcFinalStopKeepListener(w, a) ==
    IF w.ar[a].us # "idle" THEN w
    ELSE Raise([w EXCEPT !.ar[a].haslis = FALSE, !.ar[a].state = "IDLE",
                         !.ar[a].fsm = "idle"],
               "brtipc", a, "artipc", "STOPPED")

(* STOPPING: once the socket is idle, return a borrowed listener to its   *)
(* owner and raise STOPPED.                                               *)
ArtipcFinalStop(w, a) ==
    IF w.ar[a].us # "idle" THEN w
    ELSE Raise([w EXCEPT !.lis.lent = IF w.ar[a].haslis THEN NoSlot ELSE @,
                         !.ar[a].haslis = FALSE, !.ar[a].state = "IDLE",
                         !.ar[a].fsm = "idle"],
               "brtipc", a, "artipc", "STOPPED")

(* Mutation: the socket is stopped without waiting for the session. *)
ArtipcShutdownNoWait(w, a, type, immediate) ==
    LET w1 == IF type = "STOP"
              THEN [IF SrtipcIsIdle(w, a) THEN w
                    ELSE SrtipcStop(Stat(w, "dropped", 1), a, immediate)
                    EXCEPT !.ar[a].state = "STOPPING_SRTIPC_FINAL"]
              ELSE w
        w2 == IF w1.ar[a].state = "STOPPING_SRTIPC_FINAL"
              THEN UsockStop([w1 EXCEPT !.ar[a].state = "STOPPING"], a)
              ELSE w1
    IN  CASE w2.ar[a].state = "STOPPING" -> ArtipcFinalStop(w2, a)
          [] OTHER -> Fail(w2, "artipc_bad_state")

(* Mutation: the connection is counted dropped whether or not a session *)
(* is still there to drop.                                               *)
ArtipcShutdownAlwaysDropped(w, a, type, immediate) ==
    LET w1 == IF type = "STOP"
              THEN [SrtipcStop(Stat(w, "dropped", 1), a, immediate)
                    EXCEPT !.ar[a].state = "STOPPING_SRTIPC_FINAL"]
              ELSE w
        w2 == IF w1.ar[a].state = "STOPPING_SRTIPC_FINAL" /\ SrtipcIsIdle(w1, a)
              THEN UsockStop([w1 EXCEPT !.ar[a].state = "STOPPING"], a)
              ELSE w1
    IN  CASE w2.ar[a].state = "STOPPING_SRTIPC_FINAL" -> w2
          [] w2.ar[a].state = "STOPPING"              -> ArtipcFinalStop(w2, a)
          [] OTHER -> Fail(w2, "artipc_bad_state")

(* nn_artipc_shutdown: on STOP drop a live session and wait for it, stop  *)
(* the socket and wait for it, then finish; every event that reaches a    *)
(* stopping artipc re-runs it.                                            *)
ArtipcShutdown(w, a, type, immediate) ==
    LET w1 == IF type = "STOP"
              THEN [IF SrtipcIsIdle(w, a) THEN w
                    ELSE SrtipcStop(Stat(w, "dropped", 1), a, immediate)
                    EXCEPT !.ar[a].state = "STOPPING_SRTIPC_FINAL"]
              ELSE w
        w2 == IF w1.ar[a].state = "STOPPING_SRTIPC_FINAL" /\ SrtipcIsIdle(w1, a)
              THEN UsockStop([w1 EXCEPT !.ar[a].state = "STOPPING"], a)
              ELSE w1
    IN  CASE w2.ar[a].state = "STOPPING_SRTIPC_FINAL" -> w2
          [] w2.ar[a].state = "STOPPING"              -> ArtipcFinalStop(w2, a)
          [] OTHER -> Fail(w2, "artipc_bad_state")

(* nn_artipc_stop: nn_fsm_stop, a no-op unless the machine is active. *)
ArtipcStop(w, a, immediate) ==
    IF w.ar[a].fsm = "active"
    THEN ArtipcShutdown([w EXCEPT !.ar[a].fsm = "stopping"], a, "STOP", immediate)
    ELSE w

-----------------------------------------------------------------------------
(* nn_artipc_handler, state by state. *)

(* ACCEPTING: a connection arrived (hand the listener back, tell brtipc,  *)
(* start the session over it), or the accept failed (accept again).       *)
ArtipcAccepting(w, a, src, type) ==
    CASE src = "usock" /\ type = "ACCEPTED" ->
            LET w1 == Raise([w EXCEPT !.lis.lent = NoSlot, !.ar[a].haslis = FALSE],
                            "brtipc", a, "artipc", "ACCEPTED")
            IN  Stat(SrtipcStart([w1 EXCEPT !.ar[a].us = "active",
                                            !.ar[a].state = "ACTIVE"], a),
                     "accepted", 1)
      [] src = "listener" /\ type = "ACCEPT_ERROR" -> Stat(w, "accept_errors", 1)
      [] OTHER -> Fail(w, "artipc_bad_event")

(* ACTIVE: the session failed; stop it. *)
ArtipcActive(w, a, src, type, immediate) ==
    IF src = "srtipc" /\ type = "ERROR"
    THEN Stat(SrtipcStop([w EXCEPT !.ar[a].state = "STOPPING_SRTIPC"], a, immediate),
              "broken", 1)
    ELSE Fail(w, "artipc_bad_event")

(* STOPPING_SRTIPC: the session stopped; stop the socket. *)
ArtipcStoppingSrtipc(w, a, src, type) ==
    IF src = "srtipc" /\ type = "STOPPED"
    THEN UsockStop([w EXCEPT !.ar[a].state = "STOPPING_USOCK"], a)
    ELSE Fail(w, "artipc_bad_event")

(* Mutation: the connection is reported without the artipc being DONE. *)
ArtipcStoppingUsockNoDone(w, a, src, type) ==
    CASE src = "usock" /\ type = "SHUTDOWN" -> w
      [] src = "usock" /\ type = "STOPPED" -> Raise(w, "brtipc", a, "artipc", "ERROR")
      [] OTHER -> Fail(w, "artipc_bad_event")

(* STOPPING_USOCK: the socket stopped; report the connection done. *)
ArtipcStoppingUsock(w, a, src, type) ==
    CASE src = "usock" /\ type = "SHUTDOWN" -> w
      [] src = "usock" /\ type = "STOPPED" ->
            Raise([w EXCEPT !.ar[a].state = "DONE"], "brtipc", a, "artipc", "ERROR")
      [] OTHER -> Fail(w, "artipc_bad_event")

ArtipcHandler(w, a, src, type, immediate) ==
    CASE w.ar[a].state = "ACCEPTING"       -> ArtipcAccepting(w, a, src, type)
      [] w.ar[a].state = "ACTIVE"          -> ArtipcActive(w, a, src, type, immediate)
      [] w.ar[a].state = "STOPPING_SRTIPC" -> ArtipcStoppingSrtipc(w, a, src, type)
      [] w.ar[a].state = "STOPPING_USOCK"  -> ArtipcStoppingUsock(w, a, src, type)
      [] OTHER -> Fail(w, "artipc_bad_state")

(* nn_fsm_feed: a stopping artipc's events go to its shutdown handler. *)
ArtipcFeed(w, a, src, type, immediate) ==
    IF w.ar[a].fsm = "stopping" THEN ArtipcShutdown(w, a, type, immediate)
    ELSE ArtipcHandler(w, a, src, type, immediate)
=============================================================================

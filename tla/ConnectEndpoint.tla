-------------------------- MODULE ConnectEndpoint --------------------------
(***************************************************************************)
(* nn_crtipc (src/transports/rtipc/crtipc.c): the connecting endpoint.    *)
(* It opens a socket, connects, runs one session over the connection,     *)
(* and after the connection fails waits on a backoff timer and connects   *)
(* again, until the user stops it.                                        *)
(*                                                                         *)
(* The session (nn_srtipc) is represented by the Lifecycle contract that  *)
(* Session.tla shows srtipc implements: the endpoint starts and stops it, *)
(* it may fail on its own (ERROR) and it answers every stop with one      *)
(* STOPPED.  The socket and the backoff timer are modelled from spec 4.1  *)
(* and 4.6.  As in Session.tla, each handler runs to completion and the   *)
(* user acts only when no event of the session is waiting to be taken.    *)
(***************************************************************************)
EXTENDS Integers

CONSTANTS
    IvlOptions,     \* the (NN_RECONNECT_IVL, NN_RECONNECT_IVL_MAX) pairs a user may set
    MaxConnects     \* bound on the connections the endpoint opens

ASSUME IvlOptions \subseteq [ivl : Nat, max : Nat] /\ IvlOptions # {}
ASSUME MaxConnects \in Nat \ {0}

VARIABLES
    opt,        \* the socket options read by nn_crtipc_create
    cr,         \* crtipc: [fsm, state]
    us,         \* the endpoint's socket: [state, owner]
    retry,      \* nn_backoff: [state, cur, next]
    slife,      \* the session, as its owner sees it (Lifecycle)
    ssig,       \* the session's event not yet taken (Lifecycle)
    stats,      \* the endpoint statistics crtipc updates
    ended,      \* nn_epbase_stopped has been called
    destroyed,  \* the core has called nn_crtipc_destroy
    fault       \* which contract check aborted the process, or "none"

vars == <<opt, cr, us, retry, slife, ssig, stats, ended, destroyed, fault>>

Sess == INSTANCE Lifecycle WITH life <- slife, signal <- ssig

CrStates == {"IDLE", "CONNECTING", "ACTIVE", "STOPPING_SRTIPC", "STOPPING_USOCK",
             "WAITING", "STOPPING_BACKOFF", "STOPPING_SRTIPC_FINAL", "STOPPING"}

StatNames == {"inprogress", "established", "connect_errors", "broken", "dropped"}

-----------------------------------------------------------------------------
(* Handlers are operators on a record of the whole state. *)

W == [opt |-> opt, cr |-> cr, us |-> us, retry |-> retry, slife |-> slife,
      ssig |-> ssig, stats |-> stats, ended |-> ended, destroyed |-> destroyed,
      fault |-> fault]

Commit(w) ==
    /\ cr' = w.cr /\ us' = w.us /\ retry' = w.retry /\ slife' = w.slife
    /\ ssig' = w.ssig /\ stats' = w.stats /\ ended' = w.ended
    /\ destroyed' = w.destroyed /\ fault' = w.fault
    /\ UNCHANGED opt

Fail(w, why) == [w EXCEPT !.fault = why]

Stat(w, name, delta) == [w EXCEPT !.stats[name] = @ + delta]

MinOf(a, b) == IF a < b THEN a ELSE b

(* nn_crtipc_create: a zero maximum means "the initial interval". *)
IvlMax(o) == IF o.max = 0 THEN o.ivl ELSE o.max

(* nn_backoff_init: the first interval is the initial one, capped. *)
BackoffInit(o) == [state |-> "idle", cur |-> 0, next |-> MinOf(o.ivl, IvlMax(o))]

(* nn_backoff_start: wait `next`, then double it up to the maximum. *)
BackoffStart(w) ==
    [w EXCEPT !.retry = [state |-> "active", cur |-> w.retry.next,
                         next |-> MinOf(2 * w.retry.next, IvlMax(w.opt))]]

(* nn_backoff_stop: only a running backoff has anything to stop. *)
BackoffStop(w) ==
    IF w.retry.state = "active" THEN [w EXCEPT !.retry.state = "stopping"] ELSE w

(* nn_usock_stop: a socket that was never started is already idle. *)
UsockStop(w) ==
    IF w.us.state = "idle" THEN w ELSE [w EXCEPT !.us.state = "stopping"]

(* nn_srtipc_start: the session takes the connected socket. *)
SrtipcStart(w) == [w EXCEPT !.slife = "running", !.us.owner = "srtipc"]

(* nn_srtipc_stop: the session winds down (Lifecycle Stop); a session     *)
(* that is already stopping ignores it.  Only a session still in its      *)
(* handshake waits (for the streamhdr's timer): one that is DONE has its  *)
(* streamhdr idle or DONE with the timer stopped, so its STOPPED is       *)
(* raised in the same drain (srtipc.c:187-199).                           *)
SrtipcStop(w, immediate) ==
    IF w.slife \in {"running", "done"}
    THEN LET now == immediate \/ w.slife = "done"
         IN  [w EXCEPT !.slife = "stopping",
                       !.ssig = IF now THEN "stopped" ELSE "none",
                       !.us.owner = IF now THEN "crtipc" ELSE @]
    ELSE w

SrtipcIsIdle(w) == w.slife = "idle"

(* nn_srtipc_term: asserts the session's state is IDLE, which it is once *)
(* it has raised STOPPED, whether or not that event was taken.           *)
SrtipcTerm(w) ==
    IF w.slife = "idle" \/ w.ssig = "stopped" THEN w
    ELSE Fail(w, "srtipc_assert_state")

-----------------------------------------------------------------------------
(* nn_crtipc_start_connecting: open a socket (which may fail) and start   *)
(* connecting, or wait on the backoff timer and try again later.          *)
StartConnecting(w, ok) ==
    IF ok
    THEN Stat([w EXCEPT !.us.state = "connecting", !.cr.state = "CONNECTING"],
              "inprogress", 1)
    ELSE BackoffStart([w EXCEPT !.cr.state = "WAITING"])

(* nn_crtipc_shutdown: drop a live session, wait for it to be idle, stop  *)
(* the backoff and the socket, wait for both, then report the endpoint    *)
(* stopped.  Every event that reaches a stopping endpoint re-runs it.     *)
CrtipcFinalStop(w) ==
    IF w.cr.state = "STOPPING" /\ w.retry.state = "idle" /\ w.us.state = "idle"
    THEN [w EXCEPT !.cr = [fsm |-> "idle", state |-> "IDLE"], !.ended = TRUE]
    ELSE w

(* Mutation: the shutdown goes on without waiting for the session. *)
CrtipcShutdownNoWait(w) ==
    CrtipcFinalStop(
        IF w.cr.state = "STOPPING_SRTIPC_FINAL"
        THEN UsockStop(BackoffStop([w EXCEPT !.cr.state = "STOPPING"]))
        ELSE w)

(* Mutation: the shutdown leaves the backoff timer running. *)
CrtipcShutdownKeepBackoff(w) ==
    CrtipcFinalStop(
        IF w.cr.state = "STOPPING_SRTIPC_FINAL" /\ SrtipcIsIdle(w)
        THEN UsockStop([w EXCEPT !.cr.state = "STOPPING"])
        ELSE w)

CrtipcShutdown(w) ==
    CrtipcFinalStop(
        IF w.cr.state = "STOPPING_SRTIPC_FINAL" /\ SrtipcIsIdle(w)
        THEN UsockStop(BackoffStop([w EXCEPT !.cr.state = "STOPPING"]))
        ELSE w)

(* Mutation: the stop releases the in-progress count whatever the state. *)
CrtipcStopReleasing(w, immediate) ==
    LET w1 == IF SrtipcIsIdle(w) THEN w
              ELSE Stat(SrtipcStop(w, immediate), "dropped", 1)
    IN  CrtipcShutdown(Stat([w1 EXCEPT !.cr.fsm = "stopping",
                                       !.cr.state = "STOPPING_SRTIPC_FINAL"],
                            "inprogress", -1))

(* Mutation: the connection is counted dropped whether or not a session *)
(* is still there to drop.                                               *)
CrtipcStopAlwaysDropped(w, immediate) ==
    CrtipcShutdown([Stat(SrtipcStop(w, immediate), "dropped", 1)
                    EXCEPT !.cr.fsm = "stopping", !.cr.state = "STOPPING_SRTIPC_FINAL"])

(* nn_crtipc_stop on a running endpoint: nn_fsm_stop, then the shutdown   *)
(* handler's STOP branch.                                                 *)
CrtipcStop(w, immediate) ==
    LET w1 == IF SrtipcIsIdle(w) THEN w
              ELSE Stat(SrtipcStop(w, immediate), "dropped", 1)
    IN  CrtipcShutdown([w1 EXCEPT !.cr.fsm = "stopping",
                                  !.cr.state = "STOPPING_SRTIPC_FINAL"])

-----------------------------------------------------------------------------
(* nn_crtipc_handler, by the source of the event. *)

(* Mutation: a connected socket is not taken off the in-progress count. *)
CrtipcConnectingKeepInProgress(w, type) ==
    CASE type = "CONNECTED" ->
            Stat(SrtipcStart([w EXCEPT !.us.state = "active", !.cr.state = "ACTIVE"]),
                 "established", 1)
      [] type = "ERROR" ->
            Stat(Stat(UsockStop([w EXCEPT !.cr.state = "STOPPING_USOCK"]),
                      "inprogress", -1), "connect_errors", 1)
      [] OTHER -> Fail(w, "crtipc_bad_event")

(* CONNECTING: the connect completed (start the session over the socket)  *)
(* or failed (stop the socket before waiting).                            *)
CrtipcConnecting(w, type) ==
    CASE type = "CONNECTED" ->
            Stat(Stat(SrtipcStart([w EXCEPT !.us.state = "active",
                                            !.cr.state = "ACTIVE"]),
                      "inprogress", -1), "established", 1)
      [] type = "ERROR" ->
            Stat(Stat(UsockStop([w EXCEPT !.cr.state = "STOPPING_USOCK"]),
                      "inprogress", -1), "connect_errors", 1)
      [] OTHER -> Fail(w, "crtipc_bad_event")

(* Mutation: STOPPING_USOCK does not expect the socket's SHUTDOWN. *)
CrtipcStoppingUsockNoShutdown(w, type) ==
    IF type = "STOPPED" THEN BackoffStart([w EXCEPT !.cr.state = "WAITING"])
    ELSE Fail(w, "crtipc_bad_event")

(* STOPPING_USOCK: once the socket is stopped, wait before reconnecting. *)
CrtipcStoppingUsock(w, type) ==
    CASE type = "SHUTDOWN" -> w
      [] type = "STOPPED"  -> BackoffStart([w EXCEPT !.cr.state = "WAITING"])
      [] OTHER             -> Fail(w, "crtipc_bad_event")

(* NN_CRTIPC_SRC_USOCK *)
CrtipcOnUsock(w, type) ==
    CASE w.cr.state = "CONNECTING"     -> CrtipcConnecting(w, type)
      [] w.cr.state = "STOPPING_USOCK" -> CrtipcStoppingUsock(w, type)
      [] OTHER                         -> Fail(w, "crtipc_bad_event")

(* Mutation: the socket is not stopped once the session has stopped. *)
CrtipcOnSrtipcNoUsockStop(w, type, immediate) ==
    CASE w.cr.state = "ACTIVE" /\ type = "ERROR" ->
            Stat(SrtipcStop([w EXCEPT !.cr.state = "STOPPING_SRTIPC"], immediate),
                 "broken", 1)
      [] w.cr.state = "STOPPING_SRTIPC" /\ type = "STOPPED" ->
            [w EXCEPT !.cr.state = "STOPPING_USOCK"]
      [] OTHER -> Fail(w, "crtipc_bad_event")

(* NN_CRTIPC_SRC_SRTIPC *)
CrtipcOnSrtipc(w, type, immediate) ==
    CASE w.cr.state = "ACTIVE" /\ type = "ERROR" ->
            Stat(SrtipcStop([w EXCEPT !.cr.state = "STOPPING_SRTIPC"], immediate),
                 "broken", 1)
      [] w.cr.state = "STOPPING_SRTIPC" /\ type = "STOPPED" ->
            UsockStop([w EXCEPT !.cr.state = "STOPPING_USOCK"])
      [] OTHER -> Fail(w, "crtipc_bad_event")

(* NN_CRTIPC_SRC_RECONNECT_TIMER *)
CrtipcOnBackoff(w, type, ok) ==
    CASE w.cr.state = "WAITING" /\ type = "TIMEOUT" ->
            BackoffStop([w EXCEPT !.cr.state = "STOPPING_BACKOFF"])
      [] w.cr.state = "STOPPING_BACKOFF" /\ type = "STOPPED" ->
            StartConnecting(w, ok)
      [] OTHER -> Fail(w, "crtipc_bad_event")

(* nn_crtipc_destroy: the terms of the session, the backoff, the socket *)
(* and the machine each assert that their object is idle.               *)
CrtipcDestroy(w) ==
    LET w1 == SrtipcTerm(w)
    IN  IF w1.retry.state # "idle" \/ w1.us.state # "idle" \/ w1.cr.fsm # "idle"
        THEN Fail(w1, "crtipc_term_assert")
        ELSE w1

(* nn_fsm_feed: a stopping endpoint's events go to its shutdown handler. *)
Feed(w, handler) == IF w.cr.fsm = "stopping" THEN CrtipcShutdown(w) ELSE handler

-----------------------------------------------------------------------------
Init ==
    /\ opt \in IvlOptions
    /\ cr = [fsm |-> "idle", state |-> "IDLE"]
    /\ us = [state |-> "idle", owner |-> "crtipc"]
    /\ retry = BackoffInit(opt)
    /\ slife = "idle" /\ ssig = "none"
    /\ stats = [s \in StatNames |-> 0]
    /\ ended = FALSE
    /\ destroyed = FALSE
    /\ fault = "none"

(* Nothing of the session waits to be taken and nothing has failed. *)
Quiet == ssig = "none" /\ fault = "none"

(* A socket may be opened while fewer than MaxConnects have been.  *)
MayOpen(w) == {ok \in BOOLEAN : ok => w.stats.inprogress + w.stats.established
                                      + w.stats.connect_errors < MaxConnects}

(* nn_crtipc_create: nn_fsm_start, IDLE/START: start connecting. *)
Create ==
    /\ cr.fsm = "idle" /\ ~ended
    /\ \E ok \in MayOpen(W) :
          Commit(StartConnecting([W EXCEPT !.cr.fsm = "active"], ok))

(* nn_crtipc_stop, from the user, at any point of a running endpoint. *)
Stop ==
    /\ Quiet /\ cr.fsm = "active"
    /\ \E immediate \in BOOLEAN : Commit(CrtipcStop(W, immediate))

(* The non-blocking connect completes or fails. *)
UsockConnectDone ==
    /\ Quiet /\ us.state = "connecting"
    /\ \E type \in {"CONNECTED", "ERROR"} : Commit(Feed(W, CrtipcOnUsock(W, type)))

(* A stopping socket may report the connection shut before it stops. *)
UsockShutdown ==
    /\ Quiet /\ us.state = "stopping" /\ us.owner = "crtipc"
    /\ Commit(Feed(W, CrtipcOnUsock(W, "SHUTDOWN")))

UsockStopped ==
    /\ Quiet /\ us.state = "stopping" /\ us.owner = "crtipc"
    /\ LET w == [W EXCEPT !.us.state = "idle"]
       IN  Commit(Feed(w, CrtipcOnUsock(w, "STOPPED")))

BackoffTimeout ==
    /\ Quiet /\ retry.state = "active"
    /\ Commit(Feed(W, CrtipcOnBackoff(W, "TIMEOUT", FALSE)))

BackoffStopped ==
    /\ Quiet /\ retry.state = "stopping"
    /\ LET w == [W EXCEPT !.retry.state = "idle"]
       IN  \E ok \in MayOpen(w) : Commit(Feed(w, CrtipcOnBackoff(w, "STOPPED", ok)))

(* The session fails on its own: handshake failure, peer error or close. *)
SessionFails ==
    /\ Quiet /\ Sess!Finish
    /\ UNCHANGED <<opt, cr, us, retry, stats, ended, destroyed, fault>>

(* A stopping session has wound down and hands the socket back. *)
SessionStops ==
    /\ fault = "none" /\ Sess!RaiseStopped
    /\ us' = [us EXCEPT !.owner = "crtipc"]
    /\ UNCHANGED <<opt, cr, retry, stats, ended, destroyed, fault>>

(* The endpoint takes the session's ERROR or STOPPED event. *)
TakeSessionEvent ==
    /\ fault = "none" /\ ssig # "none"
    /\ LET type == IF ssig = "result" THEN "ERROR" ELSE "STOPPED"
           w    == [W EXCEPT !.ssig = "none",
                             !.slife = IF type = "STOPPED" THEN "idle" ELSE @]
       IN  \E immediate \in BOOLEAN :
              Commit(Feed(w, CrtipcOnSrtipc(w, type, immediate)))

(* The core frees the endpoint once it reported itself stopped. *)
Destroy ==
    /\ Quiet /\ ended /\ ~destroyed
    /\ Commit(CrtipcDestroy([W EXCEPT !.destroyed = TRUE]))

(* The endpoint has been stopped and destroyed; or a check has failed. *)
Finished ==
    /\ destroyed \/ fault # "none"
    /\ UNCHANGED vars

Next ==
    \/ Create \/ Stop \/ UsockConnectDone \/ UsockShutdown \/ UsockStopped
    \/ BackoffTimeout \/ BackoffStopped \/ SessionFails \/ SessionStops
    \/ TakeSessionEvent \/ Destroy \/ Finished

(* The worker delivers the events of sockets, timers and sessions. *)
Fairness ==
    /\ WF_vars(UsockStopped) /\ WF_vars(BackoffTimeout) /\ WF_vars(BackoffStopped)
    /\ WF_vars(SessionStops) /\ WF_vars(TakeSessionEvent)

Spec == Init /\ [][Next]_vars /\ Fairness
-----------------------------------------------------------------------------
TypeOK ==
    /\ opt \in IvlOptions
    /\ cr \in [fsm : {"idle", "active", "stopping"}, state : CrStates]
    /\ us \in [state : {"idle", "connecting", "active", "stopping"},
               owner : {"crtipc", "srtipc"}]
    /\ retry \in [state : {"idle", "active", "stopping"}, cur : Nat, next : Nat]
    /\ Sess!TypeOK
    /\ stats \in [StatNames -> Nat]
    /\ ended \in BOOLEAN /\ destroyed \in BOOLEAN
    /\ fault \in {"none", "crtipc_bad_event", "crtipc_term_assert",
                  "srtipc_assert_state"}

(* No event reaches crtipc in a state whose handler rejects it: the       *)
(* session, socket and backoff events always match the state crtipc is    *)
(* waiting in, across stops at any point.                                 *)
NoContractViolation == fault = "none"

(* The socket has one owner: while the session holds it crtipc neither    *)
(* connects nor stops it, and the session holds it exactly while it runs. *)
(* A shutdown that stopped the socket before the session was idle would   *)
(* pull it from under srtipc.                                             *)
SocketExclusive ==
    /\ us.owner = "srtipc" => us.state = "active" /\ slife # "idle"
    /\ slife \in {"running", "done"} => us.owner = "srtipc"

(* While the endpoint runs, the connection statistics add up: one         *)
(* connection in progress exactly while CONNECTING, and every established *)
(* connection except the current one reported broken.                    *)
StatsWhileRunning ==
    cr.fsm = "active" =>
        /\ stats.inprogress = IF cr.state = "CONNECTING" THEN 1 ELSE 0
        /\ stats.established = stats.broken + IF cr.state = "ACTIVE" THEN 1 ELSE 0

(* Every reconnect wait lies between NN_RECONNECT_IVL and the maximum     *)
(* (spec 8: monotone, capped, never below the initial interval).         *)
RetryWithinBounds ==
    retry.state = "active" => opt.ivl <= retry.cur /\ retry.cur <= IvlMax(opt)

(* A lost connection always leads to the next attempt.  After a broken   *)
(* session crtipc stops the session and waits for its STOPPED, stops the  *)
(* socket and waits for its STOPPED, arms the backoff; a failed connect   *)
(* joins at the socket stop, a failed open at the backoff; when the       *)
(* backoff fires it is stopped to reconnect (crtipc.c:261-366, 380-424).  *)
(* Each hand-off waits on a different child; only a user stop may cut     *)
(* the chain short.                                                       *)
LostConnectionRetried ==
    (cr.fsm = "active"
       /\ (slife = "done" \/ cr.state \in {"STOPPING_SRTIPC", "STOPPING_USOCK", "WAITING"}))
        ~> (cr.state = "STOPPING_BACKOFF" \/ cr.fsm # "active")

(* nn_crtipc_stop, in any state, ends with nn_epbase_stopped. *)
StopCompletes == cr.fsm = "stopping" ~> ended

(* Once the endpoint has been stopped no connection is still counted as  *)
(* in progress: the statistic is per socket and outlives the endpoint.   *)
InProgressReleased == ended => stats.inprogress = 0

(* Every established connection ends counted once, as broken (the peer   *)
(* failed) or as dropped (the user stopped it); spec 8, scenario 6.  The  *)
(* stop decides "dropped" from nn_srtipc_isidle (crtipc.c:165-170), so    *)
(* this holds only because a session that reported ERROR has stopped and  *)
(* been taken off before any user stop can arrive.                       *)
ConnectionCountedOnce == stats.broken + stats.dropped <= stats.established

=============================================================================

--------------------------- MODULE BindEndpoint ----------------------------
(***************************************************************************)
(* nn_brtipc (src/transports/rtipc/brtipc.c) composed with the artipc      *)
(* objects it creates (AcceptSession.tla).                                 *)
(*                                                                         *)
(* The bind endpoint opens the listener, keeps exactly one artipc          *)
(* accepting on it (br.cur), moves every artipc that accepted into its     *)
(* list and starts a fresh one, stops an accepted artipc that reports      *)
(* ERROR and frees it on STOPPED.  Its stop cascades: the accepting artipc,*)
(* then the listener, then every accepted artipc, one STOPPED at a time.   *)
(*                                                                         *)
(* Every handler runs to completion in the socket's worker; raised events  *)
(* wait in `queue` and are delivered in order before any socket, listener  *)
(* or session event and before the user's next call (Quiet).               *)
(***************************************************************************)
EXTENDS AcceptSession, FiniteSets

LOCAL INSTANCE SequencesExt
LOCAL INSTANCE Functions

CONSTANTS
    ListenOutcomes,   \* what unlink/socket/bind/listen in start_listening may give
    MaxAccepts,       \* connections the peers make in one behaviour
    MaxAcceptErrors   \* failed accepts on the listener in one behaviour

ASSUME ListenOutcomes \subseteq {"ok", "unlink_error", "listen_error"} /\ "ok" \in ListenOutcomes
ASSUME MaxAccepts \in Nat /\ MaxAcceptErrors \in Nat

VARIABLES
    br,     \* the brtipc object: fsm, state, cur (accepting artipc), list (accepted)
    ended,     \* the endpoint has stopped and nn_epbase_stopped was called
    destroyed  \* the core has called nn_brtipc_destroy

vars == <<ar, lis, queue, stats, fault, br, ended, destroyed>>

BrStates == {"IDLE", "ACTIVE", "STOPPING_ARTIPC", "STOPPING_USOCK", "STOPPING_ARTIPCS"}
StatNames == {"accepted", "accept_errors", "broken", "dropped"}

W == [ar |-> ar, lis |-> lis, queue |-> queue, stats |-> stats, fault |-> fault,
      br |-> br, ended |-> ended, destroyed |-> destroyed]

Commit(w) ==
    /\ ar' = w.ar /\ lis' = w.lis /\ queue' = w.queue /\ stats' = w.stats
    /\ fault' = w.fault /\ br' = w.br /\ ended' = w.ended /\ destroyed' = w.destroyed

(* The artipc objects that are allocated: the accepting one and the list. *)
Allocated(w) == ({w.br.cur} \ {NoSlot}) \cup ToSet(w.br.list)

(* nn_alloc: a slot no live artipc occupies. *)
FreeSlot(w) == CHOOSE a \in Slots \ Allocated(w) : TRUE

(* nn_artipc_term and nn_free: the artipc, its session (nn_srtipc_term) *)
(* and its socket (nn_usock_term) must all be idle.                     *)
ArtipcTerm(w, a) ==
    IF w.ar[a].state # "IDLE" THEN Fail(w, "artipc_assert_state")
    ELSE LET w1 == SrtipcTerm(w, a)
         IN  IF w1.ar[a].us # "idle" THEN Fail(w1, "usock_term_assert")
             ELSE [w1 EXCEPT !.ar[a] = ArInit]

(* nn_usock_stop on the listener. *)
ListenerStop(w) ==
    IF w.lis.state = "idle" THEN w ELSE [w EXCEPT !.lis.state = "stopping"]

-----------------------------------------------------------------------------
(* nn_brtipc_start_listening: unlink a leftover file (ENOENT is fine),     *)
(* open, bind and listen; every other failure is an errno_assert.         *)
StartListening(w, outcome) ==
    IF outcome = "ok" THEN [w EXCEPT !.lis.state = "active"]
    ELSE Fail(w, "brtipc_errno_assert")

(* nn_brtipc_start_accepting: a new artipc borrows the listener. *)
StartAccepting(w) ==
    IF w.br.cur # NoSlot THEN Fail(w, "brtipc_assert_no_artipc")
    ELSE LET a == FreeSlot(w)
         IN  ArtipcStart([w EXCEPT !.br.cur = a, !.ar[a] = ArInit], a)

(* Mutation: the core is not told that the endpoint stopped. *)
BrtipcFinishNoNotify(w) ==
    IF w.br.list = << >> THEN [w EXCEPT !.br.state = "IDLE", !.br.fsm = "idle"]
    ELSE w

(* Once no accepted artipc is left, the endpoint is idle and the core is  *)
(* told (nn_fsm_stopped_noevent, nn_epbase_stopped).                      *)
BrtipcFinish(w) ==
    IF w.br.list = << >>
    THEN [w EXCEPT !.br.state = "IDLE", !.br.fsm = "idle", !.ended = TRUE]
    ELSE w

(* STOPPING_USOCK: once the listener is idle, stop every accepted artipc. *)
(* `imm`, here and below, is whether a stopped session has nothing left  *)
(* to wait for and raises STOPPED at once (nn_srtipc_shutdown).          *)
BrtipcStopAccepted(w, imm) ==
    IF w.lis.state # "idle" THEN w
    ELSE BrtipcFinish(
           FoldLeft(LAMBDA x, a : ArtipcStop(x, a, imm),
                    [w EXCEPT !.br.state = "STOPPING_ARTIPCS"], w.br.list))

(* Mutation: the accepting artipc is freed without waiting for it. *)
BrtipcShutdownNoWait(w, src, a, type, imm) ==
    LET w1 == IF type = "STOP"
              THEN [ArtipcStop(w, w.br.cur, imm) EXCEPT !.br.state = "STOPPING_ARTIPC"]
              ELSE w
        w2 == IF w1.br.state = "STOPPING_ARTIPC"
              THEN ListenerStop([ArtipcTerm(w1, w1.br.cur)
                                 EXCEPT !.br.cur = NoSlot, !.br.state = "STOPPING_USOCK"])
              ELSE w1
    IN  CASE type # "STOP" /\ w.br.state = "STOPPING_ARTIPCS" ->
                IF src = "artipc" /\ type = "STOPPED"
                THEN BrtipcFinish(ArtipcTerm([w EXCEPT !.br.list = Remove(@, a)], a))
                ELSE Fail(w, "brtipc_assert_stopped")
          [] w2.br.state = "STOPPING_USOCK"  -> BrtipcStopAccepted(w2, imm)
          [] OTHER -> Fail(w2, "brtipc_bad_state")

(* nn_brtipc_shutdown: stop the accepting artipc and wait for it, free it *)
(* and stop the listener, wait for the listener, stop the accepted ones   *)
(* and free each on its STOPPED.  `a` is the artipc that raised the event.*)
BrtipcShutdown(w, src, a, type, imm) ==
    LET w1 == IF type = "STOP"
              THEN [ArtipcStop(w, w.br.cur, imm)
                    EXCEPT !.br.state = "STOPPING_ARTIPC"]
              ELSE w
        w2 == IF w1.br.state = "STOPPING_ARTIPC" /\ ArtipcIsIdle(w1, w1.br.cur)
              THEN ListenerStop([ArtipcTerm(w1, w1.br.cur)
                                 EXCEPT !.br.cur = NoSlot, !.br.state = "STOPPING_USOCK"])
              ELSE w1
    IN  CASE type # "STOP" /\ w.br.state = "STOPPING_ARTIPCS" ->
                IF src = "artipc" /\ type = "STOPPED"
                THEN BrtipcFinish(ArtipcTerm([w EXCEPT !.br.list = Remove(@, a)], a))
                ELSE Fail(w, "brtipc_assert_stopped")
          [] w2.br.state = "STOPPING_ARTIPC" -> w2
          [] w2.br.state = "STOPPING_USOCK"  -> BrtipcStopAccepted(w2, imm)
          [] OTHER -> Fail(w2, "brtipc_bad_state")

(* Mutation: the accepted artipc is not cleared as the accepting one. *)
BrtipcActiveKeepCur(w, src, a, type, imm) ==
    CASE src = "artipc" /\ a = w.br.cur ->
            IF type = "ACCEPTED" THEN StartAccepting([w EXCEPT !.br.list = Append(@, a)])
            ELSE Fail(w, "brtipc_bad_action")
      [] src # "artipc" -> Fail(w, "brtipc_assert_src")
      [] type = "ERROR" -> ArtipcStop(w, a, imm)
      [] type = "STOPPED" -> ArtipcTerm([w EXCEPT !.br.list = Remove(@, a)], a)
      [] OTHER -> Fail(w, "brtipc_bad_action")

(* Mutation: an accepted artipc's ERROR is ignored. *)
BrtipcActiveIgnoreError(w, src, a, type, imm) ==
    CASE src = "artipc" /\ a = w.br.cur ->
            IF type = "ACCEPTED"
            THEN StartAccepting([w EXCEPT !.br.list = Append(@, a), !.br.cur = NoSlot])
            ELSE Fail(w, "brtipc_bad_action")
      [] src # "artipc" -> Fail(w, "brtipc_assert_src")
      [] type = "ERROR" -> w
      [] type = "STOPPED" -> ArtipcTerm([w EXCEPT !.br.list = Remove(@, a)], a)
      [] OTHER -> Fail(w, "brtipc_bad_action")

(* ACTIVE: ACCEPTED from the accepting artipc moves it to the list and    *)
(* starts the next; an accepted one's ERROR stops it, its STOPPED frees   *)
(* it.                                                                    *)
BrtipcActive(w, src, a, type, imm) ==
    CASE src = "artipc" /\ a = w.br.cur ->
            IF type = "ACCEPTED"
            THEN StartAccepting([w EXCEPT !.br.list = Append(@, a), !.br.cur = NoSlot])
            ELSE Fail(w, "brtipc_bad_action")
      [] src # "artipc" -> Fail(w, "brtipc_assert_src")
      [] type = "ERROR" -> ArtipcStop(w, a, imm)
      [] type = "STOPPED" -> ArtipcTerm([w EXCEPT !.br.list = Remove(@, a)], a)
      [] OTHER -> Fail(w, "brtipc_bad_action")

(* nn_fsm_feed for brtipc. *)
BrtipcFeed(w, src, a, type, imm) ==
    CASE w.br.fsm = "stopping" -> BrtipcShutdown(w, src, a, type, imm)
      [] w.br.state = "ACTIVE" -> BrtipcActive(w, src, a, type, imm)
      [] OTHER -> Fail(w, "brtipc_bad_state")

(* nn_brtipc_destroy: the endpoint must be IDLE with no accepting or    *)
(* accepted artipc left (nn_list_term), and its listener and machine idle *)
(* (nn_usock_term, nn_fsm_term).                                         *)
BrtipcDestroy(w) ==
    IF w.br.state # "IDLE" \/ w.br.list # << >> \/ w.br.cur # NoSlot
       \/ w.lis.state # "idle" \/ w.br.fsm # "idle"
    THEN Fail(w, "brtipc_term_assert")
    ELSE w

-----------------------------------------------------------------------------
Init ==
    /\ ar = [a \in Slots |-> ArInit]
    /\ lis = [state |-> "idle", lent |-> NoSlot]
    /\ queue = << >>
    /\ stats = [s \in StatNames |-> 0]
    /\ fault = "none"
    /\ br = [fsm |-> "idle", state |-> "IDLE", cur |-> NoSlot, list |-> << >>]
    /\ ended = FALSE
    /\ destroyed = FALSE

(* No raised event waits and the process is alive. *)
Quiet == queue = << >> /\ fault = "none"

(* nn_brtipc_create: nn_fsm_start, IDLE/START: listen, start accepting. *)
Create ==
    /\ br.fsm = "idle" /\ ~ended /\ fault = "none"
    /\ \E outcome \in ListenOutcomes :
          Commit(StartAccepting(StartListening(
              [W EXCEPT !.br.fsm = "active", !.br.state = "ACTIVE"], outcome)))

(* nn_brtipc_stop, from the user, at any point of a running endpoint. *)
Stop ==
    /\ Quiet /\ br.fsm = "active"
    /\ \E imm \in BOOLEAN :
          Commit(BrtipcShutdown([W EXCEPT !.br.fsm = "stopping"], "action", NoSlot,
                                "STOP", imm))

(* A peer connects; the artipc accepting on the listener gets ACCEPTED.   *)
(* Within the bounds, a slot is left for the next accepting artipc.       *)
Accepted(a) ==
    /\ Quiet /\ lis.lent = a /\ ar[a].us = "accepting"
    /\ stats.accepted < MaxAccepts /\ Cardinality(Allocated(W)) < Cardinality(Slots)
    /\ \E imm \in BOOLEAN : Commit(ArtipcFeed(W, a, "usock", "ACCEPTED", imm))

(* The listener reports a failed accept (EMFILE, ECONNABORTED...). *)
AcceptError(a) ==
    /\ Quiet /\ lis.lent = a /\ lis.state = "active" /\ ar[a].us = "accepting"
    /\ stats.accept_errors < MaxAcceptErrors
    /\ \E imm \in BOOLEAN : Commit(ArtipcFeed(W, a, "listener", "ACCEPT_ERROR", imm))

(* A stopping accepted socket may report the connection shut first. *)
UsockShutdown(a) ==
    /\ Quiet /\ ar[a].us = "stopping" /\ ar[a].usowner = "artipc"
    /\ \E imm \in BOOLEAN : Commit(ArtipcFeed(W, a, "usock", "SHUTDOWN", imm))

UsockStopped(a) ==
    /\ Quiet /\ ar[a].us = "stopping" /\ ar[a].usowner = "artipc"
    /\ LET w == [W EXCEPT !.ar[a].us = "idle"]
       IN  \E imm \in BOOLEAN : Commit(ArtipcFeed(w, a, "usock", "STOPPED", imm))

ListenerStopped ==
    /\ Quiet /\ lis.state = "stopping" /\ lis.lent = NoSlot
    /\ LET w == [W EXCEPT !.lis.state = "idle"]
       IN  \E imm \in BOOLEAN : Commit(BrtipcFeed(w, "usock", NoSlot, "STOPPED", imm))

(* An accepted session fails on its own: handshake failure, peer error   *)
(* or close.  It raises ERROR to its artipc.                              *)
SessionFails(a) ==
    /\ Quiet /\ ar[a].slife = "running"
    /\ Commit(Raise([W EXCEPT !.ar[a].slife = "done"], "artipc", a, "srtipc", "ERROR"))

(* A stopping session has wound down: it hands the socket back and       *)
(* raises STOPPED.                                                        *)
SessionStops(a) ==
    /\ Quiet /\ ar[a].slife = "stopping" /\ ar[a].usowner = "srtipc"
    /\ Commit(Raise([W EXCEPT !.ar[a].usowner = "artipc"], "artipc", a, "srtipc", "STOPPED"))

(* The worker delivers the oldest raised event; an event whose sender or *)
(* receiver was freed would be a use after free.                          *)
Deliver ==
    /\ queue # << >> /\ fault = "none"
    /\ LET e  == Head(queue)
           w0 == [W EXCEPT !.queue = Tail(@)]
       IN  \E imm \in BOOLEAN :
              Commit(
                IF e.slot \notin Allocated(w0) THEN Fail(w0, "use_after_free")
                ELSE IF e.to = "artipc"
                THEN ArtipcFeed(IF e.type = "STOPPED"
                                THEN [w0 EXCEPT !.ar[e.slot].slife = "idle"] ELSE w0,
                                e.slot, e.src, e.type, imm)
                ELSE BrtipcFeed(w0, e.src, e.slot, e.type, imm))

(* The core frees the endpoint once it reported itself stopped. *)
Destroy ==
    /\ Quiet /\ ended /\ ~destroyed
    /\ Commit(BrtipcDestroy([W EXCEPT !.destroyed = TRUE]))

(* The endpoint has been stopped and destroyed; or the process aborted. *)
Finished ==
    /\ destroyed \/ fault # "none"
    /\ UNCHANGED vars

Next ==
    \/ Create \/ Stop \/ ListenerStopped \/ Deliver \/ Destroy \/ Finished
    \/ \E a \in Slots : \/ Accepted(a) \/ AcceptError(a) \/ UsockShutdown(a)
                        \/ UsockStopped(a) \/ SessionFails(a) \/ SessionStops(a)

(* The worker drains its queue; sockets and listener that were stopped   *)
(* report back; a stopped session winds down (Session's StopCompletes).  *)
Fairness ==
    /\ WF_vars(Deliver) /\ WF_vars(ListenerStopped)
    /\ \A a \in Slots : WF_vars(UsockStopped(a)) /\ WF_vars(SessionStops(a))

Spec == Init /\ [][Next]_vars /\ Fairness
-----------------------------------------------------------------------------
TypeOK ==
    /\ ar \in [Slots -> [fsm : {"idle", "active", "stopping"}, state : ArStates,
                         haslis : BOOLEAN, us : {"idle", "accepting", "active", "stopping"},
                         usowner : {"artipc", "srtipc"},
                         slife : {"idle", "running", "done", "stopping"}]]
    /\ lis \in [state : {"idle", "active", "stopping"}, lent : Slots \cup {NoSlot}]
    /\ stats \in [StatNames -> Nat]
    /\ br.fsm \in {"idle", "active", "stopping"} /\ br.state \in BrStates
    /\ br.cur \in Slots \cup {NoSlot}
    /\ br.list \in Seq(Slots) /\ IsInjective(br.list) /\ br.cur \notin ToSet(br.list)
    /\ ended \in BOOLEAN /\ destroyed \in BOOLEAN

(* No nn_assert, errno_assert or nn_fsm_bad_* of brtipc or artipc is ever *)
(* reached, in particular the assert that only STOPPED arrives while the *)
(* accepted artipcs are stopped (brtipc.c:174), and no event reaches an   *)
(* artipc that brtipc already freed.                                      *)
NoContractViolation == fault = "none"

(* The listener has one owner: an artipc holds it exactly when it is lent *)
(* to that artipc, and while the endpoint runs and no event is pending it *)
(* is lent to the accepting artipc, which is accepting on it, so the bind *)
(* endpoint never stops taking connections (artipc.c:201, brtipc.c:243).  *)
ListenerAccepting ==
    /\ \A a \in Slots : ar[a].haslis <=> lis.lent = a
    /\ (br.state = "ACTIVE" /\ br.fsm = "active" /\ queue = << >>) =>
          /\ lis.lent = br.cur /\ br.cur # NoSlot
          /\ ar[br.cur].state = "ACCEPTING" /\ ar[br.cur].us = "accepting"

(* An accepted socket is stopped only after its session has stopped and  *)
(* handed it back (artipc.c:119-121, 272-274).                            *)
SocketExclusive ==
    \A a \in Slots : ar[a].us = "stopping" => ar[a].usowner = "artipc"

(* A stop of the bind endpoint ends with it stopped: the accepting artipc,*)
(* the listener and every accepted artipc wind down (brtipc.c:139-194).   *)
StopCompletes == br.fsm = "stopping" ~> ended

(* An artipc that neither accepts nor serves a live session is waiting  *)
(* to be torn down and freed.                                             *)
Lingering(a) ==
    a \in Allocated(W) /\ ~(ar[a].state = "ACCEPTING" \/ ar[a].slife = "running")

(* A connection whose session failed is torn down and its artipc freed:  *)
(* ERROR travels session -> artipc -> brtipc, which stops and frees it,   *)
(* also when the failure meets a stop of the endpoint; no artipc is left *)
(* lingering (artipc.c:248-297, brtipc.c:257-264).                        *)
FailedConnectionFreed ==
    (\E a \in Slots : ar[a].slife = "done") ~> (\A a \in Slots : ~Lingering(a))

-----------------------------------------------------------------------------
(* Refinement: every artipc, as brtipc sees it, keeps the Lifecycle       *)
(* contract, across the reuse of its slot by the next artipc.  It is      *)
(* "stopping" from nn_artipc_stop until brtipc took its STOPPED, "done"   *)
(* once it raised ERROR (state DONE); its result is that ERROR.  ACCEPTED *)
(* is a notification while it runs, not a result.                        *)

ArtipcLifeOf(a) ==
    CASE ar[a].fsm = "stopping" \/ StoppedQueued(W, "brtipc", a) -> "stopping"
      [] ar[a].fsm = "idle"                                      -> "idle"
      [] ar[a].state = "DONE"                                    -> "done"
      [] OTHER                                                   -> "running"

ArtipcSignalOf(a) ==
    CASE StoppedQueued(W, "brtipc", a) -> "stopped"
      [] \E i \in 1 .. Len(queue) :
            queue[i] = [to |-> "brtipc", slot |-> a, src |-> "artipc", type |-> "ERROR"]
                                        -> "result"
      [] OTHER                          -> "none"

ArtipcLife(a) == INSTANCE Lifecycle WITH life <- ArtipcLifeOf(a),
                                         signal <- ArtipcSignalOf(a)

(* Each artipc is started by brtipc only when idle, reports a failed     *)
(* connection once, and answers every stop with exactly one STOPPED that *)
(* brtipc takes before the slot is freed and reused (artipc.c:84-137,    *)
(* brtipc.c:139-267).  Its liveness is StopCompletes / FailedConnectionFreed. *)
ArtipcImplementsLifecycle ==
    /\ \A a \in Slots : ArtipcLife(a)!Init
    /\ [][\A a \in Slots : [ArtipcLife(a)!Next]_(ArtipcLife(a)!vars)]_vars

(* Each accepted connection is counted broken or dropped at most once     *)
(* (spec 8, scenario 6).  A stopped artipc counts "dropped" from          *)
(* nn_srtipc_isidle (artipc.c:111-113), so this holds only because a     *)
(* session that failed has stopped, and its artipc reached STOPPING_USOCK,*)
(* before brtipc's cascade can reach it.                                 *)
ConnectionCountedOnce == stats.broken + stats.dropped <= stats.accepted
=============================================================================

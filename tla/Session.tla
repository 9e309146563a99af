------------------------------ MODULE Session ------------------------------
(***************************************************************************)
(* One RTIPC connection from the point its socket is connected to the     *)
(* point it is torn down: the session state machine nn_srtipc             *)
(* (src/src/transports/rtipc/srtipc.c), the protocol-header exchange      *)
(* nn_streamhdr it runs first (src/src/transports/utils/streamhdr.c), the *)
(* 1000 ms handshake timer, the connected socket nn_usock, the core's     *)
(* pipe and an abstract parent ("owner") that behaves as both nn_artipc   *)
(* and nn_crtipc behave towards their session: start it over a connected  *)
(* socket, stop it on ERROR or on endpoint shutdown, then stop the socket.*)
(*                                                                         *)
(* Execution model (the nn_fsm runtime, which is not under src/, from the *)
(* spec section 4.1 and 5):                                                *)
(*   - nn_fsm_start / nn_fsm_stop call the handler synchronously, so a    *)
(*     handler that starts or stops a child runs the child's handler in   *)
(*     the same step.  Handlers are written as operators from a world     *)
(*     record W to a world record, and nested calls compose them.          *)
(*   - nn_fsm_raise appends to the context's event queue; the queue is    *)
(*     drained before the context is left, so socket completions, timer   *)
(*     events, pipe calls from the core and endpoint stops (everything    *)
(*     external) happen only when the queue is empty.                      *)
(*   - nn_fsm_stop on a machine that is not active is a no-op, and a      *)
(*     machine is idle (nn_fsm_isidle) only once its STOPPED event has    *)
(*     been taken off the queue.                                           *)
(*   - An nn_assert or nn_fsm_bad_* aborts the process: the model records *)
(*     it in `fault' and takes no further step.                            *)
(***************************************************************************)
EXTENDS Integers, Sequences, FiniteSets

LOCAL INSTANCE SequencesExt

CONSTANTS
    PeerHdrs,             \* 8-byte headers the peer may send: "valid", "badsig", "notpeer"
    FrameTypes,           \* type bytes the peer may put in a message frame (1 = MSG_NORMAL)
    MaxRecv,              \* bound on the socket's RECEIVED completions in a run
    MaxSend,              \* bound on the core's sends on one pipe
    MaxConns,             \* bound on the connections the owner starts a session over
    RaceTimerStop,        \* may the socket raise an event while streamhdr waits for its timer to stop?
    ShutdownInHandshake   \* may the socket report a peer close as SHUTDOWN during the handshake?

ASSUME PeerHdrs \subseteq {"valid", "badsig", "notpeer"} /\ "valid" \in PeerHdrs
ASSUME FrameTypes \subseteq {1, 2} /\ 1 \in FrameTypes
ASSUME MaxRecv \in Nat /\ MaxSend \in Nat /\ MaxConns \in Nat \ {0}
ASSUME RaceTimerStop \in BOOLEAN /\ ShutdownInHandshake \in BOOLEAN

VARIABLES
    sh,      \* nn_streamhdr: fsm life state, state, usock held, saved usock owner
    ss,      \* nn_srtipc: fsm life state, state, usock held, saved owner, instate, outstate
    timer,   \* the streamhdr's nn_timer: "idle" | "active" | "stopping"
    us,      \* the connected nn_usock: current owner, state, send / recv in flight
    pipe,    \* the core's nn_pipebase: started or not, what the core waits for
    own,     \* the session's parent (nn_artipc / nn_crtipc as seen by the session)
    queue,   \* raised events not yet delivered: [dst, src, type]
    fault,   \* "none", or the assertion that aborted the process
    hist     \* history: header the peer sent, counters of pipe traffic

vars == <<sh, ss, timer, us, pipe, own, queue, fault, hist>>

MSG_NORMAL == 1
FrameSizes == {0, 1}   \* a frame's 64-bit length matters only as zero / non-zero

FsmStates == {"idle", "active", "stopping"}
ShStates  == {"IDLE", "SENDING", "RECEIVING", "STOPPING_TIMER_ERROR",
              "STOPPING_TIMER_DONE", "DONE", "STOPPING"}
SsStates  == {"IDLE", "PROTOHDR", "STOPPING_STREAMHDR", "ACTIVE",
              "SHUTTING_DOWN", "DONE", "STOPPING"}
UsStates  == {"connected", "active", "shutdown", "done", "stopping", "idle"}
OwnStates == {"idle", "active", "stopping_session", "stopping_final",
              "stopping_usock", "waiting", "closed"}
Faults    == {"none", "streamhdr_start", "streamhdr_bad_event", "srtipc_start",
              "srtipc_bad_event", "srtipc_bad_state", "srtipc_send",
              "srtipc_recv", "msg_type", "usock_op", "owner_bad_event"}

(* The current values of all variables, as one record a handler maps.     *)
W == [sh |-> sh, ss |-> ss, timer |-> timer, us |-> us, pipe |-> pipe,
      own |-> own, queue |-> queue, fault |-> fault, hist |-> hist]

Commit(w) ==
    /\ sh' = w.sh /\ ss' = w.ss /\ timer' = w.timer /\ us' = w.us
    /\ pipe' = w.pipe /\ own' = w.own /\ queue' = w.queue
    /\ fault' = w.fault /\ hist' = w.hist

(* nn_assert / nn_fsm_bad_*: the process aborts. *)
Fail(w, why) == [w EXCEPT !.fault = why]

(* nn_fsm_raise: the event is queued for the parent. *)
Raise(w, dst, src, type) ==
    [w EXCEPT !.queue = Append(@, [dst |-> dst, src |-> src, type |-> type])]

StoppedPending(w, f) ==
    \E e \in ToSet(w.queue) : e.src = f /\ e.type = "STOPPED"

-----------------------------------------------------------------------------
(* Collaborators that are not under src/: timer, usock and pipebase, from  *)
(* the interfaces the spec gives them.                                     *)

TimerStart(w) == [w EXCEPT !.timer = "active"]

TimerStop(w) == IF w.timer = "active" THEN [w EXCEPT !.timer = "stopping"] ELSE w

(* nn_usock_send / nn_usock_recv: one operation of each kind at a time, on *)
(* a socket that is still usable.                                          *)
UsockSend(w) ==
    IF w.us.send \/ w.us.state # "active"
    THEN Fail(w, "usock_op") ELSE [w EXCEPT !.us.send = TRUE]

UsockRecv(w) ==
    IF w.us.recv \/ w.us.state # "active"
    THEN Fail(w, "usock_op") ELSE [w EXCEPT !.us.recv = TRUE]

UsockStop(w) ==
    IF w.us.state \in {"idle", "stopping"} THEN w
    ELSE [w EXCEPT !.us = [@ EXCEPT !.state = "stopping", !.send = FALSE,
                                    !.recv = FALSE]]

PipeStart(w) ==
    [w EXCEPT !.pipe = [state |-> "active", out |-> "idle", in |-> "wait"],
              !.hist = [@ EXCEPT !.sends = 0, !.sent = 0, !.delivered = 0,
                                 !.consumed = 0]]

PipeStop(w) == [w EXCEPT !.pipe.state = "idle"]

PipeSent(w) == [w EXCEPT !.pipe.out = "idle", !.hist.sent = @ + 1]

PipeReceived(w) == [w EXCEPT !.pipe.in = "hasmsg", !.hist.delivered = @ + 1]

-----------------------------------------------------------------------------
(* nn_streamhdr *)

(* Mutation: only the protocol is checked, not the signature. *)
ValidProtoHdrNoSignature(h) == h # "notpeer"

(* Signature "\0SP\0" and nn_pipebase_ispeer on the advertised protocol. *)
ValidProtoHdr(h) == h \notin {"badsig", "notpeer"}

(* IDLE, START: start the 1000 ms timer, send the local header. *)
StreamhdrOnStart(w) ==
    UsockSend(TimerStart([w EXCEPT !.sh.state = "SENDING"]))

(* Mutation: the handshake is sent without arming the timer. *)
StreamhdrStartNoTimer(w) ==
    IF w.sh.usock THEN Fail(w, "streamhdr_start")
    ELSE UsockSend([w EXCEPT !.sh = [fsm |-> "active", state |-> "SENDING",
                                     usock |-> TRUE, owner |-> w.us.owner],
                             !.us.owner = "streamhdr", !.hist.peer = "none"])

(* nn_streamhdr_start: take the socket, remember its owner, start. *)
StreamhdrStart(w) ==
    IF w.sh.usock THEN Fail(w, "streamhdr_start")
    ELSE StreamhdrOnStart(
            [w EXCEPT !.sh = [fsm |-> "active", state |-> "IDLE",
                              usock |-> TRUE, owner |-> w.us.owner],
                      !.us.owner = "streamhdr",
                      !.hist.peer = "none"])

(* STOPPING: once the timer is idle, become idle and raise STOPPED. *)
StreamhdrStopping(w) ==
    IF w.timer = "idle"
    THEN Raise([w EXCEPT !.sh.state = "IDLE", !.sh.fsm = "idle"],
               "srtipc", "streamhdr", "STOPPED")
    ELSE w

(* Mutation: stopping the streamhdr does not stop its timer. *)
StreamhdrStopNoTimer(w) ==
    IF w.sh.fsm # "active" THEN w
    ELSE StreamhdrStopping([w EXCEPT !.sh.fsm = "stopping", !.sh.state = "STOPPING"])

(* Mutation: the STOP procedure runs even on an idle machine. *)
StreamhdrStopUnguarded(w) ==
    StreamhdrStopping(TimerStop(
        [w EXCEPT !.sh.fsm = "stopping", !.sh.state = "STOPPING"]))

StreamhdrStop(w) ==
    IF w.sh.fsm # "active" THEN w
    ELSE StreamhdrStopping(TimerStop(
            [w EXCEPT !.sh.fsm = "stopping", !.sh.state = "STOPPING"]))

(* Mutation: the saved owner is cleared before the socket is handed back. *)
StreamhdrFinishClearFirst(w, result) ==
    Raise([w EXCEPT !.us.owner = "none",
                    !.sh = [@ EXCEPT !.usock = FALSE, !.owner = "none",
                                     !.state = "DONE"]],
          "srtipc", "streamhdr", result)

(* Timer stopped after the exchange: hand the socket back, raise result. *)
StreamhdrFinish(w, result) ==
    Raise([w EXCEPT !.us.owner = w.sh.owner,
                    !.sh = [@ EXCEPT !.usock = FALSE, !.owner = "none",
                                     !.state = "DONE"]],
          "srtipc", "streamhdr", result)

StreamhdrOnUsock(w, type, hdr) ==
    CASE w.sh.state = "STOPPING" -> StreamhdrStopping(w)
      [] w.sh.state = "SENDING" /\ type = "SENT" ->
            UsockRecv([w EXCEPT !.sh.state = "RECEIVING"])
      [] w.sh.state = "RECEIVING" /\ type = "RECEIVED" ->
            LET w1 == [w EXCEPT !.hist.peer = hdr]
            IN  IF ValidProtoHdr(hdr)
                THEN TimerStop([w1 EXCEPT !.sh.state = "STOPPING_TIMER_DONE"])
                ELSE TimerStop([w1 EXCEPT !.sh.state = "STOPPING_TIMER_ERROR"])
      [] w.sh.state \in {"SENDING", "RECEIVING"} /\ type = "ERROR" ->
            TimerStop([w EXCEPT !.sh.state = "STOPPING_TIMER_ERROR"])
      [] OTHER -> Fail(w, "streamhdr_bad_event")

StreamhdrOnTimer(w, type) ==
    CASE w.sh.state = "STOPPING" -> StreamhdrStopping(w)
      [] w.sh.state \in {"SENDING", "RECEIVING"} /\ type = "TIMEOUT" ->
            TimerStop([w EXCEPT !.sh.state = "STOPPING_TIMER_ERROR"])
      [] w.sh.state = "STOPPING_TIMER_ERROR" /\ type = "STOPPED" ->
            StreamhdrFinish(w, "ERROR")
      [] w.sh.state = "STOPPING_TIMER_DONE" /\ type = "STOPPED" ->
            StreamhdrFinish(w, "OK")
      [] OTHER -> Fail(w, "streamhdr_bad_event")

-----------------------------------------------------------------------------
(* nn_srtipc *)

(* IDLE, START: run the header exchange over the socket. *)
SrtipcOnStart(w) ==
    StreamhdrStart([w EXCEPT !.ss.state = "PROTOHDR"])

(* nn_srtipc_start: take the socket from the parent, remember it, start. *)
SrtipcStart(w) ==
    IF w.ss.usock THEN Fail(w, "srtipc_start")
    ELSE SrtipcOnStart(
            [w EXCEPT !.ss = [@ EXCEPT !.fsm = "active", !.usock = TRUE,
                                       !.owner = w.us.owner],
                      !.us.owner = "srtipc"])

(* nn_srtipc_isidle *)
SrtipcIsIdle(w) == w.ss.fsm = "idle" /\ ~StoppedPending(w, "srtipc")

(* Mutation: idleness read from the machine's state only, ignoring its   *)
(* STOPPED event still on the queue.                                      *)
StreamhdrIsIdleIgnoringEvent(w) == w.sh.fsm = "idle"

(* nn_streamhdr_isidle *)
StreamhdrIsIdle(w) == w.sh.fsm = "idle" /\ ~StoppedPending(w, "streamhdr")

(* Mutation: the socket is not handed back to the parent on stop. *)
SrtipcStoppingNoSwap(w) ==
    IF StreamhdrIsIdle(w)
    THEN Raise([w EXCEPT !.ss = [@ EXCEPT !.usock = FALSE, !.owner = "none",
                                          !.state = "IDLE", !.fsm = "idle"]],
               "owner", "srtipc", "STOPPED")
    ELSE w

(* Shutdown handler, STOPPING: once the streamhdr is idle, give the socket *)
(* back to the parent and raise STOPPED.                                   *)
SrtipcStopping(w) ==
    IF StreamhdrIsIdle(w)
    THEN Raise([w EXCEPT !.us.owner = w.ss.owner,
                         !.ss = [@ EXCEPT !.usock = FALSE, !.owner = "none",
                                          !.state = "IDLE", !.fsm = "idle"]],
               "owner", "srtipc", "STOPPED")
    ELSE w

SrtipcStop(w) ==
    IF w.ss.fsm # "active" THEN w
    ELSE SrtipcStopping(StreamhdrStop(PipeStop(
            [w EXCEPT !.ss.fsm = "stopping", !.ss.state = "STOPPING"])))

SrtipcShutdown(w) ==
    IF w.ss.state = "STOPPING" THEN SrtipcStopping(w)
    ELSE Fail(w, "srtipc_bad_state")

(* Events raised by the streamhdr child, normal handler. *)
SrtipcOnStreamhdr(w, type, pipeok) ==
    CASE w.ss.state = "PROTOHDR" /\ type = "OK" ->
            StreamhdrStop([w EXCEPT !.ss.state = "STOPPING_STREAMHDR"])
      [] w.ss.state = "PROTOHDR" /\ type = "ERROR" ->
            Raise([w EXCEPT !.ss.state = "DONE"], "owner", "srtipc", "ERROR")
      [] w.ss.state = "STOPPING_STREAMHDR" /\ type = "STOPPED" /\ ~pipeok ->
            Raise([w EXCEPT !.ss.state = "DONE"], "owner", "srtipc", "ERROR")
      [] w.ss.state = "STOPPING_STREAMHDR" /\ type = "STOPPED" /\ pipeok ->
            UsockRecv(PipeStart(
               [w EXCEPT !.ss = [@ EXCEPT !.instate = "HDR", !.outstate = "IDLE",
                                          !.state = "ACTIVE"]]))
      [] OTHER -> Fail(w, "srtipc_bad_event")

(* Mutation: after an empty message the next header is read at once. *)
SrtipcOnFrameHdrReadAhead(w, frame) ==
    CASE frame.type # MSG_NORMAL -> Fail(w, "msg_type")
      [] frame.size = 0 -> UsockRecv(PipeReceived([w EXCEPT !.ss.instate = "HDR"]))
      [] OTHER -> UsockRecv([w EXCEPT !.ss.instate = "BODY"])

(* ACTIVE, RECEIVED while the 9-byte frame header was being read. *)
SrtipcOnFrameHdr(w, frame) ==
    CASE frame.type # MSG_NORMAL -> Fail(w, "msg_type")
      [] frame.size = 0 -> PipeReceived([w EXCEPT !.ss.instate = "HASMSG"])
      [] OTHER -> UsockRecv([w EXCEPT !.ss.instate = "BODY"])

(* Mutation: the error is reported but the state is left ACTIVE. *)
SrtipcOnErrorStayActive(w) ==
    Raise(PipeStop(w), "owner", "srtipc", "ERROR")

(* Mutation: the pipe is left running when the socket fails. *)
SrtipcOnErrorKeepPipe(w) ==
    Raise([w EXCEPT !.ss.state = "DONE"], "owner", "srtipc", "ERROR")

(* ACTIVE, an error reported by the socket. *)
SrtipcOnError(w) ==
    Raise(PipeStop([w EXCEPT !.ss.state = "DONE"]), "owner", "srtipc", "ERROR")

(* Socket events, normal handler. *)
SrtipcOnUsock(w, type, frame) ==
    CASE w.ss.state = "ACTIVE" /\ type = "SENT" /\ w.ss.outstate = "SENDING" ->
            PipeSent([w EXCEPT !.ss.outstate = "IDLE"])
      [] w.ss.state = "ACTIVE" /\ type = "RECEIVED" /\ w.ss.instate = "HDR" ->
            SrtipcOnFrameHdr(w, frame)
      [] w.ss.state = "ACTIVE" /\ type = "RECEIVED" /\ w.ss.instate = "BODY" ->
            PipeReceived([w EXCEPT !.ss.instate = "HASMSG"])
      [] w.ss.state = "ACTIVE" /\ type = "SHUTDOWN" ->
            PipeStop([w EXCEPT !.ss.state = "SHUTTING_DOWN"])
      [] w.ss.state = "ACTIVE" /\ type = "ERROR" -> SrtipcOnError(w)
      [] w.ss.state = "SHUTTING_DOWN" /\ type = "ERROR" ->
            Raise([w EXCEPT !.ss.state = "DONE"], "owner", "srtipc", "ERROR")
      [] OTHER -> Fail(w, "srtipc_bad_event")

(* nn_srtipc_send, called by the core through the pipe. *)
SrtipcSend(w) ==
    IF w.ss.state # "ACTIVE" \/ w.ss.outstate # "IDLE" THEN Fail(w, "srtipc_send")
    ELSE UsockSend([w EXCEPT !.ss.outstate = "SENDING"])

(* nn_srtipc_recv, called by the core through the pipe. *)
SrtipcRecv(w) ==
    IF w.ss.state # "ACTIVE" \/ w.ss.instate # "HASMSG" THEN Fail(w, "srtipc_recv")
    ELSE UsockRecv([w EXCEPT !.ss.instate = "HDR"])

-----------------------------------------------------------------------------
(* The parent, as nn_artipc and nn_crtipc treat their session.  After the   *)
(* socket has stopped it either closes (endpoint shutdown) or, as          *)
(* nn_crtipc does, waits and reconnects over a fresh socket.               *)

(* Endpoint shutdown handler: once the session is idle, stop the socket. *)
OwnerShutdown(w) ==
    IF SrtipcIsIdle(w)
    THEN UsockStop([w EXCEPT !.own.state = "stopping_usock"])
    ELSE w

OwnerOnSrtipc(w, type) ==
    CASE w.own.state = "active" /\ type = "ERROR" ->
            SrtipcStop([w EXCEPT !.own.state = "stopping_session"])
      [] w.own.state = "stopping_session" /\ type = "STOPPED" ->
            UsockStop([w EXCEPT !.own.state = "stopping_usock"])
      [] w.own.state = "stopping_final" -> OwnerShutdown(w)
      [] OTHER -> Fail(w, "owner_bad_event")

OwnerOnUsock(w, type) ==
    CASE w.own.state = "stopping_usock" /\ type = "STOPPED" ->
            [w EXCEPT !.own.state = IF w.own.final THEN "closed" ELSE "waiting"]
      [] w.own.state = "stopping_usock" -> w
      [] OTHER -> Fail(w, "owner_bad_event")

-----------------------------------------------------------------------------
(* Delivery of an event to the machine it is addressed to: nn_fsm_feed    *)
(* runs the shutdown handler of a stopping machine, the normal one else.  *)

DeliverUsock(w, type, in) ==
    CASE w.us.owner = "streamhdr" -> StreamhdrOnUsock(w, type, in.hdr)
      [] w.us.owner = "srtipc" /\ w.ss.fsm = "stopping" -> SrtipcShutdown(w)
      [] w.us.owner = "srtipc" -> SrtipcOnUsock(w, type, in.frame)
      [] OTHER -> OwnerOnUsock(w, type)

DeliverRaised(w, e, in) ==
    CASE e.dst = "srtipc" /\ w.ss.fsm = "stopping" -> SrtipcShutdown(w)
      [] e.dst = "srtipc" -> SrtipcOnStreamhdr(w, e.type, in.pipeok)
      [] OTHER -> OwnerOnSrtipc(w, e.type)

(* The nondeterministic inputs of a delivery: what the peer's bytes say,  *)
(* and whether nn_pipebase_start succeeds.                                *)
Inputs == [hdr : PeerHdrs, frame : [type : FrameTypes, size : FrameSizes],
           pipeok : BOOLEAN]

Quiet == queue = <<>> /\ fault = "none"

(* The worker cancels the streamhdr's timer within one round trip, which  *)
(* is far shorter than the time any socket event takes to arrive; with    *)
(* RaceTimerStop the socket may raise its events inside that window too.  *)
SocketMayRaise ==
    RaceTimerStop \/ sh.state \notin {"STOPPING_TIMER_ERROR", "STOPPING_TIMER_DONE"}

-----------------------------------------------------------------------------
(* Initial state: the parent holds a connected socket, nothing started.   *)
(* The socket delivers no event before the parent activates it and starts *)
(* the session in the same handler (artipc.c ACCEPTED, crtipc.c CONNECTED).*)

Init ==
    /\ sh = [fsm |-> "idle", state |-> "IDLE", usock |-> FALSE, owner |-> "none"]
    /\ ss = [fsm |-> "idle", state |-> "IDLE", usock |-> FALSE, owner |-> "none",
             instate |-> "NONE", outstate |-> "NONE"]
    /\ timer = "idle"
    /\ us = [owner |-> "owner", state |-> "connected", send |-> FALSE, recv |-> FALSE]
    /\ pipe = [state |-> "idle", out |-> "idle", in |-> "wait"]
    /\ own = [state |-> "idle", final |-> FALSE, conns |-> 0]
    /\ queue = <<>>
    /\ fault = "none"
    /\ hist = [peer |-> "none", rcvd |-> 0, sends |-> 0, sent |-> 0,
               delivered |-> 0, consumed |-> 0]

(* The parent starts the session over its connected socket. *)
OwnerStart ==
    /\ Quiet /\ own.state = "idle"
    /\ Commit(SrtipcStart([W EXCEPT !.own.state = "active", !.own.conns = @ + 1,
                                     !.us.state = "active"]))

(* Endpoint shutdown: stop the session if it runs, then the socket. *)
OwnerStop ==
    /\ Quiet /\ own.state \in {"active", "stopping_session", "stopping_usock"}
    /\ LET w1 == IF SrtipcIsIdle(W) THEN W ELSE SrtipcStop(W)
       IN  Commit(IF own.state = "stopping_usock"
                  THEN [w1 EXCEPT !.own.final = TRUE]
                  ELSE OwnerShutdown([w1 EXCEPT !.own.state = "stopping_final",
                                                !.own.final = TRUE]))

(* nn_crtipc reconnecting: a fresh connected socket for the next session. *)
OwnerReconnect ==
    /\ Quiet /\ own.state = "waiting" /\ own.conns < MaxConns
    /\ us' = [owner |-> "owner", state |-> "connected", send |-> FALSE, recv |-> FALSE]
    /\ own' = [own EXCEPT !.state = "idle"]
    /\ UNCHANGED <<sh, ss, timer, pipe, queue, fault, hist>>

(* The context delivers the oldest raised event. *)
Dispatch ==
    /\ fault = "none" /\ queue # <<>>
    /\ \E in \in Inputs :
          Commit(DeliverRaised([W EXCEPT !.queue = Tail(@)], Head(queue), in))

UsockSent ==
    /\ Quiet /\ SocketMayRaise /\ us.send /\ us.state = "active"
    /\ \E in \in Inputs : Commit(DeliverUsock([W EXCEPT !.us.send = FALSE], "SENT", in))

UsockReceived ==
    /\ Quiet /\ SocketMayRaise /\ us.recv /\ us.state = "active" /\ hist.rcvd < MaxRecv
    /\ \E in \in Inputs :
          Commit(DeliverUsock([W EXCEPT !.us.recv = FALSE, !.hist.rcvd = @ + 1],
                              "RECEIVED", in))

(* The peer closed the connection: SHUTDOWN, the ERROR follows. *)
UsockShutdown ==
    /\ Quiet /\ SocketMayRaise /\ us.state = "active"
    /\ us.owner # "streamhdr" \/ ShutdownInHandshake
    /\ \E in \in Inputs :
          Commit(DeliverUsock([W EXCEPT !.us = [@ EXCEPT !.state = "shutdown",
                                   !.send = FALSE, !.recv = FALSE]], "SHUTDOWN", in))

UsockError ==
    /\ Quiet /\ SocketMayRaise /\ us.state \in {"active", "shutdown"}
    /\ \E in \in Inputs :
          Commit(DeliverUsock([W EXCEPT !.us = [@ EXCEPT !.state = "done",
                                   !.send = FALSE, !.recv = FALSE]], "ERROR", in))

UsockStopped ==
    /\ Quiet /\ us.state = "stopping"
    /\ \E in \in Inputs :
          Commit(DeliverUsock([W EXCEPT !.us.state = "idle"], "STOPPED", in))

(* The handshake timer fires. *)
TimerTimeout ==
    /\ Quiet /\ timer = "active"
    /\ Commit(StreamhdrOnTimer(W, "TIMEOUT"))

TimerStopped ==
    /\ Quiet /\ timer = "stopping"
    /\ Commit(StreamhdrOnTimer([W EXCEPT !.timer = "idle"], "STOPPED"))

(* The core sends a message on the pipe / takes the message received. *)
CoreSend ==
    /\ Quiet /\ pipe.state = "active" /\ pipe.out = "idle" /\ hist.sends < MaxSend
    /\ Commit(SrtipcSend([W EXCEPT !.pipe.out = "sending", !.hist.sends = @ + 1]))

CoreRecv ==
    /\ Quiet /\ pipe.state = "active" /\ pipe.in = "hasmsg"
    /\ Commit(SrtipcRecv([W EXCEPT !.pipe.in = "wait", !.hist.consumed = @ + 1]))

(* Nothing left to do: the parent closed, the reconnect budget is spent, *)
(* or the process aborted.                                               *)
Finished ==
    /\ \/ own.state = "closed"
       \/ own.state = "waiting" /\ own.conns = MaxConns
       \/ fault # "none"
    /\ UNCHANGED vars

Next ==
    \/ OwnerStart \/ OwnerStop \/ OwnerReconnect \/ Dispatch
    \/ UsockSent \/ UsockReceived \/ UsockShutdown \/ UsockError \/ UsockStopped
    \/ TimerTimeout \/ TimerStopped \/ CoreSend \/ CoreRecv
    \/ Finished

(* The context drains its queue, the worker thread completes timer and    *)
(* socket stops, and a started timer fires: those steps are weakly fair.  *)
(* The peer, the core and the endpoint's user are not.                    *)
Fairness ==
    /\ WF_vars(Dispatch) /\ WF_vars(TimerTimeout) /\ WF_vars(TimerStopped)
    /\ WF_vars(UsockStopped)

Spec == Init /\ [][Next]_vars /\ Fairness

-----------------------------------------------------------------------------
(* Properties *)

TypeOK ==
    /\ sh \in [fsm : FsmStates, state : ShStates, usock : BOOLEAN,
               owner : {"none", "srtipc"}]
    /\ ss \in [fsm : FsmStates, state : SsStates, usock : BOOLEAN,
               owner : {"none", "owner"}, instate : {"NONE", "HDR", "BODY", "HASMSG"},
               outstate : {"NONE", "IDLE", "SENDING"}]
    /\ timer \in FsmStates
    /\ us \in [owner : {"owner", "srtipc", "streamhdr"}, state : UsStates,
               send : BOOLEAN, recv : BOOLEAN]
    /\ pipe \in [state : {"idle", "active"}, out : {"idle", "sending"},
                 in : {"wait", "hasmsg"}]
    /\ own \in [state : OwnStates, final : BOOLEAN, conns : 0..MaxConns]
    /\ queue \in Seq([dst : {"srtipc", "owner"}, src : {"streamhdr", "srtipc"},
                      type : {"OK", "ERROR", "STOPPED"}])
    /\ fault \in Faults
    /\ hist \in [peer : {"none"} \cup PeerHdrs, rcvd : 0..MaxRecv,
                 sends : 0..MaxSend, sent : Nat, delivered : Nat, consumed : Nat]

(* No event ever reaches a handler in a state that does not expect it, and *)
(* no nn_assert of streamhdr.c, srtipc.c or of the socket fails: every     *)
(* socket completion, timer event and child event, in every order the      *)
(* reactor can deliver them, finds its machine ready for it (spec 4.1).    *)
NoContractViolation == fault = "none"

(* The socket always has the owner that must receive its events: the      *)
(* streamhdr during the header exchange, the session once the exchange is *)
(* over, and the parent again as soon as the session is idle, whichever   *)
(* state the session was stopped in (the swap_owner pairs of             *)
(* streamhdr.c and srtipc.c).                                             *)
UsockOwnership ==
    /\ SrtipcIsIdle(W) => us.owner = "owner"
    /\ sh.state \in {"SENDING", "RECEIVING"} => us.owner = "streamhdr"
    /\ ss.state \in {"STOPPING_STREAMHDR", "ACTIVE", "SHUTTING_DOWN"}
          => us.owner = "srtipc"
    /\ us.owner = "streamhdr" => sh.owner = "srtipc" /\ ss.owner = "owner"

(* A session only carries messages after the peer sent the "\0SP\0"       *)
(* signature and a protocol that is a peer of ours (spec section 8).      *)
HandshakeSound ==
    (pipe.state = "active" \/ ss.state \in {"STOPPING_STREAMHDR", "ACTIVE", "SHUTTING_DOWN"})
        => hist.peer = "valid"

(* The core is told sent() once per message it sent and never before, and *)
(* received() only after it took the previous message: one message in     *)
(* flight each way (spec section 8).                                      *)
PipeAccounting ==
    /\ hist.sent <= hist.sends /\ hist.sends <= hist.sent + 1
    /\ hist.delivered <= hist.consumed + 1

(* The core can reach the session through the pipe only while the session *)
(* is ACTIVE over a usable socket: every way out of ACTIVE stops the pipe. *)
PipeOnlyWhileActive ==
    pipe.state = "active" => ss.state = "ACTIVE" /\ us.state = "active"

(* A session the parent stops, after an error or on endpoint shutdown, in *)
(* whatever state, eventually raises STOPPED and the parent gets its      *)
(* socket stopped (spec section 5: stop must always complete).            *)
StopCompletes ==
    own.state \in {"stopping_session", "stopping_final"}
        ~> own.state \in {"waiting", "closed"}

(* The header exchange never hangs: a silent peer is cut off by the timer. *)
HandshakeEnds == ss.state = "PROTOHDR" ~> ss.state # "PROTOHDR"

-----------------------------------------------------------------------------
(* Refinement: srtipc and streamhdr each keep the Lifecycle contract      *)
(* towards their owner.  A machine is "stopping" from nn_fsm_stop until   *)
(* its STOPPED event is taken off the queue (nn_fsm_isidle), "done" once  *)
(* it has raised its result (state DONE), "idle" when it has no work.     *)

LifeOf(fsm, state, stoppedPending) ==
    CASE fsm = "stopping" \/ stoppedPending -> "stopping"
      [] fsm = "idle"                       -> "idle"
      [] state = "DONE"                     -> "done"
      [] OTHER                              -> "running"

(* The event machine f raised that its owner has not taken yet. *)
SignalOf(f) ==
    CASE StoppedPending(W, f)                                   -> "stopped"
      [] \E e \in ToSet(queue) : e.src = f /\ e.type \in {"OK", "ERROR"} -> "result"
      [] OTHER                                                   -> "none"

SrtipcLife == INSTANCE Lifecycle
                WITH life <- LifeOf(ss.fsm, ss.state, StoppedPending(W, "srtipc")),
                     signal <- SignalOf("srtipc")

StreamhdrLife == INSTANCE Lifecycle
                WITH life <- LifeOf(sh.fsm, sh.state, StoppedPending(W, "streamhdr")),
                     signal <- SignalOf("streamhdr")

(* nn_srtipc as its parent (crtipc, artipc) sees it: every stop ends with *)
(* exactly one STOPPED, and it is never idle again before that.           *)
SrtipcImplementsLifecycle == SrtipcLife!Spec

(* nn_streamhdr as srtipc sees it: the same contract, including the wait  *)
(* for the handshake timer in its STOPPING state.                         *)
StreamhdrImplementsLifecycle == StreamhdrLife!Spec

=============================================================================

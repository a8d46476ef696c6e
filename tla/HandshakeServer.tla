-------------------------- MODULE HandshakeServer --------------------------
(***************************************************************************)
(* The part the two end-to-end servers have in common: TlsSinkServer       *)
(* (src/src/e2e/sink-server.ts) and TrafficServer                          *)
(* (src/src/e2e/traffic-server.ts) both keep a single handshake slot on    *)
(* top of a net.Server.  The slot remembers how far the one handshake has  *)
(* come, and the promises that waitForHandshake() has handed out and not   *)
(* settled yet.                                                            *)
(*                                                                         *)
(* done() and fail() are conjuncts of the actions of the handlers that     *)
(* call them, because JavaScript runs a handler to completion.             *)
(* waitForHandshake(), its timeout and stop() are actions of their own.    *)
(*                                                                         *)
(* Abstractions: a HandshakeResult is the connection whose handshake it    *)
(* reports; an Error is one of the five messages the code builds; the      *)
(* arrays of closures are sets of the calls that pushed them (each call    *)
(* pushes one closure, and nothing reads the arrays' order).               *)
(***************************************************************************)
EXTENDS NetServer

CONSTANT
    Callers     \* calls of waitForHandshake()

VARIABLES
    slot,       \* this.state: its tag, and the result or error it carries
    waiters,    \* calls whose resolving closure is in this.waiters
    failers,    \* calls whose rejecting closure is in this.failers
    timers,     \* calls whose timeout is armed
    call        \* call[w]: the promise that call w returned

slotVars == <<slot, waiters, failers, timers, call>>

vars == <<slot, waiters, failers, timers, call, conn, listening, stopCall, closeDue>>

None == "none"

Errors == {"timeout", "stopped", "transport", "tls", "closed"}

(***************************************************************************)
(* The slot as a tagged union: only a done slot carries a result, only a   *)
(* failed one an error.                                                    *)
(***************************************************************************)
Slot(state, value) == [state |-> state, value |-> value]

Settled(status, value) == [status |-> status, value |-> value]

Uncalled == Settled("uncalled", None)

Pending == Settled("pending", None)

PendingCalls == {w \in Callers : call[w].status = "pending"}

SlotInit ==
    /\ slot = Slot("idle", None)
    /\ waiters = {}
    /\ failers = {}
    /\ timers = {}
    /\ call = [w \in Callers |-> Uncalled]

Init == NetInit /\ SlotInit

(***************************************************************************)
(* Run the closures of the calls in ws: each clears its own timer and      *)
(* settles its own promise, which has an effect on a pending promise only. *)
(***************************************************************************)
SettleAll(ws, status, value) ==
    call' = [w \in Callers |->
                IF w \in ws \cap PendingCalls THEN Settled(status, value) ELSE call[w]]

\* Faulty variants of Done: the result is not stored; a failed slot returns
\* early as a done one does.
DoneWithoutResult(result) ==
    /\ slot.state # "done"
    /\ slot' = Slot("done", slot.value)
    /\ SettleAll(waiters, "resolved", result)
    /\ timers' = timers \ waiters
    /\ waiters' = {}
    /\ failers' = {}

DoneUnlessFailed(result) ==
    \/ /\ slot.state \in {"done", "failed"}
       /\ UNCHANGED slotVars
    \/ /\ slot.state \notin {"done", "failed"}
       /\ slot' = Slot("done", result)
       /\ SettleAll(waiters, "resolved", result)
       /\ timers' = timers \ waiters
       /\ waiters' = {}
       /\ failers' = {}

(***************************************************************************)
(* done(result): the slot keeps the first result, and every closure in     *)
(* waiters is run; those in failers are thrown away.                       *)
(***************************************************************************)
Done(result) ==
    \/ /\ slot.state = "done"
       /\ UNCHANGED slotVars
    \/ /\ slot.state # "done"
       /\ slot' = Slot("done", result)
       /\ SettleAll(waiters, "resolved", result)
       /\ timers' = timers \ waiters
       /\ waiters' = {}
       /\ failers' = {}

\* Faulty variants of FailAfter: the waiters are kept; the early return of a
\* done slot is missing; the closures are thrown away without being run.
FailKeepsWaiters(error, fired) ==
    /\ slot.state # "done"
    /\ slot' = Slot("failed", error)
    /\ SettleAll(failers, "rejected", error)
    /\ timers' = timers \ (failers \cup fired)
    /\ failers' = {}
    /\ UNCHANGED waiters

FailUnguarded(error, fired) ==
    /\ slot' = Slot("failed", error)
    /\ SettleAll(failers, "rejected", error)
    /\ timers' = timers \ (failers \cup fired)
    /\ waiters' = {}
    /\ failers' = {}

FailForgetsCalls(error, fired) ==
    /\ slot.state # "done"
    /\ slot' = Slot("failed", error)
    /\ timers' = timers \ (failers \cup fired)
    /\ waiters' = {}
    /\ failers' = {}
    /\ UNCHANGED call

(***************************************************************************)
(* fail(error), called while the timeouts in fired have just gone off.     *)
(***************************************************************************)
FailAfter(error, fired) ==
    \/ /\ slot.state = "done"
       /\ timers' = timers \ fired
       /\ UNCHANGED <<slot, waiters, failers, call>>
    \/ /\ slot.state # "done"
       /\ slot' = Slot("failed", error)
       /\ SettleAll(failers, "rejected", error)
       /\ timers' = timers \ (failers \cup fired)
       /\ waiters' = {}
       /\ failers' = {}

Fail(error) == FailAfter(error, {})

(***************************************************************************)
(* waitForHandshake(): a settled slot answers at once from what it has     *)
(* cached, any other slot queues the call and arms its timeout.            *)
(***************************************************************************)
AnswerFromCache(w) ==
    /\ \/ /\ slot.state = "done"
          /\ call' = [call EXCEPT ![w] = Settled("resolved", slot.value)]
       \/ /\ slot.state = "failed"
          /\ call' = [call EXCEPT ![w] = Settled("rejected", slot.value)]
    /\ UNCHANGED <<slot, waiters, failers, timers>>

\* A faulty variant of Enqueue: the timeout is not armed.
EnqueueWithoutTimer(w) ==
    /\ slot.state \notin {"done", "failed"}
    /\ call' = [call EXCEPT ![w] = Pending]
    /\ waiters' = waiters \cup {w}
    /\ failers' = failers \cup {w}
    /\ UNCHANGED <<slot, timers>>

Enqueue(w) ==
    /\ slot.state \notin {"done", "failed"}
    /\ call' = [call EXCEPT ![w] = Pending]
    /\ waiters' = waiters \cup {w}
    /\ failers' = failers \cup {w}
    /\ timers' = timers \cup {w}
    /\ UNCHANGED slot

WaitForHandshake(w) ==
    /\ call[w] = Uncalled
    /\ AnswerFromCache(w) \/ Enqueue(w)
    /\ UNCHANGED netVars

(***************************************************************************)
(* The timeout of call w.  It fails the slot, hence every call that waits. *)
(***************************************************************************)
TimerFires(w) ==
    /\ w \in timers
    /\ FailAfter("timeout", {w})
    /\ UNCHANGED netVars

\* Faulty variants of Stop: the promise does not wait for the sockets; the
\* server is never closed.
StopWithoutWaiting(s) ==
    /\ stopCall[s] = "uncalled"
    /\ Fail("stopped")
    /\ stopCall' = [stopCall EXCEPT ![s] = "resolved"]
    /\ listening' = FALSE
    /\ UNCHANGED <<conn, closeDue>>

StopWithoutClose(s) ==
    /\ stopCall[s] = "uncalled"
    /\ Fail("stopped")
    /\ stopCall' = [stopCall EXCEPT ![s] = "closing"]
    /\ UNCHANGED <<conn, listening, closeDue>>

(***************************************************************************)
(* stop(): the slot fails first, then the server is closed.                *)
(***************************************************************************)
Stop(s) ==
    /\ stopCall[s] = "uncalled"
    /\ Fail("stopped")
    /\ ServerClose(s)

ServerCloses == EmitClose /\ UNCHANGED slotVars

(***************************************************************************)
(* The peer's socket goes away without an error (end of stream, or the     *)
(* server's own end() answered), which destroys the socket; no handler of  *)
(* the servers runs before the "close" event.                              *)
(***************************************************************************)
Disconnect(c) ==
    /\ conn[c] \in Live
    /\ Destroy(c)
    /\ UNCHANGED slotVars

\* Faulty variant of SocketClosed: the event has no handler.
SocketClosedUnnoticed(c) ==
    /\ conn[c] = "destroyed"
    /\ conn' = [conn EXCEPT ![c] = "closed"]
    /\ UNCHANGED <<slotVars, listening, stopCall, closeDue>>

(***************************************************************************)
(* The "close" event of a destroyed socket past the guard.  The handler    *)
(* fails the slot unless it is done, which fail() checks once more.        *)
(***************************************************************************)
SocketClosed(c) ==
    /\ conn[c] = "destroyed"
    /\ Fail("closed")
    /\ conn' = [conn EXCEPT ![c] = "closed"]
    /\ UNCHANGED <<listening, stopCall, closeDue>>

(***************************************************************************)
(* The guard of onConnection(): with the slot past "idle" the socket is    *)
(* destroyed on the spot, and no handler is attached to it.                *)
(***************************************************************************)
Refuse(c) ==
    /\ slot.state # "idle"
    /\ OpenConns = {}
    /\ conn' = [conn EXCEPT ![c] = "refused"]
    /\ UNCHANGED slotVars

\* Faulty variants of Accept: the guard is missing, or lets a failed slot pass.
AcceptAlways(c, state, phase) ==
    /\ OpenConns = {}
    /\ slot' = Slot(state, None)
    /\ conn' = [conn EXCEPT ![c] = phase]
    /\ UNCHANGED <<waiters, failers, timers, call>>

AcceptUnlessDone(c, state, phase) ==
    /\ slot.state \in {"idle", "failed"}
    /\ OpenConns = {}
    /\ slot' = Slot(state, None)
    /\ conn' = [conn EXCEPT ![c] = phase]
    /\ UNCHANGED <<waiters, failers, timers, call>>

Accept(c, state, phase) ==
    /\ slot.state = "idle"
    /\ OpenConns = {}
    /\ slot' = Slot(state, None)
    /\ conn' = [conn EXCEPT ![c] = phase]
    /\ UNCHANGED <<waiters, failers, timers, call>>

(***************************************************************************)
(* A connection attempt reaches the server: Node drops it, the guard       *)
(* refuses it, or it takes the slot, which enters state, and its socket    *)
(* enters phase.                                                           *)
(***************************************************************************)
OnConnection(c, state, phase) ==
    /\ Arrives(c)
    /\ \/ Dropped(c) /\ UNCHANGED slotVars
       \/ Refuse(c)
       \/ Accept(c, state, phase)
    /\ UNCHANGED <<listening, stopCall, closeDue>>

(***************************************************************************)
(* Node's event loop runs every timer that is armed, emits "close" of      *)
(* every destroyed socket and of a drained server.  Nothing obliges a      *)
(* client to connect, to send or to complete a handshake.                  *)
(***************************************************************************)
EventLoopFairness ==
    /\ \A w \in Callers : WF_vars(TimerFires(w))
    /\ \A c \in Conns : WF_vars(SocketClosed(c))
    /\ WF_vars(ServerCloses)

(***************************************************************************)
(* The clients close their sockets in the end, as those of the test-suite  *)
(* do.  stop() needs it, since server.close() does not touch an open       *)
(* connection; no other property assumes it.                               *)
(***************************************************************************)
ClientsLeave == \A c \in Conns : WF_vars(Disconnect(c))

-----------------------------------------------------------------------------
(***************************************************************************)
(* The types of the slot's variables.                                      *)
(***************************************************************************)
SlotValues ==
    [state : {"idle", "capturing", "handshaking"}, value : {None}]
        \cup [state : {"done"}, value : Conns]
        \cup [state : {"failed"}, value : Errors]

CallValues ==
    {Uncalled, Pending}
        \cup [status : {"resolved"}, value : Conns]
        \cup [status : {"rejected"}, value : Errors]

SlotTypeOK ==
    /\ slot \in SlotValues
    /\ waiters \subseteq Callers
    /\ failers \subseteq Callers
    /\ timers \subseteq Callers
    /\ call \in [Callers -> CallValues]

(***************************************************************************)
(* No call is lost: the promises still pending are exactly those whose     *)
(* closures sit in waiters, in failers, and whose timeout is armed.  done() *)
(* empties failers without running it and fail() empties waiters, so a     *)
(* call in one array only would never settle.                              *)
(***************************************************************************)
NoLostCall ==
    /\ waiters = PendingCalls
    /\ failers = PendingCalls
    /\ timers = PendingCalls

(***************************************************************************)
(* A slot that is done or failed leaves no promise pending: the timeout of *)
(* a call that arrives later is never needed.                              *)
(***************************************************************************)
NoCallBehindVerdict == slot.state \in {"done", "failed"} => PendingCalls = {}

(***************************************************************************)
(* Every call that resolved reports the handshake the slot reports: all    *)
(* the callers of one server see one and the same result.                  *)
(***************************************************************************)
OneResult ==
    \A w \in Callers :
        call[w].status = "resolved" => slot = Slot("done", call[w].value)

(***************************************************************************)
(* The slot is one of the five variants of HandshakeState and carries what *)
(* its variant carries; a promise is settled with a result or an error.    *)
(***************************************************************************)
TypeOK == SlotTypeOK /\ NetTypeOK

(***************************************************************************)
(* The guard of onConnection() and maxConnections let one connection per   *)
(* server past the guard, and the slot is idle only before it.             *)
(***************************************************************************)
GuardedConns == {c \in Conns : conn[c] \in PastGuard}

SingleShot ==
    /\ \A c, d \in GuardedConns : c = d
    /\ slot.state = "idle" => GuardedConns = {}

(***************************************************************************)
(* A slot in the middle of a handshake has a connection behind it that can *)
(* still bring it to a verdict: one being read or handshaking, or one      *)
(* whose "close" event is still to be handled.                             *)
(***************************************************************************)
NotStranded ==
    slot.state \in {"capturing", "handshaking"} =>
        \E c \in Conns : conn[c] \in {"raw", "tls", "writing", "destroyed"}

(***************************************************************************)
(* A handshake that completed is reported whatever else happened: a        *)
(* timeout, an error on another path or stop() before it never hides it.   *)
(***************************************************************************)
CompletedIsReported ==
    \A c \in Conns : conn[c] = "open" => slot = Slot("done", c)

(***************************************************************************)
(* A done slot names a connection whose handshake is over.  This is what   *)
(* keeps onClientHello(), which sets the state without looking at it, from *)
(* undoing a result.                                                       *)
(***************************************************************************)
DoneHasFinished ==
    slot.state = "done" =>
        slot.value \in Conns /\ conn[slot.value] \in {"open", "destroyed", "closed"}

(***************************************************************************)
(* The invariants above together are inductive for both servers.           *)
(***************************************************************************)
SlotInv == SlotTypeOK /\ NoLostCall /\ NoCallBehindVerdict /\ OneResult

ConnInv == SingleShot /\ NotStranded /\ CompletedIsReported /\ DoneHasFinished

ServerInv == SlotInv /\ NetTypeOK /\ ConnInv

(***************************************************************************)
(* The cached result is final: no error, close, timeout, stop() or         *)
(* straggling ClientHello takes a done slot back or changes its result.    *)
(***************************************************************************)
DoneIsFinal == [][slot.state = "done" => UNCHANGED slot]_vars

(***************************************************************************)
(* Every call of waitForHandshake() settles, with no help from a client.   *)
(***************************************************************************)
EveryCallSettles ==
    \A w \in Callers : call[w].status = "pending" ~> call[w].status # "pending"

(***************************************************************************)
(* Every promise of stop() settles, provided that the clients leave.       *)
(***************************************************************************)
StopSettles ==
    ClientsLeave =>
        \A s \in Stoppers :
            stopCall[s] # "uncalled" ~> stopCall[s] \in {"resolved", "rejected"}

(***************************************************************************)
(* stop() resolves for its first call only, and only with the port closed  *)
(* and no socket of the server open.                                       *)
(***************************************************************************)
StopMeansDrained ==
    \A s \in Stoppers :
        stopCall[s] = "resolved" =>
            /\ ~listening
            /\ OpenConns = {}
            /\ \A t \in Stoppers \ {s} : stopCall[t] # "resolved"

(***************************************************************************)
(* What waitForHandshake() promises, as seen by its callers: idle,         *)
(* capturing and handshaking are all one open verdict to them.             *)
(***************************************************************************)
VerdictState ==
    CASE slot.state = "done" -> "ok"
      [] slot.state = "failed" -> "err"
      [] OTHER -> "open"

Contract == INSTANCE OneShotSlot
    WITH Results <- Conns, Reasons <- Errors,
         verdict <- [state |-> VerdictState, value |-> slot.value], call <- call

(***************************************************************************)
(* The server implements the contract of waitForHandshake(): what its      *)
(* callers see is a behaviour of OneShotSlot.                              *)
(***************************************************************************)
ImplementsContract == Contract!Spec

=============================================================================

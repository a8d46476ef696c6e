----------------------- MODULE HandshakeServerProofs -----------------------
(***************************************************************************)
(* Proofs about the part the two servers share.  Each lemma says what one  *)
(* operation of HandshakeServer does to the invariant ServerInv; the       *)
(* modules SinkServerProofs and TrafficServerProofs put them together.     *)
(***************************************************************************)
EXTENDS HandshakeServer, TLAPS

(***************************************************************************)
(* The initial state satisfies the invariant.                              *)
(***************************************************************************)
LEMMA InitInv == Init => ServerInv
<1> SUFFICES ASSUME Init PROVE ServerInv
  OBVIOUS
<1> USE DEF Init, SlotInit, NetInit, Slot, Settled, Uncalled, Pending, PendingCalls
<1>1. SlotTypeOK
  BY DEF SlotTypeOK, SlotValues, CallValues
<1>2. NoLostCall /\ NoCallBehindVerdict /\ OneResult
  BY DEF NoLostCall, NoCallBehindVerdict, OneResult
<1>3. NetTypeOK
  BY DEF NetTypeOK, Phases
<1>4. ConnInv
  BY DEF ConnInv, SingleShot, NotStranded, CompletedIsReported, DoneHasFinished,
         GuardedConns, PastGuard, Live
<1> QED
  BY <1>1, <1>2, <1>3, <1>4 DEF ServerInv, SlotInv

(***************************************************************************)
(* fail() keeps the slot's part of the invariant.  A done slot stays as it *)
(* is, any other becomes failed with the error given.                      *)
(***************************************************************************)
LEMMA FailKeepsSlotInv ==
  ASSUME SlotInv, NEW error \in Errors, NEW fired \in SUBSET Callers,
         FailAfter(error, fired)
  PROVE  /\ SlotInv'
         /\ slot.state = "done" => slot' = slot
         /\ slot.state # "done" => slot' = Slot("failed", error)
<1> USE DEF SlotInv
<1>1. CASE slot.state = "done"
  <2>1. /\ timers' = timers \ fired
        /\ slot' = slot /\ waiters' = waiters /\ failers' = failers /\ call' = call
    BY <1>1 DEF FailAfter
  <2>2. PendingCalls' = PendingCalls /\ PendingCalls = {}
    BY <1>1, <2>1 DEF PendingCalls, NoCallBehindVerdict
  <2>3. SlotTypeOK'
    BY <2>1 DEF SlotTypeOK
  <2>4. NoLostCall'
    BY <2>1, <2>2 DEF NoLostCall
  <2>5. NoCallBehindVerdict'
    BY <2>2 DEF NoCallBehindVerdict
  <2>6. OneResult'
    BY <2>1 DEF OneResult
  <2> QED
    BY <1>1, <2>1, <2>3, <2>4, <2>5, <2>6
<1>2. CASE slot.state # "done"
  <2>1. /\ slot' = Slot("failed", error)
        /\ SettleAll(failers, "rejected", error)
        /\ timers' = timers \ (failers \cup fired)
        /\ waiters' = {} /\ failers' = {}
    BY <1>2 DEF FailAfter
  <2>2. failers = PendingCalls /\ timers = PendingCalls
    BY DEF NoLostCall
  <2>3. call' = [w \in Callers |->
                    IF w \in PendingCalls THEN Settled("rejected", error) ELSE call[w]]
    BY <2>1, <2>2 DEF SettleAll
  <2>4. SlotTypeOK'
    BY <2>1, <2>3 DEF SlotTypeOK, SlotValues, Slot, CallValues, Settled
  <2>5. PendingCalls' = {}
    BY <2>3 DEF PendingCalls, Settled
  <2>6. NoLostCall' /\ NoCallBehindVerdict'
    BY <2>1, <2>2, <2>5 DEF NoLostCall, NoCallBehindVerdict
  <2>7. OneResult'
    <3> SUFFICES ASSUME NEW w \in Callers, call'[w].status = "resolved"
                 PROVE  FALSE
      BY DEF OneResult
    <3>1. call[w].status = "resolved"
      BY <2>3 DEF Settled
    <3> QED
      BY <1>2, <3>1 DEF OneResult, Slot
  <2> QED
    BY <1>2, <2>1, <2>4, <2>6, <2>7
<1> QED
  BY <1>1, <1>2

(***************************************************************************)
(* done() keeps the slot's part of the invariant and leaves a done slot,   *)
(* which keeps the first result.                                           *)
(***************************************************************************)
LEMMA DoneKeepsSlotInv ==
  ASSUME SlotInv, NEW result \in Conns, Done(result)
  PROVE  /\ SlotInv'
         /\ slot.state = "done" => slot' = slot
         /\ slot.state # "done" => slot' = Slot("done", result)
<1> USE DEF SlotInv
<1>1. CASE slot.state = "done"
  <2>1. UNCHANGED slotVars
    BY <1>1 DEF Done
  <2> QED
    BY <1>1, <2>1 DEF slotVars, SlotTypeOK, NoLostCall, NoCallBehindVerdict, OneResult,
                      PendingCalls
<1>2. CASE slot.state # "done"
  <2>1. /\ slot' = Slot("done", result)
        /\ SettleAll(waiters, "resolved", result)
        /\ timers' = timers \ waiters
        /\ waiters' = {} /\ failers' = {}
    BY <1>2 DEF Done
  <2>2. waiters = PendingCalls /\ timers = PendingCalls
    BY DEF NoLostCall
  <2>3. call' = [w \in Callers |->
                    IF w \in PendingCalls THEN Settled("resolved", result) ELSE call[w]]
    BY <2>1, <2>2 DEF SettleAll
  <2>4. SlotTypeOK'
    BY <2>1, <2>3 DEF SlotTypeOK, SlotValues, Slot, CallValues, Settled
  <2>5. PendingCalls' = {}
    BY <2>3 DEF PendingCalls, Settled
  <2>6. NoLostCall' /\ NoCallBehindVerdict'
    BY <2>1, <2>2, <2>5 DEF NoLostCall, NoCallBehindVerdict
  <2>7. \A w \in Callers : call[w].status # "resolved"
    BY <1>2 DEF OneResult, Slot
  <2>8. OneResult'
    BY <2>1, <2>3, <2>7 DEF OneResult, Settled
  <2> QED
    BY <1>2, <2>1, <2>4, <2>6, <2>8
<1> QED
  BY <1>1, <1>2

(***************************************************************************)
(* waitForHandshake() keeps the slot's part of the invariant: a call is    *)
(* queued only by a slot that has no verdict yet.                          *)
(***************************************************************************)
LEMMA WaitKeepsSlotInv ==
  ASSUME SlotInv, NEW w \in Callers, WaitForHandshake(w)
  PROVE  SlotInv' /\ slot' = slot /\ UNCHANGED netVars
<1> USE DEF SlotInv
<1>1. call[w] = Uncalled /\ w \notin PendingCalls /\ UNCHANGED netVars
  BY DEF WaitForHandshake, Uncalled, Settled, PendingCalls
<1>2. CASE AnswerFromCache(w)
  <2>1. /\ slot' = slot /\ waiters' = waiters /\ failers' = failers /\ timers' = timers
        /\ \/ /\ slot.state = "done"
              /\ call' = [call EXCEPT ![w] = Settled("resolved", slot.value)]
           \/ /\ slot.state = "failed"
              /\ call' = [call EXCEPT ![w] = Settled("rejected", slot.value)]
    BY <1>2 DEF AnswerFromCache
  <2>2. SlotTypeOK'
    BY <2>1 DEF SlotTypeOK, SlotValues, CallValues, Settled
  <2>3. PendingCalls' = PendingCalls
    BY <1>1, <2>1 DEF PendingCalls, SlotTypeOK, Settled
  <2>4. NoLostCall' /\ NoCallBehindVerdict'
    BY <2>1, <2>3 DEF NoLostCall, NoCallBehindVerdict
  <2>5. OneResult'
    BY <2>1 DEF OneResult, SlotTypeOK, SlotValues, Settled, Slot
  <2> QED
    BY <1>1, <2>1, <2>2, <2>4, <2>5
<1>3. CASE Enqueue(w)
  <2>1. /\ slot.state \notin {"done", "failed"}
        /\ call' = [call EXCEPT ![w] = Pending]
        /\ waiters' = waiters \cup {w}
        /\ failers' = failers \cup {w}
        /\ timers' = timers \cup {w}
        /\ slot' = slot
    BY <1>3 DEF Enqueue
  <2>2. SlotTypeOK'
    BY <2>1 DEF SlotTypeOK, CallValues
  <2>3. PendingCalls' = PendingCalls \cup {w}
    BY <2>1 DEF PendingCalls, SlotTypeOK, Pending, Settled
  <2>4. NoLostCall' /\ NoCallBehindVerdict'
    BY <2>1, <2>3 DEF NoLostCall, NoCallBehindVerdict
  <2>5. OneResult'
    BY <2>1 DEF OneResult, SlotTypeOK, Pending, Settled
  <2> QED
    BY <1>1, <2>1, <2>2, <2>4, <2>5
<1> QED
  BY <1>2, <1>3 DEF WaitForHandshake

(***************************************************************************)
(* With the slot changed by fail() alone and a connection at most moving   *)
(* on from raw, tls, writing or destroyed to destroyed or closed, the      *)
(* connections' part of the invariant holds afterwards.                    *)
(***************************************************************************)
Fails(error) ==
    /\ slot.state = "done" => slot' = slot
    /\ slot.state # "done" => slot' = Slot("failed", error)

LEMMA FailKeepsConnInv ==
  ASSUME ConnInv, NetTypeOK, NEW error \in Errors, Fails(error), conn' = conn
  PROVE  ConnInv'
<1>1. SingleShot'
  BY DEF ConnInv, SingleShot, GuardedConns, Fails, Slot
<1>2. NotStranded'
  BY DEF ConnInv, NotStranded, Fails, Slot
<1>3. CompletedIsReported'
  BY DEF ConnInv, CompletedIsReported, Fails, Slot
<1>4. DoneHasFinished'
  BY DEF ConnInv, DoneHasFinished, Fails, Slot
<1> QED
  BY <1>1, <1>2, <1>3, <1>4 DEF ConnInv

LEMMA FailAndDestroyKeepConnInv ==
  ASSUME ConnInv, NetTypeOK, NEW error \in Errors, Fails(error),
         NEW c \in Conns, conn[c] \in Live \cup {"destroyed"},
         NEW phase \in {"destroyed", "closed"}, conn' = [conn EXCEPT ![c] = phase]
  PROVE  ConnInv'
<1> USE DEF ConnInv, NetTypeOK, Live, PastGuard, Phases
<1>1. c \in GuardedConns /\ GuardedConns' = GuardedConns
  BY DEF GuardedConns
<1>2. SingleShot'
  BY <1>1 DEF SingleShot, Fails, Slot
<1>3. NotStranded'
  BY DEF NotStranded, Fails, Slot
<1>4. CompletedIsReported'
  BY <1>1 DEF CompletedIsReported, SingleShot, GuardedConns, Slot
<1>5. DoneHasFinished'
  BY DEF DoneHasFinished, Fails, Slot
<1> QED
  BY <1>2, <1>3, <1>4, <1>5

(***************************************************************************)
(* The actions the two servers share keep the invariant.                   *)
(***************************************************************************)
LEMMA WaitInv ==
  ASSUME ServerInv, NEW w \in Callers, WaitForHandshake(w)
  PROVE  ServerInv' /\ slot' = slot
<1>1. SlotInv' /\ slot' = slot /\ UNCHANGED netVars
  BY WaitKeepsSlotInv DEF ServerInv
<1>2. NetTypeOK' /\ ConnInv'
  BY <1>1 DEF ServerInv, netVars, NetTypeOK, ConnInv, SingleShot, NotStranded,
              CompletedIsReported, DoneHasFinished, GuardedConns
<1> QED
  BY <1>1, <1>2 DEF ServerInv

LEMMA TimerInv ==
  ASSUME ServerInv, NEW w \in Callers, TimerFires(w)
  PROVE  ServerInv' /\ Fails("timeout")
<1>1. "timeout" \in Errors /\ FailAfter("timeout", {w}) /\ UNCHANGED netVars
  BY DEF TimerFires, Errors
<1>2. SlotInv' /\ Fails("timeout")
  BY <1>1, FailKeepsSlotInv DEF ServerInv, Fails
<1>3. conn' = conn /\ NetTypeOK'
  BY <1>1 DEF ServerInv, netVars, NetTypeOK
<1>4. ConnInv'
  BY <1>1, <1>2, <1>3, FailKeepsConnInv DEF ServerInv
<1> QED
  BY <1>2, <1>3, <1>4 DEF ServerInv

LEMMA StopInv ==
  ASSUME ServerInv, NEW s \in Stoppers, Stop(s)
  PROVE  ServerInv' /\ Fails("stopped")
<1>1. "stopped" \in Errors /\ FailAfter("stopped", {}) /\ ServerClose(s)
  BY DEF Stop, Fail, Errors
<1>2. SlotInv' /\ Fails("stopped")
  BY <1>1, FailKeepsSlotInv DEF ServerInv, Fails
<1>3. conn' = conn /\ NetTypeOK'
  BY <1>1 DEF ServerInv, ServerClose, NetTypeOK
<1>4. ConnInv'
  BY <1>1, <1>2, <1>3, FailKeepsConnInv DEF ServerInv
<1> QED
  BY <1>2, <1>3, <1>4 DEF ServerInv

LEMMA ServerClosesInv ==
  ASSUME ServerInv, ServerCloses
  PROVE  ServerInv' /\ slot' = slot
<1>1. UNCHANGED slotVars /\ conn' = conn
  BY DEF ServerCloses, EmitClose
<1>2. SlotInv' /\ slot' = slot
  BY <1>1 DEF ServerInv, slotVars, SlotInv, SlotTypeOK, NoLostCall, NoCallBehindVerdict,
              OneResult, PendingCalls
<1>3. NetTypeOK'
  BY DEF ServerInv, ServerCloses, EmitClose, NetTypeOK
<1>4. ConnInv'
  BY <1>1, <1>2 DEF ServerInv, ConnInv, SingleShot, NotStranded, CompletedIsReported,
                    DoneHasFinished, GuardedConns
<1> QED
  BY <1>2, <1>3, <1>4 DEF ServerInv

(***************************************************************************)
(* An error that destroys a live socket: RawError, TlsError.               *)
(***************************************************************************)
LEMMA FatalErrorInv ==
  ASSUME ServerInv, NEW c \in Conns, conn[c] \in Live,
         NEW error \in Errors, Fail(error), Destroy(c)
  PROVE  ServerInv' /\ Fails(error)
<1>1. SlotInv' /\ Fails(error)
  BY FailKeepsSlotInv DEF Fail, ServerInv, Fails
<1>2. conn' = [conn EXCEPT ![c] = "destroyed"] /\ NetTypeOK'
  BY DEF ServerInv, Destroy, NetTypeOK, Phases, PastGuard
<1>3. ConnInv'
  BY <1>1, <1>2, FailAndDestroyKeepConnInv DEF ServerInv
<1> QED
  BY <1>1, <1>2, <1>3 DEF ServerInv

LEMMA SocketClosedInv ==
  ASSUME ServerInv, NEW c \in Conns, SocketClosed(c)
  PROVE  ServerInv' /\ Fails("closed")
<1>1. "closed" \in Errors /\ FailAfter("closed", {}) /\ conn[c] = "destroyed"
  BY DEF SocketClosed, Fail, Errors
<1>2. SlotInv' /\ Fails("closed")
  BY <1>1, FailKeepsSlotInv DEF ServerInv, Fails
<1>3. conn' = [conn EXCEPT ![c] = "closed"] /\ NetTypeOK'
  BY DEF ServerInv, SocketClosed, NetTypeOK, Phases, PastGuard
<1>4. ConnInv'
  BY <1>1, <1>2, <1>3, FailAndDestroyKeepConnInv DEF ServerInv
<1> QED
  BY <1>2, <1>3, <1>4 DEF ServerInv

LEMMA DisconnectInv ==
  ASSUME ServerInv, NEW c \in Conns, Disconnect(c)
  PROVE  ServerInv' /\ slot' = slot
<1> USE DEF Live, PastGuard, Phases
<1>1. UNCHANGED slotVars /\ conn[c] \in Live /\ conn' = [conn EXCEPT ![c] = "destroyed"]
  BY DEF Disconnect, Destroy
<1>2. SlotInv' /\ slot' = slot
  BY <1>1 DEF ServerInv, slotVars, SlotInv, SlotTypeOK, NoLostCall, NoCallBehindVerdict,
              OneResult, PendingCalls
<1>3. NetTypeOK /\ NetTypeOK'
  BY DEF ServerInv, Disconnect, Destroy, NetTypeOK
<1>4. c \in GuardedConns /\ GuardedConns' = GuardedConns
  BY <1>1, <1>3 DEF GuardedConns, NetTypeOK
<1>5. SingleShot'
  BY <1>2, <1>4 DEF ServerInv, ConnInv, SingleShot
<1>6. NotStranded'
  BY <1>1, <1>2, <1>3 DEF NotStranded, ServerInv, ConnInv, NetTypeOK
<1>7. CompletedIsReported' /\ DoneHasFinished'
  BY <1>1, <1>2, <1>3 DEF CompletedIsReported, DoneHasFinished, ServerInv, ConnInv, NetTypeOK
<1> QED
  BY <1>2, <1>3, <1>5, <1>6, <1>7 DEF ServerInv, ConnInv

LEMMA OnConnectionInv ==
  ASSUME ServerInv, NEW c \in Conns, NEW state \in {"capturing", "handshaking"},
         NEW phase \in {"raw", "tls"}, OnConnection(c, state, phase)
  PROVE  ServerInv' /\ (slot.state # "idle" => slot' = slot)
<1> USE DEF Live, PastGuard, Phases
<1>1. conn[c] = "none" /\ UNCHANGED <<listening, stopCall, closeDue>>
  BY DEF OnConnection, Arrives
<1>2. SlotInv /\ NetTypeOK /\ ConnInv
  BY DEF ServerInv
<1>3. ASSUME NEW out \in {"dropped", "refused"},
             conn' = [conn EXCEPT ![c] = out], UNCHANGED slotVars
      PROVE  ServerInv' /\ slot' = slot
  <2>1. SlotInv' /\ slot' = slot
    BY <1>2, <1>3 DEF slotVars, SlotInv, SlotTypeOK, NoLostCall, NoCallBehindVerdict,
                      OneResult, PendingCalls
  <2>2. NetTypeOK'
    BY <1>1, <1>2, <1>3 DEF NetTypeOK
  <2>3. \A d \in Conns : conn'[d] # conn[d] => d = c
    BY <1>2, <1>3 DEF NetTypeOK
  <2>4. conn'[c] = out
    BY <1>2, <1>3 DEF NetTypeOK
  <2>5. GuardedConns' = GuardedConns
    BY <1>1, <2>3, <2>4 DEF GuardedConns
  <2>6. ConnInv'
    BY <1>1, <1>2, <2>1, <2>3, <2>4, <2>5
       DEF ConnInv, SingleShot, NotStranded, CompletedIsReported, DoneHasFinished
  <2> QED
    BY <2>1, <2>2, <2>6 DEF ServerInv
<1>4. CASE Accept(c, state, phase)
  <2>1. /\ slot.state = "idle"
        /\ slot' = Slot(state, None)
        /\ conn' = [conn EXCEPT ![c] = phase]
        /\ waiters' = waiters /\ failers' = failers /\ timers' = timers /\ call' = call
    BY <1>4 DEF Accept
  <2>2. SlotTypeOK' /\ NoLostCall'
    BY <1>2, <2>1 DEF SlotInv, SlotTypeOK, SlotValues, Slot, NoLostCall, PendingCalls
  <2>3. NoCallBehindVerdict' /\ OneResult'
    BY <1>2, <2>1 DEF SlotInv, NoCallBehindVerdict, OneResult, Slot
  <2>4. NetTypeOK'
    BY <1>1, <1>2, <2>1 DEF NetTypeOK
  <2>5. GuardedConns = {}
    BY <1>2, <2>1 DEF ConnInv, SingleShot
  <2>6. conn'[c] = phase /\ \A d \in Conns \ {c} : conn'[d] = conn[d]
    BY <1>2, <2>1 DEF NetTypeOK
  <2>7. GuardedConns' = {c}
    BY <2>5, <2>6 DEF GuardedConns
  <2>8. SingleShot' /\ NotStranded'
    BY <2>1, <2>6, <2>7 DEF SingleShot, NotStranded, Slot
  <2>9. CompletedIsReported' /\ DoneHasFinished'
    BY <2>1, <2>5, <2>6 DEF CompletedIsReported, DoneHasFinished, Slot, GuardedConns
  <2> QED
    BY <2>1, <2>2, <2>3, <2>4, <2>8, <2>9 DEF ServerInv, SlotInv, ConnInv
<1> QED
  BY <1>3, <1>4 DEF OnConnection, Dropped, Refuse

-----------------------------------------------------------------------------
(***************************************************************************)
(* The steps of the servers as steps of the contract OneShotSlot.  An open *)
(* verdict carries no value, so idle, capturing and handshaking all map to *)
(* the same abstract verdict.                                              *)
(***************************************************************************)
AbstractVerdict == [state |-> VerdictState, value |-> slot.value]

LEMMA OpenVerdict ==
  ASSUME SlotTypeOK, slot.state \notin {"done", "failed"}
  PROVE  AbstractVerdict = [state |-> "open", value |-> "none"]
BY DEF SlotTypeOK, SlotValues, VerdictState, AbstractVerdict, None

LEMMA InitRefines == Init => Contract!Init
BY DEF Init, SlotInit, Slot, None, Uncalled, Settled, VerdictState,
       Contract!Init, Contract!Verdict, Contract!Answer, Contract!NoValue

LEMMA StutterRefines ==
  ASSUME slot' = slot, call' = call
  PROVE  UNCHANGED Contract!vars
BY DEF Contract!vars, VerdictState

LEMMA FailRefines ==
  ASSUME SlotInv, NEW error \in Errors, NEW fired \in SUBSET Callers,
         FailAfter(error, fired)
  PROVE  Contract!FailFor(error) \/ UNCHANGED Contract!vars
<1>1. CASE slot.state = "done"
  BY <1>1, StutterRefines DEF FailAfter
<1>2. CASE slot.state # "done"
  <2>1. /\ slot' = Slot("failed", error)
        /\ SettleAll(failers, "rejected", error)
    BY <1>2 DEF FailAfter
  <2>2. call' = [w \in Callers |->
                    IF w \in PendingCalls THEN Settled("rejected", error) ELSE call[w]]
    BY <2>1 DEF SettleAll, SlotInv, NoLostCall
  <2>3. VerdictState # "ok" /\ AbstractVerdict' = [state |-> "err", value |-> error]
    BY <1>2, <2>1 DEF VerdictState, AbstractVerdict, Slot
  <2>4. Contract!FailFor(error)
    BY <2>2, <2>3 DEF Contract!FailFor, Contract!Verdict, Contract!AnswerWaiting,
       Contract!Answer, Contract!Waiting, AbstractVerdict, PendingCalls, Settled
  <2> QED
    BY <2>4
<1> QED
  BY <1>1, <1>2

LEMMA DoneRefines ==
  ASSUME SlotInv, NEW result \in Conns, Done(result)
  PROVE  Contract!Succeed(result) \/ UNCHANGED Contract!vars
<1>1. CASE slot.state = "done"
  BY <1>1, StutterRefines DEF Done, slotVars
<1>2. CASE slot.state # "done"
  <2>1. /\ slot' = Slot("done", result)
        /\ SettleAll(waiters, "resolved", result)
    BY <1>2 DEF Done
  <2>2. call' = [w \in Callers |->
                    IF w \in PendingCalls THEN Settled("resolved", result) ELSE call[w]]
    BY <2>1 DEF SettleAll, SlotInv, NoLostCall
  <2>3. VerdictState # "ok" /\ AbstractVerdict' = [state |-> "ok", value |-> result]
    BY <1>2, <2>1 DEF VerdictState, AbstractVerdict, Slot
  <2>4. Contract!Succeed(result)
    BY <2>2, <2>3 DEF Contract!Succeed, Contract!Verdict, Contract!AnswerWaiting,
       Contract!Answer, Contract!Waiting, AbstractVerdict, PendingCalls, Settled
  <2> QED
    BY <2>4
<1> QED
  BY <1>1, <1>2

LEMMA WaitRefines ==
  ASSUME SlotInv, NEW w \in Callers, WaitForHandshake(w)
  PROVE  Contract!Call(w)
<1>1. call[w].status = "uncalled" /\ slot' = slot
  BY WaitKeepsSlotInv DEF WaitForHandshake, Uncalled, Settled
<1>2. UNCHANGED AbstractVerdict
  BY <1>1 DEF AbstractVerdict, VerdictState
<1>3. \/ /\ slot.state = "done"
         /\ call' = [call EXCEPT ![w] = Settled("resolved", slot.value)]
      \/ /\ slot.state = "failed"
         /\ call' = [call EXCEPT ![w] = Settled("rejected", slot.value)]
      \/ /\ slot.state \notin {"done", "failed"}
         /\ call' = [call EXCEPT ![w] = Pending]
  BY DEF WaitForHandshake, AnswerFromCache, Enqueue
<1> QED
  BY <1>1, <1>2, <1>3 DEF Contract!Call, Contract!Answer, Contract!NoValue,
     AbstractVerdict, VerdictState, Pending, Settled, None

LEMMA OnConnectionRefines ==
  ASSUME SlotTypeOK, NEW c, NEW state \in {"capturing", "handshaking"}, NEW phase,
         OnConnection(c, state, phase)
  PROVE  UNCHANGED Contract!vars
<1>1. CASE UNCHANGED slotVars
  BY <1>1, StutterRefines DEF slotVars
<1>2. CASE Accept(c, state, phase)
  <2>1. slot.state = "idle" /\ slot' = Slot(state, None) /\ call' = call
    BY <1>2 DEF Accept
  <2>2. AbstractVerdict = [state |-> "open", value |-> "none"]
    BY <2>1, OpenVerdict
  <2>3. AbstractVerdict' = [state |-> "open", value |-> "none"]
    BY <2>1 DEF AbstractVerdict, VerdictState, Slot, None
  <2> QED
    BY <2>1, <2>2, <2>3 DEF Contract!vars, AbstractVerdict
<1> QED
  BY <1>1, <1>2 DEF OnConnection, Refuse

-----------------------------------------------------------------------------
(***************************************************************************)
(* Draining.  The server's "close" event is due only after the first       *)
(* stop(), and with no socket open; from the first stop() on no connection *)
(* opens any more.                                                         *)
(***************************************************************************)
FirstStops == {s \in Stoppers : stopCall[s] \in {"closing", "resolved"}}

DrainInv ==
    /\ listening => ~closeDue /\ \A s \in Stoppers : stopCall[s] = "uncalled"
    /\ closeDue => OpenConns = {}
    /\ \A s, t \in FirstStops : s = t
    /\ \A s \in Stoppers : stopCall[s] = "resolved" => ~listening /\ OpenConns = {}

LEMMA DrainInit == Init => DrainInv
BY DEF Init, NetInit, DrainInv, FirstStops

LEMMA DrainStop ==
  ASSUME DrainInv, NetTypeOK, NEW s \in Stoppers, Stop(s)
  PROVE  DrainInv'
<1>1. /\ stopCall' = [stopCall EXCEPT ![s] = IF listening THEN "closing" ELSE "late"]
      /\ listening' = FALSE
      /\ closeDue' = (closeDue \/ OpenConns = {})
      /\ conn' = conn
  BY DEF Stop, ServerClose
<1>2. OpenConns' = OpenConns
  BY <1>1 DEF OpenConns
<1>3. CASE listening
  <2>1. FirstStops' = {s}
    BY <1>1, <1>3 DEF DrainInv, FirstStops, NetTypeOK
  <2> QED
    BY <1>1, <1>2, <1>3, <2>1 DEF DrainInv, NetTypeOK
<1>4. CASE ~listening
  <2>1. FirstStops' \subseteq FirstStops
    BY <1>1, <1>4 DEF FirstStops, NetTypeOK
  <2> QED
    BY <1>1, <1>2, <1>4, <2>1 DEF DrainInv, NetTypeOK
<1> QED
  BY <1>3, <1>4

LEMMA DrainClose ==
  ASSUME DrainInv, NetTypeOK, ServerCloses
  PROVE  DrainInv'
<1>1. /\ closeDue /\ closeDue' = FALSE /\ conn' = conn /\ listening' = listening
      /\ stopCall' = [s \in Stoppers |->
                          CASE stopCall[s] = "closing" -> "resolved"
                            [] stopCall[s] = "late" -> "rejected"
                            [] OTHER -> stopCall[s]]
  BY DEF ServerCloses, EmitClose
<1>2. OpenConns' = {} /\ ~listening'
  BY <1>1 DEF DrainInv, OpenConns
<1>3. FirstStops' = FirstStops
  BY <1>1 DEF FirstStops, NetTypeOK
<1> QED
  BY <1>1, <1>2, <1>3 DEF DrainInv

LEMMA DrainDestroy ==
  ASSUME DrainInv, NetTypeOK, NEW c \in Conns, Destroy(c)
  PROVE  DrainInv'
<1>1. /\ conn' = [conn EXCEPT ![c] = "destroyed"]
      /\ closeDue' = (closeDue \/ (~listening /\ OpenConns \subseteq {c}))
      /\ listening' = listening /\ stopCall' = stopCall
  BY DEF Destroy
<1>2. OpenConns' = OpenConns \ {c} /\ FirstStops' = FirstStops
  BY <1>1 DEF OpenConns, FirstStops, NetTypeOK, Live
<1> QED
  BY <1>1, <1>2 DEF DrainInv

(***************************************************************************)
(* Every other step opens a connection only on a listening server.         *)
(***************************************************************************)
LEMMA DrainOther ==
  ASSUME DrainInv, UNCHANGED <<listening, stopCall, closeDue>>,
         listening \/ OpenConns' \subseteq OpenConns
  PROVE  DrainInv'
<1>1. FirstStops' = FirstStops
  BY DEF FirstStops
<1> QED
  BY <1>1 DEF DrainInv

=============================================================================

------------------------ MODULE TrafficServerProofs ------------------------
(***************************************************************************)
(* Theorems about the traffic server, for any sets of calls, connections   *)
(* and stops.                                                              *)
(***************************************************************************)
EXTENDS TrafficServer, HandshakeServerProofs

(***************************************************************************)
(* A connection whose handshake or response is still under way is the only *)
(* one past the guard, so the slot is not done yet.                        *)
(***************************************************************************)
LEMMA NotDoneYet ==
  ASSUME ServerInv, NEW c \in Conns, conn[c] \in {"tls", "writing"}
  PROVE  /\ slot.state # "done"
         /\ c \in GuardedConns
         /\ \A d \in GuardedConns : d = c
<1>1. c \in GuardedConns /\ \A d \in GuardedConns : d = c
  BY DEF ServerInv, ConnInv, SingleShot, GuardedConns, PastGuard, Live
<1>2. slot.state # "done"
  BY <1>1 DEF ServerInv, ConnInv, DoneHasFinished, GuardedConns, PastGuard, Live
<1> QED
  BY <1>1, <1>2

(***************************************************************************)
(* The end of the handshake alone leaves the slot as it is.                *)
(***************************************************************************)
LEMMA SecureInv ==
  ASSUME ServerInv, NEW c \in Conns, Secure(c)
  PROVE  ServerInv' /\ slot' = slot
<1> USE DEF Live, PastGuard, Phases
<1>1. /\ conn[c] = "tls"
      /\ conn' = [conn EXCEPT ![c] = "writing"]
      /\ UNCHANGED <<slotVars, listening, stopCall, closeDue>>
  BY DEF Secure
<1>2. SlotInv' /\ slot' = slot
  BY <1>1 DEF ServerInv, slotVars, SlotInv, SlotTypeOK, NoLostCall, NoCallBehindVerdict,
              OneResult, PendingCalls
<1>3. NetTypeOK /\ NetTypeOK'
  BY <1>1 DEF ServerInv, NetTypeOK
<1>4. c \in GuardedConns /\ \A d \in GuardedConns : d = c
  BY <1>1, NotDoneYet
<1>5. conn'[c] = "writing" /\ \A d \in Conns \ {c} : conn'[d] = conn[d]
  BY <1>1, <1>3 DEF NetTypeOK
<1>6. GuardedConns' = GuardedConns
  BY <1>1, <1>5 DEF GuardedConns
<1>7. SingleShot' /\ NotStranded'
  BY <1>2, <1>4, <1>5, <1>6 DEF ServerInv, ConnInv, SingleShot, NotStranded
<1>8. CompletedIsReported' /\ DoneHasFinished'
  BY <1>1, <1>2, <1>4, <1>5 DEF ServerInv, ConnInv, CompletedIsReported, DoneHasFinished,
                                GuardedConns
<1> QED
  BY <1>2, <1>3, <1>7, <1>8 DEF ServerInv, ConnInv

(***************************************************************************)
(* The callback of the write, with or without an error: the slot is done.  *)
(***************************************************************************)
LEMMA WriteCallbackInv ==
  ASSUME ServerInv, NEW c \in Conns, conn[c] = "writing", Done(c), NetTypeOK',
         NEW phase \in {"open", "destroyed"}, conn' = [conn EXCEPT ![c] = phase]
  PROVE  ServerInv' /\ slot.state # "done" /\ slot' = Slot("done", c)
<1> USE DEF Live, PastGuard, Phases
<1>1. SlotInv /\ NetTypeOK /\ ConnInv
  BY DEF ServerInv
<1>2. slot.state # "done" /\ c \in GuardedConns /\ \A d \in GuardedConns : d = c
  BY NotDoneYet
<1>3. SlotInv' /\ slot' = Slot("done", c)
  BY <1>1, <1>2, DoneKeepsSlotInv
<1>4. conn'[c] = phase /\ \A d \in Conns \ {c} : conn'[d] = conn[d]
  BY <1>1 DEF NetTypeOK
<1>5. GuardedConns' = GuardedConns
  BY <1>4 DEF GuardedConns
<1>6. SingleShot' /\ NotStranded'
  BY <1>2, <1>3, <1>5 DEF SingleShot, NotStranded, Slot
<1>7. CompletedIsReported' /\ DoneHasFinished'
  BY <1>2, <1>3, <1>4 DEF CompletedIsReported, DoneHasFinished, GuardedConns, Slot
<1> QED
  BY <1>2, <1>3, <1>6, <1>7 DEF ServerInv, ConnInv

LEMMA ResponseWrittenInv ==
  ASSUME ServerInv, NEW c \in Conns, ResponseWritten(c)
  PROVE  ServerInv' /\ slot.state # "done" /\ slot' = Slot("done", c)
<1>1. NetTypeOK'
  BY DEF ServerInv, ResponseWritten, NetTypeOK, Phases, PastGuard, Live
<1> QED
  BY <1>1, WriteCallbackInv DEF ResponseWritten

LEMMA WriteFailsInv ==
  ASSUME ServerInv, NEW c \in Conns, WriteFails(c)
  PROVE  ServerInv' /\ slot.state # "done" /\ slot' = Slot("done", c)
<1>1. NetTypeOK'
  BY DEF ServerInv, WriteFails, Destroy, NetTypeOK, Phases, PastGuard
<1> QED
  BY <1>1, WriteCallbackInv DEF WriteFails, Destroy

(***************************************************************************)
(* Every step keeps the invariant, leaves a done slot as it is, and is a   *)
(* step of the contract without Reopen; it takes a failed slot to another  *)
(* state only by the callback of a write.                                  *)
(***************************************************************************)
StepFacts ==
    /\ ServerInv'
    /\ slot.state = "done" => slot' = slot
    /\ slot.state = "failed" /\ slot'.state # "failed" =>
          \E c \in Conns : conn[c] = "writing" /\ slot' = Slot("done", c)
    /\ Contract!ClosedNext \/ UNCHANGED Contract!vars

LEMMA FailFacts ==
  ASSUME ServerInv, ServerInv', NEW error \in Errors, NEW fired \in SUBSET Callers,
         FailAfter(error, fired), Fails(error)
  PROVE  StepFacts
<1>1. Contract!FailFor(error) \/ UNCHANGED Contract!vars
  BY FailRefines DEF ServerInv
<1>2. Contract!ClosedNext \/ UNCHANGED Contract!vars
  BY <1>1 DEF Contract!ClosedNext, Contract!Reach
<1>3. slot.state = "failed" => slot'.state = "failed"
  BY DEF Fails, Slot
<1> QED
  BY <1>2, <1>3 DEF StepFacts, Fails

LEMMA NextFacts == ServerInv /\ [Next]_vars => StepFacts
<1> SUFFICES ASSUME ServerInv, [Next]_vars PROVE StepFacts
  OBVIOUS
<1> USE DEF Contract!ClosedNext, Contract!Reach
<1>0. SlotInv /\ SlotTypeOK
  BY DEF ServerInv, SlotInv
<1>1. ASSUME NEW c \in Conns, Connect(c) PROVE StepFacts
  BY <1>0, <1>1, OnConnectionInv, OnConnectionRefines DEF Connect, StepFacts
<1>2. ASSUME NEW c \in Conns, Secure(c) PROVE StepFacts
  BY <1>2, SecureInv, StutterRefines DEF Secure, slotVars, StepFacts
<1>3. ASSUME NEW c \in Conns, ResponseWritten(c) PROVE StepFacts
  BY <1>0, <1>3, ResponseWrittenInv, DoneRefines DEF ResponseWritten, StepFacts
<1>4. ASSUME NEW c \in Conns, WriteFails(c) PROVE StepFacts
  BY <1>0, <1>4, WriteFailsInv, DoneRefines DEF WriteFails, StepFacts
<1>5. ASSUME NEW c \in Conns, TlsError(c) PROVE StepFacts
  BY <1>5, FatalErrorInv, FailFacts DEF TlsError, Fail, Live, Errors
<1>6. ASSUME NEW c \in Conns, Disconnect(c) PROVE StepFacts
  BY <1>6, DisconnectInv, StutterRefines DEF Disconnect, slotVars, StepFacts
<1>7. ASSUME NEW c \in Conns, SocketClosed(c) PROVE StepFacts
  BY <1>7, SocketClosedInv, FailFacts DEF SocketClosed, Fail, Errors
<1>8. ASSUME NEW w \in Callers, WaitForHandshake(w) PROVE StepFacts
  BY <1>0, <1>8, WaitInv, WaitRefines DEF StepFacts
<1>9. ASSUME NEW w \in Callers, TimerFires(w) PROVE StepFacts
  BY <1>9, TimerInv, FailFacts DEF TimerFires, Errors
<1>10. ASSUME NEW s \in Stoppers, Stop(s) PROVE StepFacts
  BY <1>10, StopInv, FailFacts DEF Stop, Fail, Errors
<1>11. CASE ServerCloses
  BY <1>11, ServerClosesInv, StutterRefines DEF ServerCloses, slotVars, StepFacts
<1>12. CASE UNCHANGED vars
  <2>1. ServerInv'
    BY <1>12 DEF vars, ServerInv, SlotInv, SlotTypeOK, NoLostCall, NoCallBehindVerdict,
                 OneResult, PendingCalls, NetTypeOK, ConnInv, SingleShot, NotStranded,
                 CompletedIsReported, DoneHasFinished, GuardedConns
  <2> QED
    BY <1>12, <2>1, StutterRefines DEF vars, StepFacts
<1> QED
  BY <1>1, <1>2, <1>3, <1>4, <1>5, <1>6, <1>7, <1>8, <1>9, <1>10, <1>11, <1>12 DEF Next

(***************************************************************************)
(* The inductive invariant holds in every reachable state.                 *)
(***************************************************************************)
THEOREM TrafficInvariance == Spec => []ServerInv
<1>1. ServerInv /\ [Next]_vars => ServerInv'
  BY NextFacts DEF StepFacts
<1> QED
  BY <1>1, InitInv, PTL DEF Spec

(***************************************************************************)
(* A done slot stays as it is, across the asynchronous write as well.      *)
(***************************************************************************)
THEOREM TrafficDoneStays == Spec => DoneIsFinal
<1>1. ServerInv /\ [Next]_vars => [slot.state = "done" => UNCHANGED slot]_vars
  BY NextFacts DEF StepFacts
<1> QED
  BY <1>1, TrafficInvariance, PTL DEF Spec, DoneIsFinal

(***************************************************************************)
(* A failed slot is revived by nothing but the callback of the write that  *)
(* was under way.                                                          *)
(***************************************************************************)
THEOREM OnlyTheResponseRevives == Spec => OnlyResponseRevives
<1>1. ServerInv /\ [Next]_vars =>
        [slot.state = "failed" /\ slot'.state # "failed" =>
            \E c \in Conns : conn[c] = "writing" /\ slot' = Slot("done", c)]_vars
  BY NextFacts DEF StepFacts
<1> QED
  BY <1>1, TrafficInvariance, PTL DEF Spec, OnlyResponseRevives

(***************************************************************************)
(* A response that was written is what the slot reports, whatever failed   *)
(* before the callback of the write ran.                                   *)
(***************************************************************************)
THEOREM ResponseIsReported == Spec => []CompletedIsReported
<1>1. ServerInv => CompletedIsReported
  BY DEF ServerInv, ConnInv
<1> QED
  BY <1>1, TrafficInvariance, PTL

(***************************************************************************)
(* stop() resolves for one call only, with the port closed and no socket   *)
(* open, a socket with a response under way among them.                    *)
(***************************************************************************)
LEMMA TrafficDrainNext == NetTypeOK /\ DrainInv /\ [Next]_vars => DrainInv'
<1> SUFFICES ASSUME NetTypeOK, DrainInv, [Next]_vars PROVE DrainInv'
  OBVIOUS
<1> USE DEF OpenConns, Live
<1>1. ASSUME NEW c \in Conns, Connect(c) PROVE DrainInv'
  BY <1>1, DrainOther DEF Connect, OnConnection, Arrives
<1>2. ASSUME NEW c \in Conns, Secure(c) \/ ResponseWritten(c) \/ SocketClosed(c)
      PROVE  DrainInv'
  <2>1. OpenConns' \subseteq OpenConns
    BY <1>2 DEF Secure, ResponseWritten, SocketClosed, NetTypeOK
  <2> QED
    BY <1>2, <2>1, DrainOther DEF Secure, ResponseWritten, SocketClosed
<1>3. ASSUME NEW c \in Conns, WriteFails(c) \/ TlsError(c) \/ Disconnect(c) PROVE DrainInv'
  BY <1>3, DrainDestroy DEF WriteFails, TlsError, Disconnect
<1>4. ASSUME NEW w \in Callers, WaitForHandshake(w) \/ TimerFires(w) PROVE DrainInv'
  BY <1>4, DrainOther DEF WaitForHandshake, TimerFires, netVars
<1>5. ASSUME NEW s \in Stoppers, Stop(s) PROVE DrainInv'
  BY <1>5, DrainStop
<1>6. CASE ServerCloses
  BY <1>6, DrainClose
<1>7. CASE UNCHANGED vars
  BY <1>7, DrainOther DEF vars
<1> QED
  BY <1>1, <1>2, <1>3, <1>4, <1>5, <1>6, <1>7 DEF Next

THEOREM TrafficStopDrains == Spec => []StopMeansDrained
<1>1. DrainInv => StopMeansDrained
  BY DEF DrainInv, StopMeansDrained, FirstStops
<1>2. ServerInv => NetTypeOK
  BY DEF ServerInv
<1> QED
  BY <1>1, <1>2, DrainInit, TrafficDrainNext, TrafficInvariance, PTL DEF Spec

-----------------------------------------------------------------------------
(***************************************************************************)
(* The traffic server implements the contract that never reopens a failed  *)
(* verdict, but for its fairness.                                          *)
(***************************************************************************)
THEOREM TrafficRefinesClosedContract == Spec => Contract!SafeClosedSpec
<1>1. ServerInv /\ [Next]_vars => [Contract!ClosedNext]_(Contract!vars)
  BY NextFacts DEF StepFacts
<1> QED
  BY <1>1, InitRefines, TrafficInvariance, PTL DEF Spec, Contract!SafeClosedSpec

=============================================================================

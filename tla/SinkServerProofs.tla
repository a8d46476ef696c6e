------------------------- MODULE SinkServerProofs --------------------------
(***************************************************************************)
(* Theorems about the sink server, for any sets of calls, connections and  *)
(* stops; and, at the end, about its capture of the ClientHello, for any   *)
(* record, anything behind it, and any lengths of the chunks.              *)
(***************************************************************************)
EXTENDS SinkServer, SinkCapture, HandshakeServerProofs

(***************************************************************************)
(* The whole record arrives: the connection is the only one past the guard *)
(* and its handshake is not over, so the slot is not done and no call has  *)
(* resolved.                                                               *)
(***************************************************************************)
LEMMA OnClientHelloInv ==
  ASSUME ServerInv, NEW c \in Conns, OnClientHello(c)
  PROVE  ServerInv' /\ slot.state # "done"
<1> USE DEF Live, PastGuard, Phases
<1>1. /\ conn[c] = "raw"
      /\ conn' = [conn EXCEPT ![c] = "tls"]
      /\ slot' = Slot("handshaking", None)
      /\ UNCHANGED <<waiters, failers, timers, call, listening, stopCall, closeDue>>
  BY DEF OnClientHello
<1>2. SlotInv /\ NetTypeOK /\ ConnInv
  BY DEF ServerInv
<1>3. c \in GuardedConns /\ \A d \in GuardedConns : d = c
  BY <1>1, <1>2 DEF ConnInv, SingleShot, GuardedConns
<1>4. slot.state # "done"
  BY <1>1, <1>2, <1>3 DEF ConnInv, DoneHasFinished, GuardedConns
<1>5. \A w \in Callers : call[w].status # "resolved"
  BY <1>2, <1>4 DEF SlotInv, OneResult, Slot
<1>6. SlotTypeOK' /\ NoLostCall'
  BY <1>1, <1>2 DEF SlotInv, SlotTypeOK, SlotValues, Slot, NoLostCall, PendingCalls
<1>7. NoCallBehindVerdict' /\ OneResult'
  BY <1>1, <1>5 DEF NoCallBehindVerdict, OneResult, Slot
<1>8. NetTypeOK'
  BY <1>1, <1>2 DEF NetTypeOK
<1>9. conn'[c] = "tls" /\ \A d \in Conns \ {c} : conn'[d] = conn[d]
  BY <1>1, <1>2 DEF NetTypeOK
<1>10. GuardedConns' = GuardedConns
  BY <1>1, <1>9 DEF GuardedConns
<1>11. SingleShot' /\ NotStranded'
  BY <1>1, <1>3, <1>9, <1>10 DEF SingleShot, NotStranded, Slot
<1>12. CompletedIsReported' /\ DoneHasFinished'
  BY <1>1, <1>3, <1>9 DEF CompletedIsReported, DoneHasFinished, GuardedConns, Slot
<1> QED
  BY <1>4, <1>6, <1>7, <1>8, <1>11, <1>12 DEF ServerInv, SlotInv, ConnInv

(***************************************************************************)
(* The handshake completes.                                                *)
(***************************************************************************)
LEMMA SecureInv ==
  ASSUME ServerInv, NEW c \in Conns, Secure(c)
  PROVE  ServerInv' /\ slot.state # "done" /\ slot' = Slot("done", c)
<1> USE DEF Live, PastGuard, Phases
<1>1. /\ conn[c] = "tls"
      /\ Done(c)
      /\ conn' = [conn EXCEPT ![c] = "open"]
      /\ UNCHANGED <<listening, stopCall, closeDue>>
  BY DEF Secure
<1>2. SlotInv /\ NetTypeOK /\ ConnInv
  BY DEF ServerInv
<1>3. c \in GuardedConns /\ \A d \in GuardedConns : d = c
  BY <1>1, <1>2 DEF ConnInv, SingleShot, GuardedConns
<1>4. slot.state # "done"
  BY <1>1, <1>2, <1>3 DEF ConnInv, DoneHasFinished, GuardedConns
<1>5. SlotInv' /\ slot' = Slot("done", c)
  BY <1>1, <1>2, <1>4, DoneKeepsSlotInv
<1>6. NetTypeOK'
  BY <1>1, <1>2 DEF NetTypeOK
<1>7. conn'[c] = "open" /\ \A d \in Conns \ {c} : conn'[d] = conn[d]
  BY <1>1, <1>2 DEF NetTypeOK
<1>8. GuardedConns' = GuardedConns
  BY <1>1, <1>7 DEF GuardedConns
<1>9. SingleShot' /\ NotStranded'
  BY <1>3, <1>5, <1>8 DEF SingleShot, NotStranded, Slot
<1>10. CompletedIsReported' /\ DoneHasFinished'
  BY <1>3, <1>5, <1>7 DEF CompletedIsReported, DoneHasFinished, GuardedConns, Slot
<1> QED
  BY <1>4, <1>5, <1>6, <1>9, <1>10 DEF ServerInv, ConnInv

(***************************************************************************)
(* Every step keeps the invariant.                                         *)
(***************************************************************************)
LEMMA NextInv == ServerInv /\ [Next]_vars => ServerInv'
<1> SUFFICES ASSUME ServerInv, [Next]_vars PROVE ServerInv'
  OBVIOUS
<1>1. ASSUME NEW c \in Conns, Connect(c) PROVE ServerInv'
  BY <1>1, OnConnectionInv DEF Connect
<1>2. ASSUME NEW c \in Conns, OnClientHello(c) PROVE ServerInv'
  BY <1>2, OnClientHelloInv
<1>3. ASSUME NEW c \in Conns, Secure(c) PROVE ServerInv'
  BY <1>3, SecureInv
<1>4. ASSUME NEW c \in Conns, RawError(c) PROVE ServerInv'
  BY <1>4, FatalErrorInv DEF RawError, Live, Errors
<1>5. ASSUME NEW c \in Conns, TlsError(c) PROVE ServerInv'
  BY <1>5, FatalErrorInv DEF TlsError, Live, Errors
<1>6. ASSUME NEW c \in Conns, Disconnect(c) PROVE ServerInv'
  BY <1>6, DisconnectInv
<1>7. ASSUME NEW c \in Conns, SocketClosed(c) PROVE ServerInv'
  BY <1>7, SocketClosedInv
<1>8. ASSUME NEW w \in Callers, WaitForHandshake(w) PROVE ServerInv'
  BY <1>8, WaitInv
<1>9. ASSUME NEW w \in Callers, TimerFires(w) PROVE ServerInv'
  BY <1>9, TimerInv
<1>10. ASSUME NEW s \in Stoppers, Stop(s) PROVE ServerInv'
  BY <1>10, StopInv
<1>11. CASE ServerCloses
  BY <1>11, ServerClosesInv
<1>12. CASE UNCHANGED vars
  BY <1>12 DEF vars, ServerInv, SlotInv, SlotTypeOK, NoLostCall, NoCallBehindVerdict,
               OneResult, PendingCalls, NetTypeOK, ConnInv, SingleShot, NotStranded,
               CompletedIsReported, DoneHasFinished, GuardedConns
<1> QED
  BY <1>1, <1>2, <1>3, <1>4, <1>5, <1>6, <1>7, <1>8, <1>9, <1>10, <1>11, <1>12 DEF Next

(***************************************************************************)
(* The inductive invariant holds in every reachable state.                 *)
(***************************************************************************)
THEOREM Invariance == Spec => []ServerInv
<1> QED
  BY InitInv, NextInv, PTL DEF Spec

(***************************************************************************)
(* The slot, the promises and the connections stay well typed.             *)
(***************************************************************************)
THEOREM TypeCorrect == Spec => []TypeOK
<1>1. ServerInv => TypeOK
  BY DEF ServerInv, SlotInv, TypeOK
<1> QED
  BY <1>1, Invariance, PTL

(***************************************************************************)
(* No promise is ever pending without a closure in both arrays and an      *)
(* armed timeout, which is what its settling rests on.                     *)
(***************************************************************************)
THEOREM NoCallIsLost == Spec => []NoLostCall
<1>1. ServerInv => NoLostCall
  BY DEF ServerInv, SlotInv
<1> QED
  BY <1>1, Invariance, PTL

(***************************************************************************)
(* Whoever got a result got the one result the slot keeps.                 *)
(***************************************************************************)
THEOREM ResultsAgree == Spec => []OneResult
<1>1. ServerInv => OneResult
  BY DEF ServerInv, SlotInv
<1> QED
  BY <1>1, Invariance, PTL

(***************************************************************************)
(* A handshake that completed is what the slot reports.                    *)
(***************************************************************************)
THEOREM CompletionIsReported == Spec => []CompletedIsReported
<1>1. ServerInv => CompletedIsReported
  BY DEF ServerInv, ConnInv
<1> QED
  BY <1>1, Invariance, PTL

(***************************************************************************)
(* No step takes a done slot back, although onClientHello() sets the state *)
(* without a look at it: by the invariant no connection can be raw then.   *)
(***************************************************************************)
THEOREM DoneStays == Spec => DoneIsFinal
<1>1. ServerInv /\ [Next]_vars => [slot.state = "done" => UNCHANGED slot]_vars
  <2> SUFFICES ASSUME ServerInv, Next, slot.state = "done"
               PROVE  slot' = slot
    BY DEF vars
  <2>1. ASSUME NEW c \in Conns, Connect(c) PROVE slot' = slot
    BY <2>1, OnConnectionInv DEF Connect
  <2>2. ASSUME NEW c \in Conns, OnClientHello(c) PROVE FALSE
    BY <2>2, OnClientHelloInv
  <2>3. ASSUME NEW c \in Conns, Secure(c) PROVE FALSE
    BY <2>3, SecureInv
  <2>4. ASSUME NEW c \in Conns, RawError(c) PROVE slot' = slot
    BY <2>4, FatalErrorInv DEF RawError, Live, Errors, Fails
  <2>5. ASSUME NEW c \in Conns, TlsError(c) PROVE slot' = slot
    BY <2>5, FatalErrorInv DEF TlsError, Live, Errors, Fails
  <2>6. ASSUME NEW c \in Conns, Disconnect(c) PROVE slot' = slot
    BY <2>6, DisconnectInv
  <2>7. ASSUME NEW c \in Conns, SocketClosed(c) PROVE slot' = slot
    BY <2>7, SocketClosedInv DEF Fails
  <2>8. ASSUME NEW w \in Callers, WaitForHandshake(w) PROVE slot' = slot
    BY <2>8, WaitInv
  <2>9. ASSUME NEW w \in Callers, TimerFires(w) PROVE slot' = slot
    BY <2>9, TimerInv DEF Fails
  <2>10. ASSUME NEW s \in Stoppers, Stop(s) PROVE slot' = slot
    BY <2>10, StopInv DEF Fails
  <2>11. CASE ServerCloses
    BY <2>11, ServerClosesInv
  <2> QED
    BY <2>1, <2>2, <2>3, <2>4, <2>5, <2>6, <2>7, <2>8, <2>9, <2>10, <2>11 DEF Next
<1> QED
  BY <1>1, Invariance, PTL DEF Spec, DoneIsFinal

(***************************************************************************)
(* A slot in the middle of a handshake always has a connection that can    *)
(* bring it to a verdict.                                                  *)
(***************************************************************************)
THEOREM NeverStranded == Spec => []NotStranded
<1>1. ServerInv => NotStranded
  BY DEF ServerInv, ConnInv
<1> QED
  BY <1>1, Invariance, PTL

(***************************************************************************)
(* One connection per server gets past the guard.                          *)
(***************************************************************************)
THEOREM OnePastTheGuard == Spec => []SingleShot
<1>1. ServerInv => SingleShot
  BY DEF ServerInv, ConnInv
<1> QED
  BY <1>1, Invariance, PTL

(***************************************************************************)
(* A failed slot leaves that state only through the ClientHello or the     *)
(* handshake of a connection past the guard: fail() fails it again, and    *)
(* the guard admits no connection.                                         *)
(***************************************************************************)
THEOREM OnlyTheGuardedRevive == Spec => OnlyGuardedRevives
<1>1. ServerInv /\ [Next]_vars =>
        [slot.state = "failed" /\ slot'.state # "failed" =>
            \E c \in Conns : conn[c] \in {"raw", "tls"} /\ conn'[c] \in {"tls", "open"}]_vars
  <2> SUFFICES ASSUME ServerInv, Next, slot.state = "failed", slot'.state # "failed"
               PROVE  \E c \in Conns : conn[c] \in {"raw", "tls"} /\ conn'[c] \in {"tls", "open"}
    BY DEF vars
  <2>0. NetTypeOK
    BY DEF ServerInv
  <2>1. ASSUME NEW c \in Conns, Connect(c) PROVE FALSE
    BY <2>1, OnConnectionInv DEF Connect
  <2>2. ASSUME NEW c \in Conns, OnClientHello(c)
        PROVE  conn[c] = "raw" /\ conn'[c] = "tls"
    BY <2>0, <2>2 DEF OnClientHello, NetTypeOK
  <2>3. ASSUME NEW c \in Conns, Secure(c)
        PROVE  conn[c] = "tls" /\ conn'[c] = "open"
    BY <2>0, <2>3 DEF Secure, NetTypeOK
  <2>4. ASSUME NEW c \in Conns, RawError(c) PROVE FALSE
    BY <2>4, FatalErrorInv DEF RawError, Live, Errors, Fails, Slot
  <2>5. ASSUME NEW c \in Conns, TlsError(c) PROVE FALSE
    BY <2>5, FatalErrorInv DEF TlsError, Live, Errors, Fails, Slot
  <2>6. ASSUME NEW c \in Conns, Disconnect(c) PROVE FALSE
    BY <2>6, DisconnectInv
  <2>7. ASSUME NEW c \in Conns, SocketClosed(c) PROVE FALSE
    BY <2>7, SocketClosedInv DEF Fails, Slot
  <2>8. ASSUME NEW w \in Callers, WaitForHandshake(w) PROVE FALSE
    BY <2>8, WaitInv
  <2>9. ASSUME NEW w \in Callers, TimerFires(w) PROVE FALSE
    BY <2>9, TimerInv DEF Fails, Slot
  <2>10. ASSUME NEW s \in Stoppers, Stop(s) PROVE FALSE
    BY <2>10, StopInv DEF Fails, Slot
  <2>11. CASE ServerCloses
    BY <2>11, ServerClosesInv
  <2> QED
    BY <2>1, <2>2, <2>3, <2>4, <2>5, <2>6, <2>7, <2>8, <2>9, <2>10, <2>11 DEF Next
<1> QED
  BY <1>1, Invariance, PTL DEF Spec, OnlyGuardedRevives

(***************************************************************************)
(* stop() resolves for one call only, with the port closed and no socket   *)
(* open.                                                                   *)
(***************************************************************************)
LEMMA DrainNext == NetTypeOK /\ DrainInv /\ [Next]_vars => DrainInv'
<1> SUFFICES ASSUME NetTypeOK, DrainInv, [Next]_vars PROVE DrainInv'
  OBVIOUS
<1> USE DEF OpenConns, Live
<1>1. ASSUME NEW c \in Conns, Connect(c) PROVE DrainInv'
  BY <1>1, DrainOther DEF Connect, OnConnection, Arrives
<1>2. ASSUME NEW c \in Conns, OnClientHello(c) PROVE DrainInv'
  <2>1. OpenConns' \subseteq OpenConns
    BY <1>2 DEF OnClientHello, NetTypeOK
  <2> QED
    BY <1>2, <2>1, DrainOther DEF OnClientHello
<1>3. ASSUME NEW c \in Conns, Secure(c) PROVE DrainInv'
  <2>1. OpenConns' \subseteq OpenConns
    BY <1>3 DEF Secure, NetTypeOK
  <2> QED
    BY <1>3, <2>1, DrainOther DEF Secure
<1>4. ASSUME NEW c \in Conns, RawError(c) \/ TlsError(c) \/ Disconnect(c) PROVE DrainInv'
  BY <1>4, DrainDestroy DEF RawError, TlsError, Disconnect
<1>5. ASSUME NEW c \in Conns, SocketClosed(c) PROVE DrainInv'
  <2>1. OpenConns' \subseteq OpenConns
    BY <1>5 DEF SocketClosed, NetTypeOK
  <2> QED
    BY <1>5, <2>1, DrainOther DEF SocketClosed
<1>6. ASSUME NEW w \in Callers, WaitForHandshake(w) \/ TimerFires(w) PROVE DrainInv'
  BY <1>6, DrainOther DEF WaitForHandshake, TimerFires, netVars
<1>7. ASSUME NEW s \in Stoppers, Stop(s) PROVE DrainInv'
  BY <1>7, DrainStop
<1>8. CASE ServerCloses
  BY <1>8, DrainClose
<1>9. CASE UNCHANGED vars
  BY <1>9, DrainOther DEF vars
<1> QED
  BY <1>1, <1>2, <1>3, <1>4, <1>5, <1>6, <1>7, <1>8, <1>9 DEF Next

THEOREM StopDrains == Spec => []StopMeansDrained
<1>1. DrainInv => StopMeansDrained
  BY DEF DrainInv, StopMeansDrained, FirstStops
<1>2. ServerInv => NetTypeOK
  BY DEF ServerInv
<1> QED
  BY <1>1, <1>2, DrainInit, DrainNext, Invariance, PTL DEF Spec

-----------------------------------------------------------------------------
(***************************************************************************)
(* onClientHello() reopens a failed verdict, and is invisible otherwise.   *)
(***************************************************************************)
LEMMA OnClientHelloRefines ==
  ASSUME ServerInv, NEW c \in Conns, OnClientHello(c)
  PROVE  Contract!Reopen \/ UNCHANGED Contract!vars
<1>1. slot.state # "done" /\ slot' = Slot("handshaking", None) /\ call' = call
  BY OnClientHelloInv DEF OnClientHello
<1>2. AbstractVerdict' = [state |-> "open", value |-> "none"]
  BY <1>1 DEF AbstractVerdict, VerdictState, Slot, None
<1>3. CASE slot.state = "failed"
  BY <1>1, <1>2, <1>3 DEF Contract!Reopen, Contract!Verdict, Contract!NoValue,
     AbstractVerdict, VerdictState
<1>4. CASE slot.state # "failed"
  <2>1. AbstractVerdict = [state |-> "open", value |-> "none"]
    BY <1>1, <1>4, OpenVerdict DEF ServerInv, SlotInv
  <2> QED
    BY <1>1, <1>2, <2>1 DEF Contract!vars, AbstractVerdict
<1> QED
  BY <1>3, <1>4

LEMMA NextRefines == ServerInv /\ [Next]_vars => [Contract!Next]_(Contract!vars)
<1> SUFFICES ASSUME ServerInv, [Next]_vars
             PROVE  Contract!Next \/ UNCHANGED Contract!vars
  OBVIOUS
<1> USE DEF Contract!Next, Contract!Reach
<1> DEFINE Simulated == Contract!Next \/ UNCHANGED Contract!vars
<1>0. SlotInv /\ SlotTypeOK
  BY DEF ServerInv, SlotInv
<1>1. ASSUME NEW c \in Conns, Connect(c) PROVE Simulated
  BY <1>0, <1>1, OnConnectionRefines DEF Connect
<1>2. ASSUME NEW c \in Conns, OnClientHello(c) PROVE Simulated
  BY <1>2, OnClientHelloRefines
<1>3. ASSUME NEW c \in Conns, Secure(c) PROVE Simulated
  BY <1>0, <1>3, DoneRefines DEF Secure
<1>4. ASSUME NEW c \in Conns, RawError(c) PROVE Simulated
  BY <1>0, <1>4, FailRefines DEF RawError, Fail, Errors
<1>5. ASSUME NEW c \in Conns, TlsError(c) PROVE Simulated
  BY <1>0, <1>5, FailRefines DEF TlsError, Fail, Errors
<1>6. ASSUME NEW c \in Conns, Disconnect(c) PROVE Simulated
  BY <1>6, StutterRefines DEF Disconnect, slotVars
<1>7. ASSUME NEW c \in Conns, SocketClosed(c) PROVE Simulated
  BY <1>0, <1>7, FailRefines DEF SocketClosed, Fail, Errors
<1>8. ASSUME NEW w \in Callers, WaitForHandshake(w) PROVE Simulated
  BY <1>0, <1>8, WaitRefines
<1>9. ASSUME NEW w \in Callers, TimerFires(w) PROVE Simulated
  BY <1>0, <1>9, FailRefines DEF TimerFires, Errors
<1>10. ASSUME NEW s \in Stoppers, Stop(s) PROVE Simulated
  BY <1>0, <1>10, FailRefines DEF Stop, Fail, Errors
<1>11. CASE ServerCloses
  BY <1>11, StutterRefines DEF ServerCloses, slotVars
<1>12. CASE UNCHANGED vars
  BY <1>12, StutterRefines DEF vars
<1> QED
  BY <1>1, <1>2, <1>3, <1>4, <1>5, <1>6, <1>7, <1>8, <1>9, <1>10, <1>11, <1>12 DEF Next

(***************************************************************************)
(* The sink implements the contract of waitForHandshake(), but for its     *)
(* fairness: every step of the server is a step its callers may see, or    *)
(* one they cannot see.                                                    *)
(***************************************************************************)
THEOREM SinkRefinesContract == Spec => Contract!SafeSpec
<1> QED
  BY InitRefines, NextRefines, Invariance, PTL DEF Spec, Contract!SafeSpec

-----------------------------------------------------------------------------
(***************************************************************************)
(* The length field read back from its two bytes is the fragment length,   *)
(* once the header is in the first chunk; and it is never more than that.  *)
(***************************************************************************)
LEMMA LengthField ==
  ASSUME body \in Nat, NEW len \in Nat
  PROVE  /\ RecordLen(len) \in HeaderLen .. HeaderLen + body
         /\ len >= HeaderLen => RecordLen(len) = HeaderLen + body
<1>1. body = (256 * (body \div 256)) + (body % 256)
  OBVIOUS
<1>2. body \div 256 \in Nat /\ body % 256 \in Nat
  OBVIOUS
<1> QED
  BY <1>1, <1>2 DEF RecordLen, HighByte, LowByte, HeaderLen

(***************************************************************************)
(* What tryCapture() has answered so far is what it answers for the chunks *)
(* buffered; nothing is read behind its back before there is a capture.    *)
(***************************************************************************)
CaptureInv ==
    /\ CaptureTypeOK
    /\ capture = TryCapture(first, totalBuffered)
    /\ capture = 0 => direct = 0
    /\ first = 0 => totalBuffered = 0

LEMMA CaptureBegins == CaptureInit => CaptureInv
BY CaptureAssumption DEF CaptureInit, CaptureInv, CaptureTypeOK, TryCapture, HeaderLen, Sent, Flight

LEMMA OnDataKeepsInv ==
  ASSUME CaptureInv, NEW n \in ChunkLens, OnData(n)
  PROVE  CaptureInv'
<1>1. /\ body \in Nat /\ trailing \in Nat /\ n \in Nat \ {0}
      /\ first \in Nat /\ totalBuffered \in Nat /\ first <= totalBuffered
      /\ capture = 0 /\ direct = 0
  BY CaptureAssumption DEF CaptureInv, CaptureTypeOK, OnData
<1>2. /\ first' \in Nat /\ first' <= totalBuffered'
      /\ totalBuffered' = totalBuffered + n
      /\ body' = body /\ trailing' = trailing /\ direct' = direct
      /\ capture' = TryCapture(first', totalBuffered')
  BY <1>1 DEF OnData
<1>3. Sent' <= Flight'
  BY <1>1, <1>2 DEF OnData, Sent, Flight
<1>4. RecordLen(first') \in Nat
  BY <1>1, <1>2, LengthField DEF HeaderLen
<1>5. capture' \in 0 .. totalBuffered'
  BY <1>1, <1>2, <1>4 DEF TryCapture
<1>6. CaptureTypeOK'
  BY <1>1, <1>2, <1>3, <1>5 DEF CaptureInv, CaptureTypeOK
<1>7. (capture = TryCapture(first, totalBuffered))'
  BY <1>2 DEF TryCapture, RecordLen, HighByte, LowByte
<1>8. first' # 0
  BY <1>1 DEF OnData
<1> QED
  BY <1>1, <1>2, <1>6, <1>7, <1>8 DEF CaptureInv

LEMMA TlsReadsKeepsInv ==
  ASSUME CaptureInv, NEW n \in ChunkLens, TlsReads(n)
  PROVE  CaptureInv'
<1>1. n \in Nat
  BY CaptureAssumption
<1> QED
  BY <1>1 DEF CaptureInv, CaptureTypeOK, TlsReads, Sent, Flight, TryCapture, RecordLen,
              HighByte, LowByte

(***************************************************************************)
(* What a typed state says of its numbers.                                 *)
(***************************************************************************)
LEMMA TypedRecord == CaptureTypeOK => body \in Nat
BY CaptureAssumption DEF CaptureTypeOK

LEMMA TypedBuffers ==
  CaptureTypeOK => /\ totalBuffered \in Nat /\ direct \in Nat
            /\ first \in Nat /\ capture \in Nat /\ capture <= totalBuffered
BY DEF CaptureTypeOK

(***************************************************************************)
(* The invariant of the capture.                                           *)
(***************************************************************************)
THEOREM CaptureInvariance == CaptureSpec => []CaptureInv
<1>1. CaptureInv /\ [CaptureNext]_captureVars => CaptureInv'
  <2> SUFFICES ASSUME CaptureInv, [CaptureNext]_captureVars PROVE CaptureInv'
    OBVIOUS
  <2>1. CASE CaptureNext
    BY <2>1, OnDataKeepsInv, TlsReadsKeepsInv DEF CaptureNext
  <2>2. CASE UNCHANGED captureVars
    BY <2>2 DEF captureVars, CaptureInv, CaptureTypeOK, Sent, Flight, TryCapture, RecordLen,
                HighByte, LowByte
  <2> QED
    BY <2>1, <2>2
<1> QED
  BY <1>1, CaptureBegins, PTL DEF CaptureSpec

LEMMA ExactCapture == CaptureInv => CaptureIsRecord
<1>1. CaptureInv => /\ body \in Nat /\ first \in Nat
                    /\ capture # 0 => capture = RecordLen(first)
  <2>1. CaptureInv => CaptureTypeOK
    BY DEF CaptureInv
  <2>2. CaptureInv /\ capture # 0 => capture = RecordLen(first)
    BY Zenon DEF CaptureInv, TryCapture
  <2> QED
    BY <2>1, <2>2, TypedRecord, TypedBuffers
<1>2. body \in Nat /\ first \in Nat /\ first >= HeaderLen
        => RecordLen(first) = HeaderLen + body
  BY LengthField
<1> QED
  BY <1>1, <1>2, Zenon DEF CaptureIsRecord

(***************************************************************************)
(* With the header in the first chunk the capture is the client's record,  *)
(* for every length a record can have and every way of cutting it up.      *)
(***************************************************************************)
THEOREM CaptureIsExact == CaptureSpec => []CaptureIsRecord
<1> QED
  BY ExactCapture, CaptureInvariance, PTL

(***************************************************************************)
(* The capture comes with the chunk that completes the record, so what is  *)
(* lost behind it was in that chunk, for any chunks and lengths.           *)
(***************************************************************************)
LEMMA ChunkCompletesRecord ==
  ASSUME CaptureInv, NEW n \in ChunkLens, OnData(n), capture' # 0
  PROVE  totalBuffered < capture'
<1>1. /\ body \in Nat /\ first \in Nat /\ totalBuffered \in Nat /\ n \in Nat
      /\ capture = 0 /\ (first = 0 => totalBuffered = 0)
      /\ capture = TryCapture(first, totalBuffered)
  BY CaptureAssumption, TypedRecord, TypedBuffers DEF CaptureInv, OnData
<1>2. first' \in Nat /\ capture' = RecordLen(first')
  <2>1. /\ first' = IF first = 0 THEN n ELSE first
        /\ capture' = TryCapture(first', totalBuffered')
    BY DEF OnData
  <2>2. TryCapture(first', totalBuffered') # 0
          => TryCapture(first', totalBuffered') = RecordLen(first')
    BY DEF TryCapture
  <2> QED
    BY <1>1, <2>1, <2>2
<1>3. CASE first = 0
  <2>1. capture' \in HeaderLen .. HeaderLen + body
    BY <1>1, <1>2, LengthField, Zenon
  <2> QED
    BY <1>1, <1>3, <2>1 DEF HeaderLen
<1>4. CASE first # 0
  <2>1. first' = first
    BY <1>4 DEF OnData
  <2>2. RecordLen(first) \in Nat /\ RecordLen(first) >= HeaderLen
    <3>1. RecordLen(first) \in HeaderLen .. HeaderLen + body
      BY <1>1, LengthField, Zenon
    <3> QED
      BY <1>1, <3>1 DEF HeaderLen
  <2>3. totalBuffered < HeaderLen \/ totalBuffered < RecordLen(first)
    BY <1>1, <2>2 DEF TryCapture, HeaderLen
  <2> QED
    BY <1>1, <1>2, <2>1, <2>2, <2>3 DEF HeaderLen
<1> QED
  BY <1>3, <1>4

THEOREM OnlyTheLastChunkIsCut == CaptureSpec => OnlyLastChunkIsCut
<1>1. CaptureInv /\ [CaptureNext]_captureVars
        => [capture = 0 /\ capture' # 0 => totalBuffered < capture']_captureVars
  <2> SUFFICES ASSUME CaptureInv, CaptureNext, capture = 0, capture' # 0
               PROVE  totalBuffered < capture'
    OBVIOUS
  <2>1. PICK n \in ChunkLens : OnData(n) \/ TlsReads(n)
    BY DEF CaptureNext
  <2>2. OnData(n)
    BY <2>1 DEF TlsReads
  <2> QED
    BY <2>2, ChunkCompletesRecord
<1> QED
  BY <1>1, CaptureInvariance, PTL DEF CaptureSpec, OnlyLastChunkIsCut

=============================================================================

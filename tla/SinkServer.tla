----------------------------- MODULE SinkServer -----------------------------
(***************************************************************************)
(* TlsSinkServer (src/src/e2e/sink-server.ts): a single-shot TLS server    *)
(* that captures the ClientHello of the first connection, hands the socket *)
(* to a TLSSocket and reports the completed handshake to every caller of   *)
(* waitForHandshake().                                                     *)
(*                                                                         *)
(* Here the capture is one step, OnClientHello: module SinkCapture models  *)
(* how the chunks add up to it.  Data that does not complete the record    *)
(* only grows the handler's own buffer and is a stutter here.              *)
(***************************************************************************)
EXTENDS HandshakeServer

(***************************************************************************)
(* Up to the arrival of the whole ClientHello the raw socket has its own   *)
(* handlers: the slot is capturing and the socket raw.                     *)
(***************************************************************************)
Connect(c) == OnConnection(c, "capturing", "raw")

(***************************************************************************)
(* The record is complete: the socket is wrapped in a TLSSocket and the    *)
(* slot is handshaking, whatever it was before.                            *)
(***************************************************************************)
OnClientHello(c) ==
    /\ conn[c] = "raw"
    /\ conn' = [conn EXCEPT ![c] = "tls"]
    /\ slot' = Slot("handshaking", None)
    /\ UNCHANGED <<waiters, failers, timers, call, listening, stopCall, closeDue>>

(***************************************************************************)
(* "secure": the slot is done with this handshake, and the connection is   *)
(* told to end.  The socket stays open until the peer answers.             *)
(***************************************************************************)
Secure(c) ==
    /\ conn[c] = "tls"
    /\ Done(c)
    /\ conn' = [conn EXCEPT ![c] = "open"]
    /\ UNCHANGED <<listening, stopCall, closeDue>>

(***************************************************************************)
(* "error" on the raw socket before the capture, or on the TLSSocket after *)
(* it.  Node destroys the socket first; "close" follows in a later turn.   *)
(***************************************************************************)
RawError(c) ==
    /\ conn[c] = "raw"
    /\ Fail("transport")
    /\ Destroy(c)

TlsError(c) ==
    /\ conn[c] \in {"tls", "open"}
    /\ Fail("tls")
    /\ Destroy(c)

Next ==
    \/ \E c \in Conns :
          \/ Connect(c)
          \/ OnClientHello(c)
          \/ Secure(c)
          \/ RawError(c)
          \/ TlsError(c)
          \/ Disconnect(c)
          \/ SocketClosed(c)
    \/ \E w \in Callers : WaitForHandshake(w) \/ TimerFires(w)
    \/ \E s \in Stoppers : Stop(s)
    \/ ServerCloses

Spec == Init /\ [][Next]_vars /\ EventLoopFairness

-----------------------------------------------------------------------------
(***************************************************************************)
(* A failed slot is revived only by the one connection that was already    *)
(* past the guard: a sink that failed before any connection (a timeout or  *)
(* a stop with no client) never handshakes again.                          *)
(***************************************************************************)
OnlyGuardedRevives ==
    [][slot.state = "failed" /\ slot'.state # "failed" =>
          \E c \in Conns : conn[c] \in {"raw", "tls"} /\ conn'[c] \in {"tls", "open"}]_vars

(***************************************************************************)
(* Once a call was rejected, every later call is rejected as well: the     *)
(* comment "Calling waitForHandshake after failure rejects with the cached *)
(* error" of the sink's tests.  Does not hold: see run SinkRevived.        *)
(***************************************************************************)
LaterCallsReject ==
    [][\A v, w \in Callers :
          /\ call[v].status = "rejected"
          /\ call[w].status = "uncalled"
          /\ call'[w].status # "uncalled"
          => call'[w].status = "rejected"]_vars

=============================================================================

--------------------------- MODULE TrafficServer ---------------------------
(***************************************************************************)
(* TrafficServer (src/src/e2e/traffic-server.ts): a single-shot TLS server *)
(* that answers the first connection with an encrypted HTTP response.      *)
(*                                                                         *)
(* The TLSSocket is made as soon as the connection arrives, so there is no *)
(* capturing state; but between the end of the handshake and the slot's    *)
(* verdict lies an asynchronous write, and errors, "close", a timeout or   *)
(* stop() may come in between.                                             *)
(***************************************************************************)
EXTENDS HandshakeServer

Connect(c) == OnConnection(c, "handshaking", "tls")

(***************************************************************************)
(* "secure": the response is handed to the socket.  The slot does not      *)
(* change before the callback of the write.                                *)
(***************************************************************************)
Secure(c) ==
    /\ conn[c] = "tls"
    /\ conn' = [conn EXCEPT ![c] = "writing"]
    /\ UNCHANGED <<slotVars, listening, stopCall, closeDue>>

(***************************************************************************)
(* The callback of the write.  It looks at no error, so a write that fails *)
(* reports the handshake as well before Node destroys the socket.  On a    *)
(* socket destroyed before, the callback finds no cipher to report and     *)
(* throws ahead of done(): no step of the slot.                            *)
(***************************************************************************)
ResponseWritten(c) ==
    /\ conn[c] = "writing"
    /\ Done(c)
    /\ conn' = [conn EXCEPT ![c] = "open"]
    /\ UNCHANGED <<listening, stopCall, closeDue>>

WriteFails(c) ==
    /\ conn[c] = "writing"
    /\ Done(c)
    /\ Destroy(c)

(***************************************************************************)
(* "error" on the TLSSocket: rejected handshake, or a transport error.     *)
(***************************************************************************)
TlsError(c) ==
    /\ conn[c] \in {"tls", "writing", "open"}
    /\ Fail("tls")
    /\ Destroy(c)

Next ==
    \/ \E c \in Conns :
          \/ Connect(c)
          \/ Secure(c)
          \/ ResponseWritten(c)
          \/ WriteFails(c)
          \/ TlsError(c)
          \/ Disconnect(c)
          \/ SocketClosed(c)
    \/ \E w \in Callers : WaitForHandshake(w) \/ TimerFires(w)
    \/ \E s \in Stoppers : Stop(s)
    \/ ServerCloses

Spec == Init /\ [][Next]_vars /\ EventLoopFairness

-----------------------------------------------------------------------------
(***************************************************************************)
(* After a failure the server only ever changes its mind to a success, and *)
(* only for the connection whose response was being written when it        *)
(* failed: unlike the sink it never goes back to waiting.                  *)
(***************************************************************************)
OnlyResponseRevives ==
    [][slot.state = "failed" /\ slot'.state # "failed" =>
          \E c \in Conns : conn[c] = "writing" /\ slot' = Slot("done", c)]_vars

(***************************************************************************)
(* The server implements the contract without reopening: a call made after *)
(* a failure is answered at once.                                          *)
(***************************************************************************)
ImplementsClosedContract == Contract!ClosedSpec

=============================================================================

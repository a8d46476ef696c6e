----------------------------- MODULE NetServer -----------------------------
(***************************************************************************)
(* What the two end-to-end servers use of Node's net.Server, modelled from *)
(* their calls: createServer with maxConnections = 1, the "connection"     *)
(* event, socket destruction and its later "close" event, server.close(cb) *)
(* and the server's own "close" event.                                     *)
(*                                                                         *)
(* Node counts a socket as a connection until it is destroyed; the         *)
(* socket's "close" event is emitted in a later turn of the event loop,    *)
(* and the server's "close" event may be emitted before it.                *)
(***************************************************************************)
CONSTANTS
    Conns,      \* connection attempts clients make
    Stoppers    \* calls of stop()

VARIABLES
    conn,       \* conn[c]: phase of connection attempt c
    listening,  \* the server's listening handle exists
    stopCall,   \* stopCall[s]: the promise that stop() call s returned
    closeDue    \* an emission of the server's "close" event is scheduled

netVars == <<conn, listening, stopCall, closeDue>>

(***************************************************************************)
(* A connection attempt is not made yet ("none"), dropped by Node because  *)
(* maxConnections is reached ("dropped"), destroyed by the handler's guard *)
(* ("refused"), or past the guard: its raw socket is being read ("raw"),   *)
(* a TLSSocket runs the handshake ("tls"), the HTTP response is being      *)
(* written ("writing"), the handshake is over ("open"), the socket is      *)
(* destroyed but has not emitted "close" ("destroyed"), or has ("closed"). *)
(***************************************************************************)
Live == {"raw", "tls", "writing", "open"}

PastGuard == Live \cup {"destroyed", "closed"}

Phases == {"none", "dropped", "refused"} \cup PastGuard

OpenConns == {c \in Conns : conn[c] \in Live}

NetInit ==
    /\ conn = [c \in Conns |-> "none"]
    /\ listening = TRUE
    /\ stopCall = [s \in Stoppers |-> "uncalled"]
    /\ closeDue = FALSE

(***************************************************************************)
(* A client connects.  Above maxConnections Node drops the connection and  *)
(* no "connection" event is emitted.                                       *)
(***************************************************************************)
Arrives(c) == listening /\ conn[c] = "none"

Dropped(c) ==
    /\ OpenConns # {}
    /\ conn' = [conn EXCEPT ![c] = "dropped"]

(***************************************************************************)
(* The socket of c is destroyed.  Once the server no longer listens, the   *)
(* last socket to go schedules the server's "close" event.                 *)
(***************************************************************************)
Destroy(c) ==
    /\ conn' = [conn EXCEPT ![c] = "destroyed"]
    /\ closeDue' = (closeDue \/ (~listening /\ OpenConns \subseteq {c}))
    /\ UNCHANGED <<listening, stopCall>>

(***************************************************************************)
(* server.close(cb): the first call closes the listening handle; a later   *)
(* one finds none, and its callback will get ERR_SERVER_NOT_RUNNING.       *)
(* Callbacks run when "close" is emitted, at once if no socket is open.    *)
(***************************************************************************)
ServerClose(s) ==
    /\ stopCall' = [stopCall EXCEPT ![s] = IF listening THEN "closing" ELSE "late"]
    /\ listening' = FALSE
    /\ closeDue' = (closeDue \/ OpenConns = {})
    /\ UNCHANGED conn

EmitClose ==
    /\ closeDue
    /\ closeDue' = FALSE
    /\ stopCall' = [s \in Stoppers |->
                        CASE stopCall[s] = "closing" -> "resolved"
                          [] stopCall[s] = "late" -> "rejected"
                          [] OTHER -> stopCall[s]]
    /\ UNCHANGED <<conn, listening>>

NetTypeOK ==
    /\ conn \in [Conns -> Phases]
    /\ listening \in BOOLEAN
    /\ stopCall \in [Stoppers -> {"uncalled", "closing", "late", "resolved", "rejected"}]
    /\ closeDue \in BOOLEAN

=============================================================================

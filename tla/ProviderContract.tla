-------------------------- MODULE ProviderContract --------------------------
(***************************************************************************)
(* What a caller of capture() and fingerprint() may rely on, whichever     *)
(* provider it asks.  There are two sources.  The first may fail at any    *)
(* time and for any reason.  The second, the store, is opened once, comes  *)
(* out failed or with a version, and answers according to that for ever.   *)
(* A call that may turn to the store is rejected only if the store is open *)
(* and has no answer.                                                      *)
(***************************************************************************)
CONSTANTS
    Calls,
    Requests,       \* records with a field via: "curl", "browser" or "facade"
    Versions,
    Answers         \* pairs of a request and a version that has an answer to it

VARIABLES
    promise,        \* of each call: none yet, pending, fulfilled or rejected
    store           \* unloaded, failed, or loaded with a version

contractVars == <<promise, store>>

Init ==
    /\ promise = [c \in Calls |-> [state |-> "none"]]
    /\ store = [state |-> "unloaded"]

Pending(c) == promise[c].state = "pending"

Ask(c) ==
    /\ promise[c].state = "none"
    /\ \E r \in Requests :
          promise' = [promise EXCEPT ![c] = [state |-> "pending", request |-> r]]
    /\ UNCHANGED store

Open ==
    /\ store.state = "unloaded"
    /\ \/ store' = [state |-> "failed"]
       \/ \E v \in Versions : store' = [state |-> "loaded", version |-> v]
    /\ UNCHANGED promise

HasAnswer(request) == store.state = "loaded" /\ <<request, store.version>> \in Answers

Fulfil(c, answer) ==
    /\ promise' = [promise EXCEPT ![c] =
            [state |-> "fulfilled", request |-> @.request, answer |-> answer]]
    /\ UNCHANGED store

ServeFirst(c) ==
    /\ Pending(c)
    /\ promise[c].request.via # "browser"
    /\ Fulfil(c, <<"curl">>)

ServeStored(c) ==
    /\ Pending(c)
    /\ promise[c].request.via # "curl"
    /\ HasAnswer(promise[c].request)
    /\ Fulfil(c, <<"store", store.version>>)

Refuse(c) ==
    /\ Pending(c)
    /\ promise[c].request.via # "curl" =>
          store.state # "unloaded" /\ ~HasAnswer(promise[c].request)
    /\ promise' = [promise EXCEPT ![c] = [state |-> "rejected", request |-> @.request]]
    /\ UNCHANGED store

Settle(c) == ServeFirst(c) \/ ServeStored(c) \/ Refuse(c)

Next == Open \/ \E c \in Calls : Ask(c) \/ Settle(c)

SafetySpec == Init /\ [][Next]_contractVars

\* The store is opened for a call that has no other source.
OpenFor(c) == Pending(c) /\ promise[c].request.via = "browser" /\ Open

\* Hence every call settles, whichever source it has.
Spec ==
    /\ SafetySpec
    /\ \A c \in Calls : WF_contractVars(OpenFor(c)) /\ WF_contractVars(Settle(c))

=============================================================================

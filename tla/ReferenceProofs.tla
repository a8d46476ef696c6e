-------------------------- MODULE ReferenceProofs --------------------------
(***************************************************************************)
(* What the stored captures guarantee, for any number of calls, any output *)
(* of the child process and any changes of the files.                      *)
(***************************************************************************)
EXTENDS Reference, TLAPS

(***************************************************************************)
(* The list of the stored provider is written out in its code; the         *)
(* manifest has an entry for every profile on it, the first of them a       *)
(* ClientHello.                                                            *)
(***************************************************************************)
LEMMA ListedIsRegistered ==
  ASSUME NEW p \in StoredProfiles
  PROVE  EntryOf(p) # 0 /\ captures[EntryOf(p)].protocol = "tls"
<1> DEFINE I == {i \in 1 .. Len(captures) : captures[i].profile = p}
<1>1. EntryOf(p) = IF I # {} THEN Min(I) ELSE 0
  BY DEF EntryOf, SelectInSeq
<1>2. CASE p = "chrome-140"
  <2>1. I = {1, 2}
    BY <1>2 DEF captures, Entry
  <2>2. Min({1, 2}) = 1
    <3>1. \A x \in {1, 2} : (\A y \in {1, 2} : x <= y) <=> x = 1
      OBVIOUS
    <3> QED
      BY <3>1, Zenon DEF Min
  <2>3. EntryOf(p) = 1
    <3> HIDE DEF I
    <3>1. I # {}
      BY <2>1
    <3> QED
      BY <1>1, <2>1, <2>2, <3>1, Zenon
  <2>4. captures[1].protocol = "tls"
    BY DEF captures, Entry
  <2> QED
    BY <2>3, <2>4
<1>3. CASE p = "firefox-128"
  <2>1. I = {3}
    BY <1>3 DEF captures, Entry
  <2>2. Min({3}) = 3
    <3>1. \A x \in {3} : (\A y \in {3} : x <= y) <=> x = 3
      OBVIOUS
    <3> QED
      BY <3>1, Zenon DEF Min
  <2>3. EntryOf(p) = 3
    <3> HIDE DEF I
    <3>1. I # {}
      BY <2>1
    <3> QED
      BY <1>1, <2>1, <2>2, <3>1, Zenon
  <2>4. captures[3].protocol = "tls"
    BY DEF captures, Entry
  <2> QED
    BY <2>3, <2>4
<1> QED
  BY <1>2, <1>3 DEF StoredProfiles

(***************************************************************************)
(* What a call goes through, and that an answer from the store is one from *)
(* the manifest as it was loaded.                                          *)
(***************************************************************************)
CallsInv ==
    /\ DOMAIN call = Calls
    /\ \A c \in Calls :
        /\ call[c].phase \in {"idle", "curl", "store", "fulfilled", "rejected"}
        /\ call[c].phase # "idle" => call[c].request.via \in {"facade", "curl", "browser"}
        /\ call[c].phase = "curl" => call[c].request.via # "browser"

FromManifest ==
    \A c \in Calls : FromStore(c) =>
        manifest.state = "loaded" /\ call[c].value.version = manifest.version

ReferenceInv ==
    /\ manifest.state \in {"unloaded", "failed", "loaded"}
    /\ CallsInv
    /\ FromManifest
    /\ ListedIsServed

LEMMA ReferenceInit == Init => ReferenceInv
BY DEF Init, Idle, ReferenceInv, CallsInv, FromManifest, FromStore, ListedIsServed, Stored

(***************************************************************************)
(* A step of one call keeps the invariant if it keeps what the invariant   *)
(* says of that call.                                                      *)
(***************************************************************************)
LEMMA OneCallMoves ==
  ASSUME ReferenceInv, NEW c \in Calls, NEW r, call' = [call EXCEPT ![c] = r],
         UNCHANGED manifest,
         r.phase \in {"curl", "store", "fulfilled", "rejected"},
         r.request.via \in {"facade", "curl", "browser"},
         r.phase = "curl" => r.request.via # "browser",
         r.phase = "fulfilled" /\ r.value.from = "store" =>
            manifest.state = "loaded" /\ r.value.version = manifest.version,
         r.phase = "rejected" /\ r.request.via # "curl" /\ r.request.profile \in StoredProfiles =>
            \/ manifest.state = "failed"
            \/ /\ r.request.op = "fingerprint"
               /\ manifest.state = "loaded"
               /\ manifest.version \notin HelloVersions
  PROVE  ReferenceInv'
<1> USE DEF ReferenceInv
<1>1. call'[c] = r /\ \A d \in Calls : d # c => call'[d] = call[d]
  BY DEF CallsInv
<1>2. CallsInv'
  BY <1>1 DEF CallsInv
<1>3. FromManifest'
  BY <1>1 DEF FromManifest, FromStore
<1>4. ListedIsServed'
  BY <1>1 DEF ListedIsServed, Stored, AvailableProfiles
<1> QED
  BY <1>2, <1>3, <1>4

LEMMA AskKeeps ==
  ASSUME ReferenceInv, NEW c \in Calls, NEW request \in Requests, Ask(c, request)
  PROVE  ReferenceInv'
<1> DEFINE r == [phase |-> IF request.via = "browser" THEN "store" ELSE "curl",
                 request |-> request]
<1>1. call' = [call EXCEPT ![c] = r] /\ UNCHANGED manifest
  BY DEF Ask
<1>2. /\ r.phase = IF request.via = "browser" THEN "store" ELSE "curl"
      /\ r.request = request
      /\ request.via \in {"facade", "curl", "browser"}
  BY DEF Requests
<1> HIDE DEF r
<1> QED
  BY <1>1, <1>2, OneCallMoves

LEMMA PrimaryFailsKeeps ==
  ASSUME ReferenceInv, NEW c \in Calls, call[c].phase = "curl", PrimaryFails(c),
         UNCHANGED manifest
  PROVE  ReferenceInv'
<1>1. call[c].request.via \in {"facade", "curl"}
  BY DEF ReferenceInv, CallsInv
<1>2. CASE call[c].request.via = "facade"
  <2> DEFINE r == [phase |-> "store", request |-> call[c].request]
  <2>1. call' = [call EXCEPT ![c] = r]
    BY <1>2 DEF PrimaryFails, AskStore, ReferenceInv, CallsInv
  <2>2. r.phase = "store" /\ r.request = call[c].request
    OBVIOUS
  <2> HIDE DEF r
  <2> QED
    BY <1>1, <2>1, <2>2, OneCallMoves
<1>3. CASE call[c].request.via = "curl"
  <2> DEFINE r == [phase |-> "rejected", request |-> call[c].request]
  <2>1. call' = [call EXCEPT ![c] = r]
    BY <1>3 DEF PrimaryFails, Reject, ReferenceInv, CallsInv
  <2>2. r.phase = "rejected" /\ r.request = call[c].request
    OBVIOUS
  <2> HIDE DEF r
  <2> QED
    BY <1>3, <2>1, <2>2, OneCallMoves
<1> QED
  BY <1>1, <1>2, <1>3

LEMMA CurlDumpsKeeps ==
  ASSUME ReferenceInv, NEW c \in Calls, NEW dump, CurlDumps(c, dump)
  PROVE  ReferenceInv'
<1>1. CASE Fulfil(c, CurlBytes(dump))
  <2> DEFINE r == [phase |-> "fulfilled", request |-> call[c].request, value |-> CurlBytes(dump)]
  <2>1. call' = [call EXCEPT ![c] = r] /\ UNCHANGED manifest
    BY <1>1 DEF Fulfil, CurlDumps, ReferenceInv, CallsInv
  <2>2. /\ r.phase = "fulfilled" /\ r.request = call[c].request
        /\ r.value.from = "curl"
    BY DEF CurlBytes
  <2>3. call[c].request.via \in {"facade", "curl", "browser"}
    BY DEF CurlDumps, ReferenceInv, CallsInv
  <2> HIDE DEF r
  <2> QED
    BY <2>1, <2>2, <2>3, OneCallMoves
<1>2. CASE PrimaryFails(c)
  BY <1>2, PrimaryFailsKeeps DEF CurlDumps
<1> QED
  BY <1>1, <1>2 DEF CurlDumps

LEMMA LoadManifestKeeps ==
  ASSUME ReferenceInv, LoadManifest
  PROVE  ReferenceInv'
<1>1. manifest'.state \in {"failed", "loaded"} /\ manifest.state = "unloaded" /\ UNCHANGED call
  BY DEF LoadManifest, ReadFiles
<1>2. \A c \in Calls : ~FromStore(c) /\ ~(Stored(c) /\ call[c].phase = "rejected")
  BY <1>1 DEF ReferenceInv, FromManifest, ListedIsServed
<1> QED
  BY <1>1, <1>2 DEF ReferenceInv, CallsInv, FromManifest, FromStore, ListedIsServed, Stored

(***************************************************************************)
(* The store rejects a listed profile only for one of the two reasons: the *)
(* lookup finds it, as ListedIsRegistered says, and both listed profiles   *)
(* have a ClientHello as their first entry.                                *)
(***************************************************************************)
LEMMA StoreAnswersKeeps ==
  ASSUME ReferenceInv, NEW c \in Calls, StoreAnswers(c)
  PROVE  ReferenceInv'
<1> DEFINE request == call[c].request
<1>1. /\ call[c].phase = "store" /\ manifest.state \in {"loaded", "failed"}
      /\ request.via \in {"facade", "curl", "browser"}
      /\ UNCHANGED manifest
  BY DEF StoreAnswers, ReferenceInv, CallsInv
<1>2. CASE Fulfil(c, StoredBytes(request.profile)) /\ manifest.state = "loaded"
  <2> DEFINE r == [phase |-> "fulfilled", request |-> request,
                   value |-> StoredBytes(request.profile)]
  <2>1. call' = [call EXCEPT ![c] = r]
    BY <1>2 DEF Fulfil, ReferenceInv, CallsInv
  <2>2. /\ r.phase = "fulfilled" /\ r.request = request
        /\ r.value.version = manifest.version
    BY DEF StoredBytes
  <2> HIDE DEF r
  <2> QED
    BY <1>1, <1>2, <2>1, <2>2, OneCallMoves
<1>3. CASE /\ Reject(c)
           /\ ~ /\ manifest.state = "loaded"
                /\ EntryOf(request.profile) # 0
                /\ request.op = "fingerprint" => StoredBytes(request.profile).hello
  <2> DEFINE r == [phase |-> "rejected", request |-> request]
  <2>1. call' = [call EXCEPT ![c] = r]
    BY <1>3 DEF Reject, ReferenceInv, CallsInv
  <2>2. r.phase = "rejected" /\ r.request = request
    OBVIOUS
  <2>3. ASSUME request.profile \in StoredProfiles, manifest.state # "failed"
        PROVE  request.op = "fingerprint" /\ manifest.version \notin HelloVersions
    <3>1. /\ EntryOf(request.profile) # 0
          /\ captures[EntryOf(request.profile)].protocol = "tls"
      BY <2>3, ListedIsRegistered
    <3> QED
      BY <1>1, <1>3, <2>3, <3>1 DEF StoredBytes
  <2> HIDE DEF r
  <2> QED
    BY <1>1, <2>1, <2>2, <2>3, OneCallMoves
<1> QED
  BY <1>1, <1>2, <1>3 DEF StoreAnswers

LEMMA Inductive == ReferenceInv /\ [Next]_referenceVars => ReferenceInv'
<1> SUFFICES ASSUME ReferenceInv, [Next]_referenceVars
             PROVE  ReferenceInv'
  OBVIOUS
<1>1. ASSUME NEW c \in Calls, NEW request \in Requests, Ask(c, request)
      PROVE  ReferenceInv'
  BY <1>1, AskKeeps
<1>2. ASSUME NEW c \in Calls, CurlFails(c)
      PROVE  ReferenceInv'
  BY <1>2, PrimaryFailsKeeps DEF CurlFails
<1>3. ASSUME NEW c \in Calls, CurlTimesOut(c)
      PROVE  ReferenceInv'
  BY <1>2, <1>3 DEF CurlTimesOut
<1>4. ASSUME NEW c \in Calls, StoreAnswers(c)
      PROVE  ReferenceInv'
  BY <1>4, StoreAnswersKeeps
<1>5. ASSUME NEW c \in Calls, NEW dump \in Dumps, CurlDumps(c, dump)
      PROVE  ReferenceInv'
  BY <1>5, CurlDumpsKeeps
<1>6. CASE LoadManifest
  BY <1>6, LoadManifestKeeps
<1>7. CASE UNCHANGED <<call, manifest>>
  BY <1>7 DEF ReferenceInv, CallsInv, FromManifest, FromStore, ListedIsServed, Stored
<1> QED
  BY <1>1, <1>2, <1>3, <1>4, <1>5, <1>6, <1>7 DEF Next, DirectoryChanges, referenceVars

(***************************************************************************)
(* ReferenceInv holds in every state.                                      *)
(***************************************************************************)
THEOREM ReferenceInvariance == Spec => []ReferenceInv
BY ReferenceInit, Inductive, PTL DEF Spec

(***************************************************************************)
(* Whatever the child process does and the files become, the stored        *)
(* provider and the facade serve the profiles that the former lists, but   *)
(* for a manifest that could not be loaded or, for a fingerprint, stored   *)
(* bytes that are no ClientHello (browser-provider.ts, reference.ts).      *)
(***************************************************************************)
THEOREM ListedProfilesAreServed == Spec => []ListedIsServed
<1>1. ReferenceInv => ListedIsServed
  BY DEF ReferenceInv
<1> QED
  BY <1>1, ReferenceInvariance, PTL

(***************************************************************************)
(* However often the files change, the calls of one process see one        *)
(* version of them, and the store does not turn from answering to          *)
(* rejecting (manifest.ts).                                                *)
(***************************************************************************)
THEOREM StoreStaysStable == Spec => []StoreIsStable
<1>1. ReferenceInv => StoreIsStable
  BY DEF ReferenceInv, FromManifest, ListedIsServed, StoreIsStable
<1> QED
  BY <1>1, ReferenceInvariance, PTL

-----------------------------------------------------------------------------
(***************************************************************************)
(* What the contract needs besides ReferenceInv: requests and versions are *)
(* what they should be, and only a call that may use the store waits for   *)
(* it.                                                                     *)
(***************************************************************************)
StoreStates ==
    {[state |-> "unloaded"], [state |-> "failed"]}
        \cup {[state |-> "loaded", version |-> v] : v \in Versions}

ContractInv ==
    /\ directory \in Versions \cup {Missing}
    /\ manifest \in StoreStates
    /\ \A c \in Calls :
          /\ call[c].phase # "idle" => call[c].request \in Requests
          /\ call[c].phase = "store" => call[c].request.via # "curl"

Promises == [c \in Calls |-> Promise(call[c])]

(***************************************************************************)
(* A step of one call changes one promise, to what the call has become.    *)
(***************************************************************************)
LEMMA PromiseMoves ==
  ASSUME CallsInv, ContractInv, NEW c \in Calls, NEW r, call' = [call EXCEPT ![c] = r],
         UNCHANGED manifest, UNCHANGED directory,
         r.request \in Requests, r.phase = "store" => r.request.via # "curl"
  PROVE  ContractInv' /\ Promises' = [Promises EXCEPT ![c] = Promise(r)]
<1>1. call'[c] = r /\ \A d \in Calls : d # c => call'[d] = call[d]
  BY DEF CallsInv
<1>2. ContractInv'
  BY <1>1 DEF ContractInv
<1>3. Promises' = [d \in Calls |-> IF d = c THEN Promise(r) ELSE Promise(call[d])]
  BY <1>1 DEF Promises
<1> QED
  BY <1>2, <1>3 DEF Promises

ContractStep ==
    /\ ContractInv'
    /\ Contract!Next \/ UNCHANGED Contract!contractVars

LEMMA AskRefines ==
  ASSUME CallsInv, ContractInv, NEW c \in Calls, NEW request \in Requests, Ask(c, request)
  PROVE  ContractStep
<1> DEFINE r == [phase |-> IF request.via = "browser" THEN "store" ELSE "curl",
                 request |-> request]
<1>1. /\ call' = [call EXCEPT ![c] = r] /\ UNCHANGED <<manifest, directory>>
      /\ call[c].phase = "idle"
  BY DEF Ask
<1>2. r.request = request /\ (r.phase = "store" => request.via # "curl")
  OBVIOUS
<1>3. Promise(r) = [state |-> "pending", request |-> request]
  BY DEF Promise
<1>4. Promises[c].state = "none"
  BY <1>1 DEF Promises, Promise
<1> HIDE DEF r
<1>5. ContractInv' /\ Promises' = [Promises EXCEPT ![c] = Promise(r)]
  BY <1>1, <1>2, PromiseMoves
<1>6. Contract!Ask(c)
  BY <1>1, <1>3, <1>4, <1>5 DEF Contract!Ask, Promises
<1> QED
  BY <1>5, <1>6 DEF ContractStep, Contract!Next

(***************************************************************************)
(* A pending call that is settled: its promise was pending, and becomes    *)
(* what the call becomes.                                                  *)
(***************************************************************************)
LEMMA PendingPromise ==
  ASSUME NEW c \in Calls, call[c].phase \in {"curl", "store"}
  PROVE  Promises[c] = [state |-> "pending", request |-> call[c].request]
BY DEF Promises, Promise

(***************************************************************************)
(* The contract's steps of a pending promise, by what they make of it.     *)
(***************************************************************************)
LEMMA RefuseStep ==
  ASSUME NEW c \in Calls, NEW q, Promises[c] = [state |-> "pending", request |-> q],
         Promises' = [Promises EXCEPT ![c] = [state |-> "rejected", request |-> q]],
         UNCHANGED manifest,
         q.via # "curl" => manifest.state # "unloaded" /\ ~Contract!HasAnswer(q)
  PROVE  Contract!Refuse(c)
<1>1. Promises[c].state = "pending" /\ Promises[c].request = q
  OBVIOUS
<1>2. Promises' = [Promises EXCEPT ![c] = [state |-> "rejected", request |-> Promises[c].request]]
  BY <1>1
<1>3. Promises[c].request.via # "curl" =>
          manifest.state # "unloaded" /\ ~Contract!HasAnswer(Promises[c].request)
  BY <1>1
<1> QED
  BY <1>1, <1>2, <1>3, Zenon DEF Contract!Refuse, Contract!Pending, Promises

LEMMA FulfilStep ==
  ASSUME NEW c \in Calls, NEW q, NEW a,
         Promises[c] = [state |-> "pending", request |-> q],
         Promises' = [Promises EXCEPT ![c] =
             [state |-> "fulfilled", request |-> q, answer |-> a]],
         UNCHANGED manifest
  PROVE  Contract!Pending(c) /\ Contract!Fulfil(c, a)
<1>1. Promises[c].state = "pending" /\ Promises[c].request = q
  OBVIOUS
<1>2. Promises' = [Promises EXCEPT ![c] =
          [state |-> "fulfilled", request |-> Promises[c].request, answer |-> a]]
  BY <1>1
<1> QED
  BY <1>1, <1>2, Zenon DEF Contract!Pending, Contract!Fulfil, Promises

LEMMA PrimaryFailsRefines ==
  ASSUME CallsInv, ContractInv, NEW c \in Calls, call[c].phase = "curl", PrimaryFails(c),
         UNCHANGED <<manifest, directory>>
  PROVE  ContractStep
<1>1. /\ call[c].request \in Requests /\ call[c].request.via \in {"facade", "curl"}
      /\ Promises[c] = [state |-> "pending", request |-> call[c].request]
  BY PendingPromise DEF CallsInv, ContractInv
<1>2. CASE call[c].request.via = "facade"
  <2> DEFINE r == [phase |-> "store", request |-> call[c].request]
  <2>1. call' = [call EXCEPT ![c] = r]
    BY <1>2 DEF PrimaryFails, AskStore, CallsInv
  <2>2. r.phase = "store" /\ r.request = call[c].request /\ Promise(r) = Promises[c]
    BY <1>1 DEF Promise
  <2> HIDE DEF r
  <2>3. ContractInv' /\ Promises' = [Promises EXCEPT ![c] = Promises[c]]
    BY <1>1, <1>2, <2>1, <2>2, PromiseMoves, ZenonT(40)
  <2>4. Promises' = Promises
    BY <2>3 DEF Promises
  <2> QED
    BY <2>3, <2>4 DEF ContractStep, Contract!contractVars, Promises
<1>3. CASE call[c].request.via = "curl"
  <2> DEFINE r == [phase |-> "rejected", request |-> call[c].request]
  <2>1. call' = [call EXCEPT ![c] = r]
    BY <1>3 DEF PrimaryFails, Reject, CallsInv
  <2>2. /\ r.phase # "store" /\ r.request = call[c].request
        /\ Promise(r) = [state |-> "rejected", request |-> call[c].request]
    BY DEF Promise
  <2> HIDE DEF r
  <2>3. ContractInv' /\ Promises' = [Promises EXCEPT ![c] = Promise(r)]
    BY <1>1, <2>1, <2>2, PromiseMoves
  <2>4. Contract!Refuse(c)
    BY <1>1, <1>3, <2>2, <2>3, RefuseStep
  <2> QED
    BY <2>3, <2>4 DEF ContractStep, Contract!Next, Contract!Settle
<1> QED
  BY <1>1, <1>2, <1>3

LEMMA CurlDumpsRefines ==
  ASSUME CallsInv, ContractInv, NEW c \in Calls, NEW dump, CurlDumps(c, dump)
  PROVE  ContractStep
<1>1. /\ call[c].phase = "curl" /\ UNCHANGED <<manifest, directory>>
      /\ call[c].request \in Requests /\ call[c].request.via # "browser"
      /\ Promises[c] = [state |-> "pending", request |-> call[c].request]
  BY PendingPromise DEF CurlDumps, CallsInv, ContractInv
<1>2. CASE Fulfil(c, CurlBytes(dump))
  <2> DEFINE r == [phase |-> "fulfilled", request |-> call[c].request, value |-> CurlBytes(dump)]
  <2>1. call' = [call EXCEPT ![c] = r]
    BY <1>2 DEF Fulfil, CallsInv
  <2>2. /\ r.phase # "store" /\ r.request = call[c].request
        /\ Promise(r) = [state |-> "fulfilled", request |-> call[c].request,
                         answer |-> <<"curl">>]
    BY DEF Promise, CurlBytes
  <2> HIDE DEF r
  <2>3. ContractInv' /\ Promises' = [Promises EXCEPT ![c] = Promise(r)]
    BY <1>1, <2>1, <2>2, PromiseMoves
  <2>4. Contract!ServeFirst(c)
    <3>1. Contract!Pending(c) /\ Contract!Fulfil(c, <<"curl">>)
      BY <1>1, <2>2, <2>3, FulfilStep
    <3>2. Promises[c].request.via # "browser"
      BY <1>1
    <3> QED
      BY <3>1, <3>2 DEF Contract!ServeFirst, Promises
  <2> QED
    BY <2>3, <2>4 DEF ContractStep, Contract!Next, Contract!Settle
<1>3. CASE PrimaryFails(c)
  BY <1>1, <1>3, PrimaryFailsRefines
<1> QED
  BY <1>2, <1>3 DEF CurlDumps

(***************************************************************************)
(* The lookup finds an answer exactly where the contract has one.          *)
(***************************************************************************)
LEMMA StoreHasAnswer ==
  ASSUME ContractInv, NEW q \in Requests, manifest.state = "loaded"
  PROVE  Contract!HasAnswer(q) <=> Answerable(q, manifest.version)
<1>1. manifest.version \in Versions
  BY DEF ContractInv, StoreStates
<1> DEFINE v == manifest.version
<1>2. <<q, v>> \in {pair \in Requests \X Versions : Answerable(pair[1], pair[2])}
          <=> Answerable(q, v)
  BY <1>1
<1> QED
  BY <1>2 DEF Contract!HasAnswer

LEMMA StoreAnswersRefines ==
  ASSUME CallsInv, ContractInv, NEW c \in Calls, StoreAnswers(c)
  PROVE  ContractStep
<1> DEFINE q == call[c].request
<1> DEFINE Found == /\ manifest.state = "loaded"
                    /\ EntryOf(q.profile) # 0
                    /\ q.op = "fingerprint" => StoredBytes(q.profile).hello
<1>1. /\ call[c].phase = "store" /\ UNCHANGED <<manifest, directory>>
      /\ q \in Requests /\ q.via # "curl"
      /\ manifest.state # "unloaded"
  BY DEF StoreAnswers, ContractInv
<1>2. Promises[c] = [state |-> "pending", request |-> q]
  BY <1>1, PendingPromise
<1>3. Found <=> Contract!HasAnswer(q)
  <2>1. ASSUME manifest.state = "loaded"
        PROVE  Found <=> Answerable(q, manifest.version)
    BY <2>1 DEF StoredBytes, Answerable
  <2>2. manifest.state # "loaded" => ~Contract!HasAnswer(q)
    BY DEF Contract!HasAnswer
  <2> QED
    BY <1>1, <2>1, <2>2, StoreHasAnswer
<1>4. CASE Found
  <2> DEFINE r == [phase |-> "fulfilled", request |-> q, value |-> StoredBytes(q.profile)]
  <2>1. call' = [call EXCEPT ![c] = r]
    BY <1>4 DEF StoreAnswers, Fulfil, CallsInv
  <2>2. /\ r.phase # "store" /\ r.request = q
        /\ Promise(r) = [state |-> "fulfilled", request |-> q,
                         answer |-> <<"store", manifest.version>>]
    BY DEF Promise, StoredBytes
  <2> HIDE DEF r, q, Found
  <2>3. ContractInv' /\ Promises' = [Promises EXCEPT ![c] = Promise(r)]
    BY <1>1, <2>1, <2>2, PromiseMoves
  <2>4. Contract!ServeStored(c)
    <3>1. Contract!Pending(c) /\ Contract!Fulfil(c, <<"store", manifest.version>>)
      BY <1>1, <1>2, <2>2, <2>3, FulfilStep
    <3>2. Promises[c].request.via # "curl" /\ Contract!HasAnswer(Promises[c].request)
      BY <1>1, <1>2, <1>3, <1>4
    <3> QED
      BY <3>1, <3>2, Zenon DEF Contract!ServeStored, Promises
  <2> QED
    BY <2>3, <2>4 DEF ContractStep, Contract!Next, Contract!Settle
<1>5. CASE ~Found
  <2> DEFINE r == [phase |-> "rejected", request |-> q]
  <2>1. call' = [call EXCEPT ![c] = r]
    BY <1>5 DEF StoreAnswers, Reject, CallsInv
  <2>2. /\ r.phase # "store" /\ r.request = q
        /\ Promise(r) = [state |-> "rejected", request |-> q]
    BY DEF Promise
  <2> HIDE DEF r, q, Found
  <2>3. ContractInv' /\ Promises' = [Promises EXCEPT ![c] = Promise(r)]
    BY <1>1, <2>1, <2>2, PromiseMoves
  <2>4. Contract!Refuse(c)
    BY <1>1, <1>2, <1>3, <1>5, <2>2, <2>3, RefuseStep
  <2> QED
    BY <2>3, <2>4 DEF ContractStep, Contract!Next, Contract!Settle
<1> QED
  BY <1>4, <1>5

LEMMA LoadManifestRefines ==
  ASSUME ContractInv, LoadManifest
  PROVE  ContractStep
<1>1. Promises' = Promises
  BY DEF LoadManifest, Promises
<1>2. /\ manifest.state = "unloaded"
      /\ \/ manifest' = [state |-> "failed"]
         \/ \E v \in Versions : manifest' = [state |-> "loaded", version |-> v]
  BY DEF LoadManifest, ReadFiles, ContractInv
<1>3. ContractInv'
  BY <1>2 DEF LoadManifest, ContractInv, StoreStates
<1>4. Contract!Open
  BY <1>1, <1>2 DEF Contract!Open, Promises
<1> QED
  BY <1>3, <1>4 DEF ContractStep, Contract!Next

LEMMA ContractInductive ==
  CallsInv /\ ContractInv /\ [Next]_referenceVars => ContractStep
<1> SUFFICES ASSUME CallsInv, ContractInv, [Next]_referenceVars
             PROVE  ContractStep
  OBVIOUS
<1>1. ASSUME NEW c \in Calls, NEW request \in Requests, Ask(c, request)
      PROVE  ContractStep
  BY <1>1, AskRefines
<1>2. ASSUME NEW c \in Calls, CurlFails(c)
      PROVE  ContractStep
  BY <1>2, PrimaryFailsRefines DEF CurlFails
<1>3. ASSUME NEW c \in Calls, CurlTimesOut(c)
      PROVE  ContractStep
  BY <1>2, <1>3 DEF CurlTimesOut
<1>4. ASSUME NEW c \in Calls, StoreAnswers(c)
      PROVE  ContractStep
  BY <1>4, StoreAnswersRefines
<1>5. ASSUME NEW c \in Calls, NEW dump \in Dumps, CurlDumps(c, dump)
      PROVE  ContractStep
  BY <1>5, CurlDumpsRefines
<1>6. CASE LoadManifest
  BY <1>6, LoadManifestRefines
<1>7. CASE UNCHANGED <<call, manifest>> /\ directory' \in Versions \cup {Missing}
  <2>1. ContractInv'
    BY <1>7 DEF ContractInv
  <2>2. UNCHANGED Contract!contractVars
    BY <1>7 DEF Contract!contractVars
  <2> QED
    BY <2>1, <2>2 DEF ContractStep
<1>8. directory \in Versions \cup {Missing}
  BY DEF ContractInv
<1> QED
  BY <1>1, <1>2, <1>3, <1>4, <1>5, <1>6, <1>7, <1>8 DEF Next, DirectoryChanges, referenceVars

LEMMA ContractInit == Init => ContractInv /\ Contract!Init
BY DEF Init, Idle, ContractInv, StoreStates, Contract!Init, Promise

(***************************************************************************)
(* The child process, the fallback and the manifest, in any order and with *)
(* any failures of them, do nothing that the contract does not allow its   *)
(* callers to see (reference.ts, curl-provider.ts, browser-provider.ts).   *)
(***************************************************************************)
THEOREM ProvidersKeepContract == Spec => Contract!SafetySpec
<1>1. ReferenceInv => CallsInv
  BY DEF ReferenceInv
<1>2. ContractStep => ContractInv' /\ [Contract!Next]_(Contract!contractVars)
  BY DEF ContractStep
<1> QED
  BY <1>1, <1>2, ContractInit, ContractInductive, ReferenceInvariance, PTL
     DEF Spec, Contract!SafetySpec

=============================================================================

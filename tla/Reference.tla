----------------------------- MODULE Reference -----------------------------
(***************************************************************************)
(* The reference providers (src/src/reference): CurlImpersonateProvider    *)
(* runs a child process and reads the bytes off its output,                *)
(* RealBrowserCaptureProvider looks them up in the capture manifest, and   *)
(* ReferenceProviderFacade asks the second when the first has failed.      *)
(*                                                                         *)
(* The manifest is a module: the first import() reads every registered     *)
(* file, and every import() after it gets what came of that, the entries   *)
(* or the error.  Bytes are known by where they come from and by whether   *)
(* the fingerprint parsers accept them.  Messages, causes, descriptions    *)
(* and the text of a fingerprint are left out.                             *)
(***************************************************************************)
EXTENDS Integers, SequencesExt, CaptureManifest

CONSTANTS
    Calls,          \* calls of capture() and fingerprint()
    Profiles,       \* the profiles they ask for
    Dumps,          \* outputs of the child process
    Versions,       \* states of the captures directory with every file there
    HelloVersions,  \* those where the files of protocol tls hold ClientHellos
    Missing,        \* the directory with a file missing
    MaxChanges      \* bound: how often the directory changes

ASSUME VersionsAssumption == HelloVersions \subseteq Versions /\ Missing \notin Versions

VARIABLES
    call,           \* the promise of each call, and where it stands
    manifest,       \* the module: unloaded, failed, or loaded with a version
    directory,      \* what the captures directory holds
    changes         \* how often it changed

referenceVars == <<call, manifest, directory, changes>>

-----------------------------------------------------------------------------
CurlProfiles ==
    {"chrome-140", "chrome-139", "firefox-135", "firefox-128", "safari-18", "edge-140"}

StoredProfiles == {"chrome-140", "firefox-128"}

AvailableProfiles(provider) ==
    CASE provider = "curl" -> CurlProfiles
      [] provider = "browser" -> StoredProfiles
      [] provider = "facade" -> CurlProfiles \cup StoredProfiles

(***************************************************************************)
(* A dump: the hexadecimal digits among the text in front of the marker,   *)
(* if there is a marker, those behind it, and whether these are a          *)
(* ClientHello.  Without a marker all of the output counts.                *)
(***************************************************************************)
HexBody(dump) == (IF dump.marker THEN 0 ELSE dump.prologue) + dump.digits

\* parseDumpOutput() throws DumpParseError for no digit and for an odd number.
Parses(dump) == HexBody(dump) # 0 /\ HexBody(dump) % 2 = 0

CurlBytes(dump) ==
    [from |-> "curl", hello |-> dump.hello /\ (dump.marker \/ dump.prologue = 0)]

\* manifest.captures.find(), 0 if nothing is found.
EntryOf(profile) == SelectInSeq(captures, LAMBDA e : e.profile = profile)

StoredBytes(profile) ==
    [from |-> "store", version |-> manifest.version,
     hello |-> captures[EntryOf(profile)].protocol = "tls" /\ manifest.version \in HelloVersions]

-----------------------------------------------------------------------------
Idle == [phase |-> "idle"]

Init ==
    /\ call = [c \in Calls |-> Idle]
    /\ manifest = [state |-> "unloaded"]
    /\ directory \in Versions \cup {Missing}
    /\ changes = 0

Fulfil(c, value) ==
    call' = [call EXCEPT ![c] = [phase |-> "fulfilled", request |-> @.request, value |-> value]]

Reject(c) == call' = [call EXCEPT ![c] = [phase |-> "rejected", request |-> @.request]]

AskStore(c) == call' = [call EXCEPT ![c] = [phase |-> "store", request |-> @.request]]

Requests ==
    [op : {"capture", "fingerprint"}, via : {"facade", "curl", "browser"}, profile : Profiles]

(***************************************************************************)
(* capture() and fingerprint() run the child process or import the         *)
(* manifest.                                                               *)
(***************************************************************************)
Ask(c, request) ==
    /\ call[c].phase = "idle"
    /\ call' = [call EXCEPT ![c] =
            [phase |-> IF request.via = "browser" THEN "store" ELSE "curl",
             request |-> request]]
    /\ UNCHANGED <<manifest, directory, changes>>

(***************************************************************************)
(* The first provider has thrown: the facade turns to the second.          *)
(***************************************************************************)
\* Faulty variant: fingerprint() does not fall back.
PrimaryFailsForGood(c) ==
    IF call[c].request.via = "facade" /\ call[c].request.op = "capture"
    THEN AskStore(c) ELSE Reject(c)

PrimaryFails(c) ==
    IF call[c].request.via = "facade" THEN AskStore(c) ELSE Reject(c)

\* The process cannot be started, exits with an error or writes too much.
CurlFails(c) ==
    /\ call[c].phase = "curl"
    /\ PrimaryFails(c)
    /\ UNCHANGED <<manifest, directory, changes>>

\* Faulty variant: no timeout.
NeverTimesOut(c) == FALSE /\ CurlFails(c)

\* execFile() kills the process after 30 seconds.
CurlTimesOut(c) == CurlFails(c)

CurlDumps(c, dump) ==
    /\ call[c].phase = "curl"
    /\ IF Parses(dump) /\ (call[c].request.op = "capture" \/ CurlBytes(dump).hello)
       THEN Fulfil(c, CurlBytes(dump))
       ELSE PrimaryFails(c)
    /\ UNCHANGED <<manifest, directory, changes>>

(***************************************************************************)
(* The manifest is evaluated, once: entry() reads each file, and one that  *)
(* is missing fails the module.                                            *)
(***************************************************************************)
ReadFiles ==
    IF directory = Missing THEN [state |-> "failed"]
                           ELSE [state |-> "loaded", version |-> directory]

\* Faulty variant: the files are read on every import().
LoadAlways ==
    /\ \E c \in Calls : call[c].phase = "store"
    /\ manifest' = ReadFiles
    /\ UNCHANGED <<call, directory, changes>>

LoadManifest ==
    /\ manifest.state = "unloaded"
    /\ \E c \in Calls : call[c].phase = "store"
    /\ manifest' = ReadFiles
    /\ UNCHANGED <<call, directory, changes>>

(***************************************************************************)
(* RealBrowserCaptureProvider.capture() and, for a fingerprint, the check  *)
(* of the protocol and the parsers.                                        *)
(***************************************************************************)
StoreAnswers(c) ==
    /\ call[c].phase = "store"
    /\ manifest.state # "unloaded"
    /\ LET profile == call[c].request.profile
       IN  IF /\ manifest.state = "loaded"
              /\ EntryOf(profile) # 0
              /\ call[c].request.op = "fingerprint" => StoredBytes(profile).hello
           THEN Fulfil(c, StoredBytes(profile))
           ELSE Reject(c)
    /\ UNCHANGED <<manifest, directory, changes>>

\* Captures are regenerated, removed and put back.
DirectoryChanges ==
    /\ changes < MaxChanges
    /\ changes' = changes + 1
    /\ directory' \in (Versions \cup {Missing}) \ {directory}
    /\ UNCHANGED <<call, manifest>>

Next ==
    \/ \E c \in Calls, request \in Requests : Ask(c, request)
    \/ \E c \in Calls : CurlFails(c) \/ CurlTimesOut(c) \/ StoreAnswers(c)
    \/ \E c \in Calls, dump \in Dumps : CurlDumps(c, dump)
    \/ LoadManifest
    \/ DirectoryChanges

(***************************************************************************)
(* The timeout is a timer, and imports settle; nobody has to ask, and the  *)
(* child process may never answer.                                         *)
(***************************************************************************)
Fairness ==
    /\ \A c \in Calls : WF_referenceVars(CurlTimesOut(c)) /\ WF_referenceVars(StoreAnswers(c))
    /\ WF_referenceVars(LoadManifest)

Spec == Init /\ [][Next]_referenceVars /\ Fairness

-----------------------------------------------------------------------------
FromStore(c) == call[c].phase = "fulfilled" /\ call[c].value.from = "store"

\* A call that the store can answer if the first provider, if any, cannot.
Stored(c) ==
    /\ call[c].phase # "idle"
    /\ call[c].request.via # "curl"
    /\ call[c].request.profile \in AvailableProfiles("browser")

(***************************************************************************)
(* A profile that the stored provider lists is served, also through the    *)
(* facade and whatever the child process does: the call is rejected only   *)
(* if the manifest failed or the stored bytes are no ClientHello to make a *)
(* fingerprint of.                                                         *)
(***************************************************************************)
ListedIsServed ==
    \A c \in Calls :
        Stored(c) /\ call[c].phase = "rejected" =>
            \/ manifest.state = "failed"
            \/ /\ call[c].request.op = "fingerprint"
               /\ manifest.state = "loaded"
               /\ manifest.version \notin HelloVersions

(***************************************************************************)
(* Within a process the store gives one answer, however the files change   *)
(* between the calls: stored bytes are of one version, and no capture() of *)
(* a listed profile is rejected once another was answered from the store.  *)
(***************************************************************************)
StoreIsStable ==
    \A c, d \in Calls :
        FromStore(c) =>
            /\ FromStore(d) => call[d].value.version = call[c].value.version
            /\ Stored(d) /\ call[d].request.op = "capture" => call[d].phase # "rejected"

-----------------------------------------------------------------------------
(***************************************************************************)
(* The providers as their callers see them: the child process and the      *)
(* directory are hidden, and a call that has turned from the first         *)
(* provider to the second is still the same pending promise.               *)
(***************************************************************************)
Promise(k) ==
    CASE k.phase = "idle" -> [state |-> "none"]
      [] k.phase \in {"curl", "store"} -> [state |-> "pending", request |-> k.request]
      [] k.phase = "rejected" -> [state |-> "rejected", request |-> k.request]
      [] k.phase = "fulfilled" ->
            [state |-> "fulfilled", request |-> k.request,
             answer |-> IF k.value.from = "curl" THEN <<"curl">>
                        ELSE <<"store", k.value.version>>]

Answerable(request, version) ==
    /\ EntryOf(request.profile) # 0
    /\ request.op = "fingerprint" =>
          captures[EntryOf(request.profile)].protocol = "tls" /\ version \in HelloVersions

Contract ==
    INSTANCE ProviderContract WITH
        promise <- [c \in Calls |-> Promise(call[c])],
        store <- manifest,
        Answers <- {pair \in Requests \X Versions : Answerable(pair[1], pair[2])}

(***************************************************************************)
(* The facade and the providers keep the contract: a call through the      *)
(* facade is rejected only when the store has been opened and cannot serve *)
(* it either, whichever way the first provider failed; the store never     *)
(* changes its answers; and every call settles, the child process hanging  *)
(* or not.                                                                 *)
(***************************************************************************)
ImplementsProvider == Contract!Spec

=============================================================================

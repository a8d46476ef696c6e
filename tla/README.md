# Specifications of browsercore-testing

`browsercore-testing` checks that a browser-like network stack puts on the wire
what a real browser would. Three kinds of code do the work: two small TLS
servers that a client under test connects to, parsers and comparisons of the
bytes so captured, and providers of the reference bytes. This directory holds
TLA+ specifications of that code, the TLC runs that check them on small
instances, and proofs, checked by TLAPS, that hold for every instance.

Paths below are relative to the repository's root.

## The system

| component | code | state it keeps | how it meets the others |
|---|---|---|---|
| TLS sink server | `src/e2e/sink-server.ts` | handshake slot, arrays of closures, one timer per call, chunks of the raw socket | called by the e2e tests; called back by `node:net`, `node:tls` and timers; hands its capture to the ClientHello parsers |
| TLS traffic server | `src/e2e/traffic-server.ts` | the same slot and arrays | the same, plus the callback of a write |
| byte comparison | `src/utils.ts` | none | called by the golden captures and the benchmarks |
| ClientHello parsers | `src/e2e/parse-clienthello.ts`, `src/fingerprint/ja3.ts`, `ja4.ts`, `ja4-reader.ts` | a position in a buffer | three parsers for the same bytes; called by tests, by the reference providers and by the RFC suite |
| golden captures | `src/golden/golden.ts`, `src/captures/manifest.ts` | files `.bin` and `.meta.json`, read separately; the manifest module, evaluated once | feed the comparisons, the reference providers and the RFC suite |
| reference providers | `src/reference/*.ts` | a child process per call; none between calls but the manifest module | the facade asks curl-impersonate first, then the stored captures |
| RFC suite | `src/rfc/rfcTests.ts` | none | golden captures and JA3 parser against profiles (external) |
| HTTP fingerprints | `src/fingerprint/ja4h.ts`, `akamai-http2.ts` | none | called by the test categories with what was captured |
| certificate generator | `src/e2e/cert-gen.ts` | none | called once by each server |
| benchmarks | `src/bench/bench.ts` | timings | fingerprints, comparison |
| Node oracle | `src/reference/node-reference.ts` | none | wraps Node's crypto, zlib and DNS; its comparison stands beside that of `src/utils.ts` |
| adapters, types, test categories, scripts | the rest | none | |

What is hard here:

- *Interleavings.* Everything runs on Node's event loop: a handler runs to
  completion, and between two handlers anything may happen. The servers have up
  to nine kinds of events (connection, data, secure, error, close, timeout, two
  public calls, write callback, server close), and each may find the slot in any
  of its states.
- *Two arrays, one promise.* `waitForHandshake()` puts the two halves of a
  promise into two arrays, and `done()` and `fail()` each run one array and drop
  the other.
- *Fragmentation.* A TCP stream has no record boundaries; `tryCapture()` must
  find the record in chunks of any length.
- *Files.* A capture is two files, read one after the other and rewritten by a
  script one after the other; the manifest reads all of them once and keeps the
  outcome, the error included.
- *Fallback.* Each way the first provider can fail must lead to the second, also
  when a child process hangs.
- *Boundaries.* The comparisons and the parsers stand or fall with `<` and `<=`,
  with arrays of different lengths and with bytes beyond an end; the certificate
  with nested lengths, each of which depends on the one inside; a percentile with
  the rounding of its rank.
- *Order.* A fingerprint hashes some lists sorted and some in the order of the
  wire, each without other items. A slip gives two clients one fingerprint, or
  one client two.

`PROJECT.json` lists each hazard at its line, with the properties that watch it.

## The modules

```
 NetServer            net.Server as the servers use it (external)
   HandshakeServer    the slot, the promises, the events both servers share
     SinkServer       TlsSinkServer         --- MCSinkServer, SinkServerProofs
     TrafficServer    TrafficServer         --- MCTrafficServer, TrafficServerProofs
 OneShotSlot          what a caller of waitForHandshake() may rely on
 SinkCapture          chunks of the socket -> ClientHello
                                            --- MCSinkCapture, SinkServerProofs
 StableSort           Array.prototype.sort (external), for ByteCompare, Bench and
                      HttpFingerprints
 ByteCompare          compareBytes, compareBytesWithIgnore, compareBytesOutcome
   Golden             loading a capture, the two comparisons with it
                                            --- MCGolden, GoldenProofs
 CaptureManifest      the registered captures and their masks
   Reference          the facade and its two providers
                                            --- MCReference, ReferenceProofs
 ProviderContract     what a caller of capture() and fingerprint() may rely on
 HelloWire            bytes of a ClientHello, read and laid out
   HelloParser        parseClientHello of the e2e tests
   HelloAccessors     findExtension, parseSniHostname, ... on its result
   FingerprintParser  what the next two share
     Ja3Parser        parseClientHello of JA3
     Ja4Parser        parseJa4ClientHello and its readers
   Ja4Tag             computeJa4Fingerprint on its result
   RfcTests           the compliance suites
   HelloParsers       the three on one buffer, and what is made of their results
                                            --- MCHelloParsers, HelloSamples,
                                                HelloParserProofs
 HttpFingerprints     computeJa4h, buildAkamaiFingerprint
 Bench                measure, percentile, the reports
 CertGen              the DER builders, generateSelfSignedCert
   Suites             one call of RfcTests, HttpFingerprints, Bench or CertGen
                                            --- MCSuites, SuitesProofs
```

`HandshakeServerProofs` holds the lemmas both server proofs use, and
`SequenceLemmas` those about bytes, joined sequences and sorting that the proofs
about the parsers, the golden captures and the suites use. The proofs about the
capture are at the end of `SinkServerProofs`.

### NetServer and HandshakeServer

| TLA+ | code |
|---|---|
| `slot` | `this.state`: the tag, and the result or error it carries |
| `waiters`, `failers` | `this.waiters`, `this.failers`; a closure is named by the call that pushed it |
| `timers` | calls whose `setTimeout` is armed |
| `call[w]` | the promise that call `w` of `waitForHandshake()` returned |
| `conn[c]` | the phase of a client's connection attempt |
| `listening`, `closeDue`, `stopCall[s]` | the listening handle, the pending `close` event of the server, the promise of `stop()` |
| `Done`, `Fail` | `done()`, `fail()`: not actions but conjuncts of the handlers that call them |
| `WaitForHandshake`, `TimerFires`, `Stop` | the public calls, and the timeout's callback |
| `OnConnection` | the `connection` event: dropped by Node above `maxConnections`, refused by the guard, or accepted |
| `SocketClosed` | the `close` event, a turn of the event loop after the socket was destroyed |
| `Disconnect`, `ServerCloses` | Node: end of a socket; `close` of the drained server |

An action is one turn of the event loop: the handler and all it calls. A result
is reduced to the connection it reports, an error to one of the five messages
the code builds. Closures run in the order of the array, but nothing observes
that order, so the arrays are sets. In the traffic server the error messages
differ in wording only.

### SinkServer and TrafficServer

The sink has a raw phase, in which the data handler collects the ClientHello,
and a TLS phase. `OnClientHello` is the step from the one to the other; it sets
the slot without looking at it, as the code does. The traffic server makes its
`TLSSocket` at once, and has an asynchronous write between the end of the
handshake (`Secure`) and the verdict (`ResponseWritten`, `WriteFails`). A write
callback on a socket already destroyed throws before it reaches `done()`; that
exception leaves the slot alone and is not an action.

### OneShotSlot

The abstract contract: a verdict that is open, `ok` or `err`, and promises.
Waiting calls settle together with the verdict, later calls are answered from
it, `ok` is for ever. `Spec` lets a failed verdict reopen, `ClosedSpec` does
not. The sink implements the first only, the traffic server both.

### SinkCapture

A byte is known by its place in the stream, so chunks are lengths. The variables
are the two numbers `tryCapture()` reads (length of the first chunk, total), the
length of the capture, and what the TLS layer has read from the socket itself.
The record's length field is looked up in `chunks[0]`, and a place beyond its
end reads as 0: `undefined << 8` and `x | undefined` are numbers in JavaScript.
The client may send bytes behind its record. `totalBuffered - capture` of them are
in the chunk that completed the record and were taken out of the stream, but are
not in the slice that is unshifted; `OnlyLastChunkIsCut` says that no other chunk loses any.

### ByteCompare and Golden

`ByteCompare` has the comparisons as operators. `Deciding` and `IsMasked` keep
the early exits of `isMasked()`; the definition in `MaskedIsReference` has none. It is
about what the call has read: a call that reads the bytes of one capture and the masks
of another, because both files are rewritten meanwhile, answers for just these, and no
property says that it must not, as the code has no means to know. `StrictImpliesTolerant`
is about calls during which nothing is rewritten.

| TLA+ | code |
|---|---|
| `bin[id]`, `meta[id]` | the files of a capture; `Unreadable` is a missing file, or a sidecar that is no JSON |
| `call` | the comparison under way: what it was given, has read and returned or thrown |
| `Start` | the call, up to the check of the id |
| `ReadBytes`, `ReadSidecar` | `loadGolden()`, one action per file; the strict comparison follows the second |
| `ReadMasks` | `loadCaptureMeta()`, which reads the sidecar again, and the tolerant comparison |
| `parseCaptureMeta`, `ValidField` | the validation of a sidecar, with the types of its parts as one Boolean |
| `RewriteBytes`, `RewriteSidecar` | `captures/_probe/make_golden.py`, a process of its own |
| `agreed`, `call.quiet` | no code: what strict calls have accepted since the last rewriting |

A comparison is one synchronous call, so no two interleave in a process. Another
process can still write between two reads, and opening a file to write truncates
it. The ids of the instance include the one of the example in the repository's
`README.md:66`, `chrome-140:client-hello:1`, which `parseCaptureId()` rejects.

### CaptureManifest and Reference

| TLA+ | code |
|---|---|
| `captures` | `captures` of `src/captures/manifest.ts`: profile, protocol and masks of its six entries, in order |
| `call[c]` | the promise of a `capture()` or `fingerprint()`, and whether it waits for the child process or for the import |
| `manifest` | the module namespace: not evaluated yet, evaluated, or failed |
| `directory`, `changes` | the state of the captures directory and how often it has changed |
| `Ask` | the call, up to its first `await` |
| `CurlFails`, `CurlTimesOut`, `CurlDumps` | the callback of `execFile`: error or exit code, the 30 seconds, output |
| `PrimaryFails` | the `catch` of the facade, or the rejection of a provider called alone |
| `LoadManifest`, `StoreAnswers` | the evaluation of the manifest, and what follows `await import()` |

Bytes are known by where they come from and by whether the parsers accept them;
which bytes those are is the subject of `HelloParsers`. An output of the child
process is known by the number of hexadecimal digits in front of and behind the
marker. A module is evaluated once per process and its error is kept, as
ECMAScript says, so `LoadManifest` happens once. It reads six files; that they
are read one after the other adds nothing, as one failure is the failure of all.
After a failed dump the facade's `fingerprint()` runs no second child process: it
asks the store, as `capture()` does.

`ProviderContract` is what a caller sees: a promise that is pending, fulfilled
from the first source or from the store, or rejected, and a store that is opened
once. It hides the child process, the directory and the step from the first
provider to the second, and it allows a call that may use the store to be
rejected only when the store is open and has no answer. Under its fairness each
call settles: a call that has only the store opens it, and whatever can be settled
is. `Promise` and
`Answerable` map `Reference` to it.

### The ClientHello parsers

| TLA+ | code |
|---|---|
| `buf`, `o`, `bodyEnd`, `extEnd` | the argument and the local variables of those names |
| `at` | how far the function has come, or how it ended |
| `hello` | the fields of the object it will return |
| `lost` | `o` is NaN |
| `Hellos`, `Sendable`, `Messages` | what clients put together; whose lengths fit their fields; the bytes they send |
| `ListFits` | a list in an extension that is no longer than the extension |
| `ja3`, `ja4` (`seen`) | the lists JA3 and JA4 are made of |

An action reads one field: its length, the checks the code makes, the data. A
function call cannot be interrupted, so the steps are for the reader; what the
environment chooses is the buffer. Bytes are numbers and a buffer is a sequence
of them: the lengths on the wire are what the parsers are about. `Byte` reads 0
beyond the end, as the bitwise operators do with `undefined`. Where the code adds
`undefined` to a position instead, `ReadsPastEnd` takes the parser to the end of
the function, as NaN does.

The three parsers check different lengths. `HelloParser` holds each of them
against the end of the body or of the block, except for the two above.
`Ja3Parser` checks every byte against the end of the buffer and looks at the
end of the handshake once. `Ja4Parser` does so up to the cipher suites.
`HelloParsers` runs them one after the other, as the tests and the reference
providers do with one capture, and its invariants say where they must agree all
the same. `Ja4WithinJa3` has no condition on the buffer.

`Ja4Tag` has what `computeJa4Fingerprint()` makes of JA4's lists: filters, orders,
the version and ALPN codes. A hexadecimal string is the number it spells and a
hash is what is hashed, so two fingerprints are equal when the hashed lists are.
`TagTellsClientsApart` compares each whole message with its siblings, clients that
differ from it in one respect: another order, GREASE, an item less, other groups,
formats, algorithms, versions or protocols. What it takes for the same offer is said
without the code's operators (`Ends`, `SameCharacter`: the first and last character of
the first protocol, as `ja4.ts:88` has it). Two things it says under a condition only,
because the code joins where it should not: a first protocol without a comma,
and, for JA4_f, clients with as many suites, extensions and groups. JA3 joins its lists without another step, so `ja3`
is its string as well as the capture that `ParseTlsCapture` of `RfcTests` hands
to the compliance suite.

### Suites: the functions without a state

| TLA+ | code |
|---|---|
| `call`, `result` | the function called with its arguments, and what it returned |
| `CheckHttp2`, `CheckHttp1` | `runHttp2Compliance()`, `runHttp1Compliance()` |
| `FingerprintRequest`, `FingerprintConnection` | `computeJa4h()`, `buildAkamaiFingerprint()` |
| `Benchmark` | `benchmarkTlsHandshake()`, `benchmarkHttp2Request()`, which differ in what they measure |
| `Certify` | `generateSelfSignedCert()` |

An action is one call. A value of a setting has 32 bits and is the pair of its
halves. A header name is its letters and how they are spelt, because the suite
looks for two spellings of one name. The names, cookies and languages of a JA4H are
strings, sequences of code units: `Listed` sorts them as JavaScript does (`Before`) and
joins them with commas, and this one string is what a hash stands for, an empty one
for the twelve zeros. So a cookie with a comma and two cookies meet in the model as
they do in the code, and `FingerprintsTellApart` tells apart only what `Unambiguous`
says has no comma and no empty name; HTTP's grammar allows no others. `SameRequest`
compares methods and languages itself, not by the codes computed for them. An Akamai
string is the sequence of its tokens, where a number is the token it is
spelt as and the characters between numbers are negative. A benchmark is given how long each run of
the measured function takes. A certificate is a sequence of bytes; the key, the
signature and the text of the times are given. The properties hold a result
against what the arguments mean: `CertificateReadsBack` has a reader of DER of its
own (`Elements`, `Inside`, `ReadArcs`), `IsPercentile` counts samples and does not
sort them.

## The runs

| run | question | bounds |
|---|---|---|
| `Sink` | do slot, promises and connections agree; is a result final; does every call and `stop()` settle; is the contract kept? | 2 calls, 2 connections, 2 stops |
| `SinkRevived` | *violated*: is a call after a rejected one rejected as well? | 2 calls, 1 connection, 1 stop |
| `Traffic` | with the write between handshake and verdict: is a completed handshake reported; what may change a failed slot; does every call settle; is the contract kept without reopening? | 2 calls, 2 connections, 2 stops |
| `Capture` | is the capture the record, whole and exact; which chunk can lose bytes; does it come? | 8 record lengths, 9 chunk lengths, 0 or 6 bytes behind |
| `CaptureFragmented` | *violated*: whatever the chunks? | the same |
| `Golden` | does the tolerant comparison report what its definition says, whatever is rewritten meanwhile; does it accept what the strict one accepts; does the oracle's comparison agree with the strict one? | arrays up to 3 bytes of 2 values, lists of up to 2 of 12 fields, 7 invalid sidecars, 1 rewriting |
| `GoldenRandom` | *violated*: do hellos match that differ in the random only? | 33 randoms, the masks of 5 manifest entries |
| `Reference` | are listed profiles served; is the store's answer one for all calls; is `ProviderContract` implemented, in which every call settles? | 2 calls, 3 profiles, 24 dumps, 3 states of the directory, 2 changes |
| `Parsers` | are reads in bounds and results right, is every whole message accepted and no part of one, do the three parsers and the accessors agree, does a JA4 tag tell clients apart, do they return? | 18 messages, 4233 buffers, the siblings of each message |
| `HelloTruncated` | *violated*: is what is accepted complete? | the same |
| `Ja4Versions` | *violated*: are the versions JA4 finds in the list? | the same |
| `Suites` | do the suites pass what is compliant and nothing else; do HTTP fingerprints tell clients apart; are percentiles nearest ranks; does a certificate read back to what it was made of? | up to 2 settings, cut anywhere; sets of 6 header names, orders of up to 2; 318 requests and 252 connections, each against all others; up to 3 runs in any order and 201 in one; names of 0 to 253 bytes |

Why the bounds are enough. Two calls are needed for one call's timeout to
settle another and for a call to come after a verdict; every closure treats all
the others alike, so a third adds nothing new. Two connections are needed for
one behind the first, dropped or refused; the guard admits one. Two stops make
the second find no listening handle. The fragment lengths have a zero and a
non-zero value in each byte of the length field, and one-byte chunks make every
partial total reachable. Two byte values tell equal from different; two fields
overlap, nest, touch, are empty, out of order and beyond the end. The buffers of
`HelloSamples` are 9 messages, bare and in a record, with each part absent, empty
and filled and every extension the parsers look into; each cut at every place,
each with its body cut and the header's length put right, each followed by
another, and each with every byte outside the random set to seven values. So
every length is once too small, once too large and once zero, and every check
is passed and failed.

One rewriting separates the bytes of a capture from its sidecar, or the two reads
of the sidecar from each other. Two calls of a provider stand before and behind a
change of the directory; the second change puts the first state back. The
profiles are one that both providers list, one that curl-impersonate alone does,
and one that is in the manifest and on no list. Dumps have and lack the marker
and have an even, an odd and no number of digits on each side of it.

The requests have headers and cookies in two orders and twice, with commas that make
one item look like two, and with empty names; languages that are shorter than four
letters, that differ in capitals and that differ behind the fourth letter.

Two settings make an id come twice and a capture end within either; the values
have the top bit set and clear. The header names have every spelling of the one
that must be there and of another. With 19 to 21, 99 to 101 and 199 to 201 runs
the exact ranks of the three percentiles are integers and lie between two. Each
length in a certificate passes from the short to the long form at some length of
a name.

`CHECK_DEADLOCK FALSE` is set for the servers, the capture, the parsers, the
providers and the suites: a single-shot server that has used up its calls,
connections and stops, a stream that has been delivered, a buffer that has been
parsed, calls that have settled and a call that has returned all stop. `Golden`
never stops.

### Fairness

`EventLoopFairness` is weak fairness of what Node does by itself: an armed timer
fires, a destroyed socket emits `close`, a drained server emits `close`. No
client is assumed to connect, to send or to finish; calls settle without that.
`StopSettles` alone carries the premise `ClientsLeave`, because `server.close()`
waits for open sockets and the code destroys none of them. In `SinkCapture` the
network delivers what the client sent. The parsers are function calls and run
on. In `Reference` an import settles, and the timer that `execFile` arms fires
and ends the child process; that the child exits by itself, or that anybody
calls, is not assumed. `Golden` and `Suites` have safety properties only.

## The proofs

| theorem | for every | what it says |
|---|---|---|
| `Invariance`, `TrafficInvariance` | set of calls, connections, stops | `ServerInv` is an invariant |
| `TypeCorrect`, `NoCallIsLost`, `ResultsAgree`, `CompletionIsReported` | same | the parts a reader asks for |
| `DoneStays`, `TrafficDoneStays` | same | a done slot never changes |
| `OnlyTheResponseRevives` | same | a failed traffic server changes only to done, for the connection being written to |
| `SinkRefinesContract`, `TrafficRefinesClosedContract` | same | the safety part of `OneShotSlot` is implemented |
| `OnePastTheGuard` | same, for the sink | `SingleShot`: at most one connection is past the guard |
| `ResponseIsReported` | same, for the traffic server | `CompletedIsReported`: a response that was written is what the slot reports |
| `TrafficStopDrains` | same | `StopMeansDrained` of the traffic server |
| `CaptureIsExact` | record length below 65536, bytes behind it, chunk lengths | `CaptureIsRecord` |
| `OnlyTheLastChunkIsCut` | same, the first chunk of any length | `OnlyLastChunkIsCut`: bytes in no chunk but the one that completes the record are dropped |
| `NeverStranded`, `OnlyTheGuardedRevive`, `StopDrains` | same, for the sink | `NotStranded`, `OnlyGuardedRevives`, `StopMeansDrained` |
| `ParserStaysInBounds` | set of buffers, of any bytes and lengths | `TypeOK` of `HelloParser`: no length on the wire takes a read out of the body or the block |
| `NothingIsMisread` | same | `NothingMisread`: what is returned is the body as far as it was read |
| `IntactIsAccepted` | set of hellos, with any fields and any number of extensions, whose lengths fit, in a record or bare, whatever follows | `IntactAccepted` |
| `PartIsRejected` | the same messages, cut anywhere | `PartRejected` |
| `Ja3ReadsTheHello` | buffers of bytes, whatever they hold | `Ja3MatchesHello`: what the e2e parser and `computeJa3()` both take they read the same |
| `Ja4StaysWithinJa3` | same | `Ja4WithinJa3`: `computeJa4()` takes nothing that JA3 refuses, and its lists are those of JA3 without GREASE |
| `MessagesHaveFingerprints` | messages as for `IntactIsAccepted`, with no list longer than its extension | `FingerprintOfMessage`: JA3 and JA4 refuse none of them, and take none that is cut off |
| `EarlyExitIsSound` | sorted list of ranges, of any length | the early exits of `isMasked()` lose nothing |
| `StrictCarriesOver` | captures, sidecars, arrays, rewritings | `StrictImpliesTolerant` |
| `MaskedAlwaysReference` | same, sidecars with any number of fields, overlapping or not | `MaskedIsReference` |
| `OracleAlwaysAgrees` | same | `OracleAgrees` |
| `ReferenceInvariance`, `ListedProfilesAreServed`, `StoreStaysStable` | calls, profiles, dumps, versions and changes of the directory | `ReferenceInv`, `ListedIsServed`, `StoreIsStable` |
| `ProvidersKeepContract` | same | the safety part of `ProviderContract` is implemented |
| `Http1VerdictAlwaysRight` | finite sets of header names, orders of any length | `Http1VerdictIsRight` |
| `Http2VerdictAlwaysRight` | settings in any number and order, with any values, cut off anywhere | `Http2VerdictIsRight` |
| `PercentilesAlwaysRanks` | number of runs, and durations | `PercentilesAreRanks` |
| `PercentileIsNearestRank` | ascending samples, any number of them, at 50, 95 and 99 | `IsPercentile` of what `percentile()` returns |
| `ElementReadsBack` | tag, content below 65536 bytes, bytes behind it | what `derTagged()` has written is read back, and its end found |
| `ElementsReadBack` | number of such elements, one behind the other | they are read back, and nothing else |
| `ObjectIdentifierReadsBack` | arcs, two or more | what `derOid()` puts behind the first byte is read back |
| `CertificateAlwaysReadsBack` | names and addresses in any number, keys, signatures and times, of any length that keeps the certificate below 65536 bytes | `CertificateReadsBack` |
| `FingerprintsAlwaysTellApart` | requests with any number of headers and cookies, of any length, repeated or not; connections with any number of settings and pseudo-headers | `FingerprintsTellApart`: for all requests that what JA4H leaves out does not show, for unambiguous ones that the rest does; for connections both |

The argument for the servers. That a done slot never changes is not inductive:
`onClientHello()` overwrites the slot unconditionally. It is safe only because
the connection in front of it cannot be the one that is done (`DoneHasFinished`)
and there is no second one past the guard (`SingleShot`), which in turn needs
that an idle slot has seen no connection. That promises are settled needs that
both arrays and the timers name the same calls (`NoLostCall`) and that no call
waits behind a verdict (`NoCallBehindVerdict`). `ServerInv` is the conjunction
of these; each action preserves it, one lemma per action, and the lemmas about
the shared actions serve both servers. The refinement step maps every action to
`Call`, `Succeed`, `FailFor`, `Reopen` or a stutter.

For the capture, `CaptureInv` says that `capture` is what `tryCapture()` answers
for the chunks so far. `LengthField` gives the division of a 16-bit number into
two bytes. `OnlyTheLastChunkIsCut` uses it twice: a length that was looked up in the
same first chunk has not changed since the chunk before, and a first chunk that is
short of the length field gives too small a length, but not one below the header's.

`OnePastTheGuard` and `ResponseIsReported` are read off the same invariant.

`StopMeansDrained` is not inductive either: that a resolved `stop()` leaves no
socket follows from what the server waits for. `DrainInv` adds that the `close`
event is due only with the port closed, that only the first `stop()` is pending
or resolved, and that none is while the server listens. The traffic server has
the same argument over phases of its own: a socket whose response is being written
still counts as open.

For the parser, `TypeInv` adds to `TypeOK` that no extension block is known
before the header is read; otherwise a new `bodyEnd` could fall below `extEnd`.
The lemmas about `Byte`, `U16`, `U24`, `U16List` and `Slice` hold at any offset,
and `TypeField` covers every field that passes its check. `NothingMisread` needs
`ReadSoFar`: at each step the fields read are the bytes of the body between two
positions, and what is left begins at the second. `Between` is such a part, and
`BetweenJoins` and `BetweenBetween` put parts together. `HeaderRead` says where the
body lies, so a message cut anywhere is short of the length in its header, which
is `PartRejected`. For `IntactAccepted` the bytes are known: `FieldsAt` lays out the
fields at their positions (`LieAt` places each extension, `RunSplits` finds the next
behind it), and `OnTrack` is the invariant that the parser stands where one of them
begins. No check can then fail, as each compares what is left with a length that is
there. That extensions follow each other in a run of any length is an induction
over their number.

For the agreement of the parsers, the fields have their places in the buffer
(`SessionPlace` to `BlockPlace`), and so have the extensions: a `Chain` has the offsets
of the first of them, each found by the length of the one in front. `HelloWalks`,
`Ja3Walks` and `Ja4Walks` say of each parser that it stands at such a place and has
read what lies in front of it, although the three compare these places with different
ends. `CompleteAgree` makes the chains of two parsers that have come to the end one
and the same, so what was read along them is equal, extension by extension (`Trail`,
`TrailsAgree`). `Ja3Refuses` is all that JA3 throws at; `Ja4Walks` carries the negation
of each of its parts as far as JA4 has come, so that JA4's success leaves none
(`Ja3HasTaken`). That GREASE can be left out of each extension's groups or of
all of them together is `NonGreaseConcat`.

That a message is refused by neither uses the same walks. In a message each place of
the chain has an extension of the hello (`ItBegins`, `ChainedExtensionLies`: the
first lies behind the length of the block, each next one behind the one in front), and
one that lies there as it was put together has lists that are read to their end
(`ListsAreRead`, `ListAssumption`). So no part of `Ja3Refuses` holds, nor of what JA4
looks at besides; that the walk over the names of the protocols misses none is
`NoProtocolMissing`, where `NoneIsMissed` shows the code's recursive function to be the
empty one. A part of a message has no whole handshake (`PartHasNoHello`), and JA3 comes past
its header with one only.

For the golden captures, `GoldenInv` says that a call during which nothing was
rewritten holds the bytes that are on disk, and that what is in `agreed` matches
them and has a sidecar that loads. `EqualIsTolerated` does the rest: arrays that
`compareBytes()` finds equal diverge nowhere, so masks do not matter, however they
are ordered. `MaskedIsReference` is about the order too. `SortingOrder` of
`StableSort` gives each place its rank, and the ranks are a permutation, since of two
places one is in front of the other. So the sorted list has the same ranges and
ascending offsets, and `EarlyExitIsSound` says that the walk over it misses nothing.

For the providers, `ReferenceInv` says that an answer from the store has the
version the manifest was loaded with, and that a call was rejected for one of the
two causes. `ListedIsRegistered` connects the two lists the code keeps: each
profile on the hand-written one is found in the manifest, and its first entry is
of protocol `tls`. The refinement needs no more than the kinds of calls and
versions (`ContractInv`): `PromiseMoves` carries a step of a call to its promise,
and `StoreHasAnswer` says that the lookup finds an answer exactly where the
contract has one.

For the oracle, `RewriteKeepsBytes` says that the files hold sequences of numbers
whatever is rewritten, and `OracleIsCompare` that on such arrays the two
comparisons have the same first difference: both are the least divergent place.

For the HTTP/1.1 suite, `HostIsInTheOrder` says that a Host found anywhere is in
the order, in lower case, once the other checks have passed: a default header
must be listed there and a listed name must be in lower case.
`CountTellsDuplicates` turns the code's search for a duplicate into a cardinality.
For the HTTP/2 suite, `FrameIsLaidOut` says where each setting lies in a frame of any
number of them, by induction over the items joined (`ItemsInPlace`); `PayloadOfFrame`,
that what is read behind the header of a frame cut anywhere are the settings there as
a whole; `LastIsFound`, that the map has the last value of an id, by induction over the
settings. A capture that ends within the header is parsed too, and its first bytes read
as a setting of id 0, which is none of the checked ones (`HeaderHoldsNone`). For a
percentile, `RankIsNearest` is the arithmetic of the rounded rank, and in
ascending samples the places up to the rank hold what is less or equal; `MeasuredRuns` says that the sorted samples are a
permutation of the runs behind the warm-up. For an
element, `LengthReadsBack` takes the three forms of a length apart, with
`TwoBytes` for the division into two bytes.

A certificate is elements within elements. `ElementBehind` reads an element from any
offset, whatever is in front of it and behind it; `ElementsBehind` does so for any
number of them, by induction over the parts, along the reader's own recursion
(`ElementsAreRead`). `Holds` says of bytes that they are read as a list of elements,
each short enough for its length: parts joined to less than 65536 bytes hold them
(`PartsAreHeld`), and `HeldInside` goes one level down, where the content is shorter
still (`PartIsShorter`). So the one bound on the whole certificate serves at every level,
and `SanReadsBack`, `ExtensionsReadBack`, `TbsReadsBack` and `CertificateIsSound` only
list what is where. An arc is read group by group: the groups in front of the last have
their high bit set (`HighBit`) and add up to the arc (`FrontIsRead`, by induction over
the arc, which exceeds its quotient by 128).

For JA4H, lists have the same bag if each value is in them equally often
(`BagsAreCounts`). `Before` is a strict order in which any two strings compare
(`BeforeIsStrict`, `BeforeChains`, `BeforeIsTotal`), so the number of strings in front of
one ranks it, and sorting by that rank orders the strings and keeps the counts
(`StringOrderSorts`); ordered lists with the same counts are one (`OrderIsUnique`): where
they part, the string that comes before the other is in one of them once more. So lists
sort alike if and only if their bags are the same (`SortedTellsBags`), which is the
first direction: same requests are joined from the same sorted lists
(`SameRequestOneJa4h`). For the other one a joined string is taken apart at its first
comma, which no name has (`FreeJoinTellsApart`, by induction over the string), and the
empty string is no list of names (`SomethingIsListed`) (`OneJa4hSameRequest`).
`FilteredAlike` is why the headers may be filtered: how many cookie headers went is known
from the number of headers, which is counted before. The third part says nothing the
second does not, as the names are those of the cookies (`NamedAlike`). That methods and
languages have one code exactly if they are alike is `MethodCodes` and `SameLanguages`.
An Akamai string is taken apart at its first bar, which no token
of the settings is (`SegmentsTellApart`); what is joined of parts of one length, three
tokens a setting and one a pseudo-header, can be taken apart whatever separates them
(`JoinTellsApart`).

Induction is over sets: `SetInduction`, that a set of numbers with 0 and with the
successor of each of its members has all numbers, is proved in `SequenceLemmas`
by the least number outside it. A function defined by recursion in a LET exists by the
same argument, and so do the joined sequences of `FlattenSeq` (`FlattenJoins`).

The proofs use assumptions about constants, each stated where the constant is:
`CaptureAssumption` (a record length is below 65536), `BufferAssumption` (buffers are
of bytes), `HelloAssumption` (the fields of a hello are of bytes, random and
versions have their lengths), `BytesAssumption` and `SidecarAssumption` (files have bytes,
valid sidecars lists of ranges), `ProfileAssumption`, `SettingsAssumption` (settings are
natural numbers), `SubjectAssumption` (what a certificate is made of are bytes, the key is
a SEQUENCE, and the certificate has less than 65536 of them: `derLength()` has no longer
form), `RequestAssumption` and `ConnectionAssumption` (headers and cookies of a request are
lists of strings of code units, its method is one of seven, whose first two letters differ,
its language is in ASCII; settings and the two counts of a connection are numbers, and
pseudo-headers are of the four), `RunsAssumption` (each run took a time) and `NaNAssumption` (NaN is no
integer). `ListAssumption` (no list of groups, formats or protocols is longer than its
extension) is used by `MessagesHaveFingerprints` alone; on other lists JA3 or JA4 throws. The servers
and the providers need none.

Model-checked only: the liveness properties, and hence the fairness part of the
contracts (ENABLED and liveness are outside the prover); the JA4
tag, which sorts with `SortSeq`, an operator
of the module TLC that the prover does not know; what is said of whole messages
by the accessors (`AccessorsAgree`, `TagTellsClientsApart`), which search the extensions
with `SelectSeq`.

## Where code and text disagree

- `SinkRevived`. `onClientHello()` (`src/e2e/sink-server.ts:229`) sets the slot
  to handshaking even when a timeout or `stop()` has failed it. A later call
  then waits, and may resolve, although
  `tests/e2e/sink-server-coverage.test.ts:255` says a call after a failure
  rejects with the cached error.
- `CaptureFragmented`. The record length is looked up in the first chunk
  (`src/e2e/sink-server.ts:173`), so a first chunk below five bytes makes the
  capture too short, although line 168 says the loop is robust to fragmentation.
- `GoldenRandom`. The mask for the client random begins at offset 12 in every
  ClientHello of the manifest (`src/captures/manifest.ts:53`) and in the sidecars.
  Behind record header, message header and version the random begins at 11. So
  its first byte is compared, although `captures/README.md:48` says the field
  covers it, and the length of the session id is not.
- `HelloTruncated`. The length bytes of session_id and compression_methods are
  read without a check (`src/e2e/parse-clienthello.ts:177` and `:201`); at the end
  of the buffer the position becomes NaN and the call returns, although line 132
  says it throws on malformed or truncated input.
- `Ja4Versions`. `src/fingerprint/ja4.ts:266` doubles the length of the version
  list, which `src/e2e/parse-clienthello.ts:328` says counts bytes. Harmless on
  hellos whose list fills its extension (`AccessorsAgree`).

More need no run to be seen:

- Only the slice up to the record's end is unshifted (`src/e2e/sink-server.ts:177`).
  What the last chunk holds behind it has been taken out of the stream and never
  reaches the TLS layer, although line 18 says the buffer is unshifted back onto the
  socket. `OnlyLastChunkIsCut` says that no other chunk loses anything.
- The compliance suite takes any suite of two equal bytes from 0x0a on for GREASE
  (`src/rfc/rfcTests.ts:36`), 0x0c0c among them, although the comment above says
  0x?a?a. The other two tests go by the table of sixteen values.
- `decodeSni()` stops where the list's length says
  (`src/e2e/parse-clienthello.ts:366`), `parseSniHostname()` reads on to the end of the
  extension, although line 353 calls its result the first of the names `decodeSni()`
  returns. Where both lengths say the same, it is (`AccessorsAgree`).
- The protocols are joined with commas and split again (`src/fingerprint/ja4.ts:96`), so
  the single protocol "h,2" has the code "hh", although line 88 says first and last
  character of the first protocol.
- For arrays of different lengths the divergence index of `compareBytes()` is the
  shorter length (`src/utils.ts:46`), although `src/types.ts:60` says it is the
  first divergent byte.
- `RealBrowserCaptureProvider.availableProfiles()` says that discovery is driven
  by the manifest (`src/reference/browser-provider.ts:42`) and returns a list
  written out by hand, without three profiles of the manifest.
- The option `capturesDir` is said to override the captures directory
  (`src/reference/browser-provider.ts:22`); it is stored, and the manifest reads
  its own directory.
- The sidecars of firefox-133 and safari-17 mask a range for GREASE that their
  manifest entries lack.
- The id in the example of `README.md:66` is malformed.
- The TLS suite is said to validate signature algorithms and supported versions
  (`src/rfc/rfcTests.ts:9`), and hands empty lists of both to the validation.
- A capture that is no SETTINGS frame is returned as it is "for the caller to
  surface as a compliance failure" (`src/rfc/rfcTests.ts:87`); the caller reads
  settings in it, and settings without a frame pass.
- "Each SETTINGS value" is said to be verified (`src/rfc/rfcTests.ts:139`), and ids 1
  to 5 are listed below that; ids 1 and 2 are never compared. `Http2VerdictIsRight` is
  about the three that are.
- "Header names are lowercase" and the order "matches the default headers' key
  set" (`src/rfc/rfcTests.ts:200`): the first is checked of the order only, the
  second in one direction only. `Http1VerdictIsRight` says what remains.

## Not modelled, and the plan

What is left to do is a proof: that JA4 reads the extensions of a message as the
accessors do (`AccessorsAgree`), from the places `MessagesHaveFingerprints` knows.

Left out for good: the wording of messages, what Node's crypto, zlib and DNS
compute, the validation of a TLS capture against a profile (an external
package), the clock and the average of the benchmarks, file-system paths, and the
test categories, which call packages outside this repository.

# Tongsuo-Go: TLA+ models and proofs

Tongsuo-Go binds the Tongsuo (OpenSSL with SM2/SM3/SM4 and NTLS) library to Go.
Two things in it are hard. One is the TLS stack: a native connection that any
number of goroutines use, stop and close at the same time, the public
connection with its cancellable handshake above it, and the constructors and
the listener that have to give everything back when a step fails. The other is
the width of the wrapper: some 760 functions over native objects,
each of which must release, hand over and guard them on every path. The models
cover both, and the parts with a state of their own in between: certificates
and requests, the key store, sinks and a process-wide cache.

Contents: [inventory](#inventory), [modules](#modules), [runs](#runs),
[proofs](#proofs), [findings](#findings), [what is not modelled](#not-modelled),
[plan](#plan).

## Inventory

| component | state | operations | how it interacts | what is hard | what makes it correct |
|---|---|---|---|---|---|
| `core.SSLConn` (`internal/core/ssl.go`, `ssl_io.go`) | `stopped`, the WaitGroup `inflight`, `mu`, `ioMu`, `readMu`, `writeMu`, `writeErr`, two deadlines, `closeOnce`, `fdOnce`, the native handle with its retained write buffer | Connect/Accept, Read, Write, queries, deadlines, Stop, Close | called by `tls.Conn` from several goroutines; enters OpenSSL and `select(2)` | calls racing Stop and Close; retry loops; half-written records | no use after release, close_notify last, a Write reports only its own bytes, everything ends after Stop or the deadline |
| `tls.Conn` (`tls/tls.go`, `tls/state.go`) | `handshakeOnce`, cached error, `ConnectionState`, `closed`, `closeOnce`, direction locks | HandshakeContext, Read, Write, SetDeadline, Close | starts a helper goroutine inside SSLConn; runs user callbacks | cancellation against the helper's result; implicit handshake of Read and Write; Close in the middle | no data before a final and truthful verdict, no leaked helper, ordered release |
| establishment (`DialContext`, `Client`, `Server.Accept`, `Listener`) | raw socket, dup'ed descriptor, SSL handle, own or shared context, contexts chosen by the ClientHello | the constructors, Listener.Close | shares the server's `SSL_CTX` under `ctx.mu` | failure at each of a dozen steps; Listener.Close during Accept | nothing leaks, what is returned is whole, the context is open while it is used |
| chain reconstruction (`tls/chain.go`) | none: the candidates, the used set | `rebuildChain` | input comes from the peer | cycles, copies, order | linked, independent of the order, terminating |
| `keystore.MemoryStore` (`keystore/store.go`) | `keys`, `hist` | Put, Get, Delete, List, Rotate, History | handles are closed by users | which handle is reachable after long sequences of calls | nothing superseded gets lost, History only grows |
| TLS configuration (`tls/config.go`, `newContext`, handshake callbacks) | settings of a context, the selected configuration | validation, selection during the ClientHello | native callbacks call Go | a selection replaces a dozen settings in two places, twice after a HelloRetryRequest; three settings decide what is verified | all that is in force comes from one configuration, the peer is authenticated as it demands, the report is true |
| wrappers and bindings (`internal/core`, `internal/native`) | a handle: pointer, owned, closed; inside a call: temporaries, stacks, C strings, BIOs | every exported function over a native object | `asym`, `x509`, `pkcs*`, `sym`, `digest`, `mac`, `kdf` are fronts of it | each native call may fail; add0/push calls take ownership only on success; loops that fail half way; the finalizer | nothing leaks, nothing is freed twice or used after, inputs outlive calls, closed handles are rejected |
| certificates and requests (`internal/core/x509.go`, `x509/issue.go`) | `signed`, `closed`, extensions; for a request staged extensions and attributes | setters, extension edits, Sign, MarshalDER, CopyExtensionTo, IssueCertificateFromRequest | a request's extensions travel into a certificate | long sequences of legal calls; the flag beside the native object; a flush that must happen once | a signature covers the content, extensions are not lost or invented |
| `meta.Sink` | kind, encoding, wrote, closed, file, encoder | SetEncoding, Write, Close | written to by every marshaller | chunks against groups of three; destinations that fail half way | no loss without a report |
| digest cache (`fetchedDigest`) | a `sync.Map` | look-up, fetch, store | called from any goroutine | look-up and store are not one step | descriptors bounded by goroutines and names |
| `asn1`, `jwk`, `pkcs*`, `xml/rsa`, `asym`, `ecdh`, `kdf`, `rand`, `sym`, `mac` | parsers, encoders, parameter checks | parse, build, encode | fronts of the wrappers | mostly sequential | see [not modelled](#not-modelled) |

The hazards of this code, with the line where each bites and the properties
that would catch it, are listed in `PROJECT.json` under `hazards`. Seen, and not
listed there because the code makes no promise about them: an address without a
host gives an empty verification name (`tls/config.go:376`); Accept runs the
handshake without a deadline (`tls/listener.go:122`); Client closes its caller's
socket when SetVerifyName fails (`tls/state.go:223`); a second HandshakeContext
waits for the first whatever its own context says (`tls/tls.go:547`);
ReplaceExtension deletes before it inserts (`internal/core/x509.go:1548`);
unlockOSThreadForKey asks a key for its type again, which a Close in between
changes (`internal/core/pkey.go:1609`); a certificate whose copy fails is skipped
(`internal/core/pkcs.go:196`); SaveCertificatePEMFile writes in place
(`x509/x509.go:220`).

## Modules

`PROJECT.json` maps every definition to its source lines. Operators whose name
ends in a description of a mistake (`DrainAtOnce`, `WriteBase64PerChunk`, ...) stand
in front of the operator they are a wrong version of; they are not part of the
specification and serve to show that a property can fail.

**Admission** is the contract of the native connection without its locks: a
call is admitted while the connection is live; the resources are released once,
after Stop and after the last admitted call.

**SSLConn** models `core.SSLConn` for a set of goroutines. A goroutine has a
program counter that names its place in `runIO`, `sslStep`, a query, `Stop` or
`Close`. `mu` protects a few instructions, so what runs under it is one action
(`Begin`, `StopFlag`). `ioMu`, `readMu`, `writeMu` and `closeOnce` are held
across blocking work and are variables that name their owner. A native call
answers ok, want, eof or fail at will. The retained write buffer of
`X_SSL_write_owned` is `pending`: while it is set, a Write continues with it
whatever buffer it was given. A deadline is none, future or past, and `Tick`
lets it pass. Finalizers are left out: the receiver is reachable during a call.

**TLSConn** models `tls.Conn` on top of `INSTANCE Admission`: of SSLConn it
uses only what Admission promises, that an admitted call returns "closed" only
after Stop and "timeout" only after the deadline, and, for liveness, that it
does return then (the two liveness properties checked of SSLConn). The first
goroutine in `handshakeOnce` starts the helper, selects on its result and its
own context, and builds the verdict in the order of the source: callback error,
`captureState` (itself an admitted call), user callbacks, a last look at the
context. `proto` and `custom` are history variables that say what really
happened; the verdict is compared with them.

**Establish** models the constructors step by step. Each call owns a raw
socket, a descriptor, an SSL handle, possibly a context, and contexts selected
by the ClientHello; each step succeeds or fails, and the failure paths are
those of the source, deferred calls included. `readers` is who holds
`ctx.mu.RLock`; a waiting writer holds new readers off, as `sync.RWMutex` does.

**Negotiation** models what a handshake is negotiated with. A configuration is
a record of the fields that decide something; `validateConfig`, `newContext`
and their helpers are operators on it, `Native` is what the context built from
it holds. A connection has the settings of its SSL (`ssl`) and of its Go
callbacks (`cb`); a ClientHello may replace both (`HelloSelects`), be refused
(`HelloRefused`) or fail between two native setters (`SwitchFails`). The
selection callbacks answer anything, the peer offers anything and presents a
certificate of any issuer. `answer` is a history variable, the configuration
before `selectServerConfig` relabelled it. Of a context the native handshake is
assumed to keep to the suites, groups, versions and store it is given; when a
legacy suite list matches nothing, it is assumed to be left empty, as the
comment in `RestrictCipherSuites` says.

**ChainRebuild** models `rebuildChain` as a walk over positions of the pool; a
certificate is its two names and two key identifiers. `Reference` is the same
walk as a function, used to compare the results for two orders of the pool.

**KeyStore** models `MemoryStore`; the methods hold its mutex throughout, so
each is one action. Handles are identities; a user may put any of them at any
time, the current one included. `VersionMod` stands for 2^32.

**Instructions** is the vocabulary in which a Go function over native objects is
written down: a guard, a native call with what it is given and what its failure
branch frees, an acquisition, a transfer, a free, a defer, KeepAlive, a
condition, a loop. **CoreX509**, **CoreKeys**, **CoreCrypto** (`internal/core`)
and **BindingX509**, **BindingCrypto** (`internal/native`) hold the functions,
one row each, grouped by stretches of the source. Functions with one shape share
a row. What a call computes is left out; which objects it touches, in which
order, and what each early return releases, is all there.

**Ownership** interprets a row: any call may fail, any optional branch may be
taken, any loop may go round again, any argument may have been closed before.
`held` counts the native objects the function owns, `defers` is Go's defer
stack. What a Tongsuo call does with ownership is external, taken from how the
callers rely on it.

**BodyCheck** reads a row without running it: where control may go (`Succ`),
which check or KeepAlive lies on every path to an instruction
(`ChecksComeFirst`, `KeepsComeFirst`), and in which states each object of the
function can be at each instruction (`Visits`), none of which may be wrong
there (`Balanced`). An object may stay behind only when its function fails and
`LeftToFinalizer` names the two. `OwnershipAssumption` of Library demands it of
every row, TLC evaluates it for all of them, and the proofs show that it
suffices. **MCOwnership** runs the row of `ChainVerify` alone, without that
exception.

**Issuance** models the life of one certificate and one request. `sig` says
whether the signature covers the present content; `signed` is the flag of the
wrapper, and the two may disagree. A request stages extensions in Go, flushes
them into an attribute, and a reader sees the first attribute only.
`Sources` is every function of `internal/core` that builds a Certificate: one
makes an empty one, five wrap a signed one and set the flag (`Parsed`), five do
not (`Unmarked`: three that open containers or responses, and the two that hand
out a connection's peer certificates). `CertSources` and `ReqCalls` select where
the certificate comes from, without restriction in the proofs, and which of the
optional calls the application makes.

**Sink** models `meta.Sink`: the destination is the sequence of encoded
characters that arrived, compared with the encoding of everything accepted.
**DigestCache** models `fetchedDigest` with look-up, fetch and store as separate
steps of many goroutines.

**Library** puts Ownership, Issuance, ChainRebuild, KeyStore, Sink and
DigestCache side by side. They share no state, so a behaviour drives one of them
(`focus`) through all its own interleavings; the variables of the others are
`"absent"`. **MCLibrary** supplies all function rows, names the functions that do
not look at a closed handle first (`NoClosedCheck`), and the one slice of
wrappers that a failing function drops (`DroppedOnFailure`).

The other **MC\*** modules only add the symmetry sets for TLC. **\*Proofs**
modules hold the theorems.

## Runs

| run | bounds | shows |
|---|---|---|
| `conn_safety` | 3 goroutines, 2 payloads; Read, Write, queries, Close; deadlines none/past | no use after release; close_notify last; own payload; single release; shutdown(2) on the own descriptor; no Write after a failed one; SSLConn implements Admission |
| `conn_live` | 2 goroutines, 1 payload; handshake, Read, Write, Stop, Close; deadlines future; fair | every call returns after Stop, and once its deadline has passed for good |
| `conn_stop_race` | 2 goroutines; Stop and Close | violation, see findings |
| `tls` | 2 goroutines and the helper, Writes of up to 2 chunks, a user deadline in the past; fair | the safety properties of tls.Conn, the verdict is final, cancellation ends the handshake, Close ends every call |
| `tls_cancel_race` | 1 goroutine, user deadlines; fair | violation, see findings |
| `establish` | 2 calls, 2 selections; fair | nothing leaks; connections are whole; the context outlives construction; Listener.Close returns |
| `negotiation` | about 140 configurations as base and as answers, 2 authorities and the default paths, 2 groups, 2 ALPN protocols, 2 ClientHellos | settings in force come from one configuration; the peer is authenticated as it demands; the report is true; what was agreed is allowed |
| `chain_key_ids` | pools of 1 | violation, see findings |
| `library` | all function rows, loops up to 3 rounds, every set of closed arguments; 3 extension types, 4 origins of a certificate (empty, parsed, out of a container, peer certificates), 2 staged extensions; chains over 2 names, 2 key identifiers, pools of 2 and a copy of the leaf; 2 IDs, 4 handles, versions modulo 3; 7 bytes in chunks of 0 to 4, 4 kinds of sink; 3 goroutines, 2 digests | nothing leaks but the copies of finding 8, nothing is freed twice or used after; inputs outlive calls; closed handles are rejected; extensions arrive; signatures go stale only where the code does not ask; chains are linked, order-independent, terminating; superseded keys stay reachable, versions distinct, History append-only; sinks lose nothing silently; digest descriptors are bounded |
| `csr_extensions` | 2 extension types, MarshalDER before Sign | violation, see findings |
| `signed_container` | a certificate out of a PKCS#12 container | violation, see findings |
| `chain_verify_drops` | the row of ChainVerify, loops up to 3 rounds, every set of closed arguments | violation, see findings |

**Why the bounds are enough.** The races of SSLConn are between a call, a
second call that holds or retains what it wants, and Stop or Close: three
goroutines. The payloads matter only as equal or different: two. In tls.Conn one
goroutine runs the handshake or moves data while another waits or closes; for
more goroutines its safety properties are proved. Calls of
Establish meet only at the listener and its context. Two chain candidates and
the copy of the leaf form every cycle of length up to three. The configurations
of `negotiation` hold every combination of policy, client authentication, roots
and names, and every other field at each of its values. A function row has no
state between calls and no loop whose third round differs from its second. Two
staged extensions make two attributes possible, which is where requests go
wrong. Seven bytes are two base64 groups and a rest, cut in every way. Four
handles rotated in a row wrap a version modulo 3. The safety results do not rest
on these bounds: all of them are proved.

**Fairness.** `SSLConn`: weak fairness of what a goroutine does inside a method
(the Go scheduler runs it, a native call on a non-blocking socket returns and a
`select(2)` slice ends), strong fairness of taking a mutex (`sync.Mutex` turns
to its starvation mode and serves each waiter). The peer's answers are never
fair: `want` may come forever. `TLSConn`: the same, and an admitted call is
bound to end only after Stop or a past deadline. `Establish`: computation is
weakly fair; dial, accept and handshake may wait forever. `Library`: the loop of
`rebuildChain` runs.

Deadlock is checked except where the modelled thing may stop: a function that
has returned, the end of a chain walk, a key store whose handles are used up, a
closed sink, and the run that exhibits a goroutine waiting for good.

## Proofs

Eight modules of theorems, for every value of the constants allowed by the named
ASSUMEs (goroutines a finite set, markers such as `None` distinct from data,
bounds natural numbers, function rows that pass BodyCheck). Every invariant and
every action property of a passing run is a theorem. Each rests on an inductive
invariant, kept beside the properties in the module it is about, with one lemma
or step per action.

- **SSLConnProofs.** `IInv` says where each method's goroutine can be
  (`MethodInv`), who owns which lock (`LockInv`), that `inflight` is the number
  of admitted calls and that none is left once Close saw zero (`CountInv`), that
  `stopped` precedes everything in Stop and Close (`StoppedInv`), that handle and
  descriptor go together (`ReleaseInv`), and that a retained payload belongs to
  the holder of `writeMu` or the stream is, or is about to be, poisoned
  (`WriterInv`). The last one is what makes "a Write sends its own buffer"
  inductive. Theorems: types, no use after release, close_notify last, own
  payload, single release, safe shutdown(2) if Stop is only called by Close, no
  Write after a failed one, and the refinement of Admission.
- **TLSConnProofs.** `IInv` ties the two onces and Admission's `active` to the
  program counters (`OnceInv`), the helper to the once (`HelperInv`), the verdict
  to each stage of its construction (`VerdictInv`), and Close's stages to what
  is released (`CloseInv`). Theorems: all safety properties of the module, and
  that the verdict is final.
- **EstablishProofs.** `IInv` says exactly what a call holds at each step
  (`HeldInv`), on whose path it is (`KindInv`), and who reads the server's
  context (`LockInv`). Theorems: no leak, whole connections, context open during
  construction.
- **NegotiationProofs.** For any set of configurations. `IInv` adds to the
  properties that the configuration in force is one `newContext` accepts (which
  is what makes verified client authentication strict), that nothing is recorded
  before the certificate (`Unverified`) and what the callbacks recorded of it
  (`Recorded`). `PolicyInContext` relates policy and native verify mode.
  Theorems: settings from one configuration, peer authentication, truthful
  report, agreements.
- **OwnershipProofs.** For any rows that pass BodyCheck, any arguments closed
  before the call, any pattern of failing calls and any number of loop rounds:
  the static reading is sound. Control flows along `Succ` (`FlowStep`), so a block
  that is entered through a check only runs when it has passed (`ChecksPassed`,
  by `EntersThrough`), and the same of a KeepAlive (`KeepsDone`). While the body
  runs, what is held of an object and the release pending for it is one of the
  states in `Visits` (`ObjectsAreVisited`); when it returns, a pending release
  that runs finds its object and nothing else is held, but for what
  `LeftToFinalizer` names on a failing path (`UnwindsToNothing`). `DeferredOnce`
  (one pending release per object) is what makes the unwinding inductive. Theorems: no leak but for those names (of this code, the one
  pair in `DroppedOnFailure`), released once and last, inputs outlive calls,
  closed handles are rejected. Of the rows themselves only TLC's evaluation of
  the assumption speaks, which is finite and complete: it does not run them.
- **SinkProofs.** For any number of bytes, cut into any chunks. Hex and base64
  are given character by character, and `HexConcat` and `Base64Concat` show that
  encoding distributes over concatenation, for base64 at whole groups of three
  (`WholeRest`, `GroupConcat`). `SinkIInv` says that, while nothing failed, the
  destination holds the encoding of the whole groups accepted so far and the
  encoder the rest (`EncoderKnows`, `StreamGoesOn`), and that a sink that was
  never written to is untouched. Theorem: no loss without a report.
- **CertificateProofs.** For any names, key identifiers and pool size. `ChainIInv`
  says that the chain is a path of issuers without repetition and that only a
  self-signed certificate or one without candidates ends it. That the order of
  the pool does not matter is shown by walking the pool and its mirror image
  side by side (`Mirrored`, `MirroredStep`). `IssuanceIInv` says that the signed
  flag follows the signature but for the unmarked sources (`FlagsAgree`), that each
  extension a request was given is staged or in an attribute (`GivenIsKept`), and
  what the issued certificate was made from (`IssuedIsSigned`). Theorems: linked
  chains, independence of the order, requests are honoured, and signatures go
  stale only in the named ways.
- **LibraryProofs.** KeyStore: `IInv` says that an entry carries its ID, that
  stored handles are named, that a handle's version is one more than its
  parent's; the k-th ancestor is then k versions behind, and fewer rotations
  than versions cannot meet (`KeysDistinct`). DigestCache: `CacheIInv` says that a
  goroutine about to fetch holds no descriptor of that name and that whoever
  obtained one has stored it or is about to. Theorems: superseded keys stay
  reachable, versions are distinct, History only grows, descriptors are bounded,
  and the types of the whole library from the invariants of its six parts.

Where an argument goes by induction over data (the ancestors of a key, the steps
of a walk, the length of a stream), it is put as the least counterexample of a
set of natural numbers (`NatMin`), since the provers cannot instantiate the
library's induction rules. A recursively defined function is first shown to
exist (`AncestorsExist`, `WalkExists`).

**Only model-checked:** liveness, since the prover does not reach fairness or
ENABLED: `StopEndsCalls` and `DeadlineEndsCall` of SSLConn, `CancelEndsHandshake`
and `CloseEndsCalls` of TLSConn, `ListenerCloseReturns` of Establish and
`Terminates` of the chain walk; and the violations below.

## Findings

1. *Bare Stop against Close* (`conn_stop_race`). `Stop` calls `ShutdownFD` after
   it has released `ioMu`. A Close of another goroutine skips its own Stop
   because the flag is set, and may close the descriptor first; shutdown(2) then
   meets a number that is no longer ours. The comment calls Stop safe for
   concurrent use. `tls.Conn.Close` does not expose it: the theorem
   `ShutdownSafeWithoutBareStop` covers that use.
2. *SetDeadline against cancellation* (`tls_cancel_race`). Cancelling the context
   wakes the helper through the shared deadline. A SetDeadline of another
   goroutine that clears it in between leaves HandshakeContext waiting for the
   peer although its context is done.
3. *Key identifiers that disagree* (`chain_key_ids`). The comment of
   `rebuildChain` says that two present identifiers must be equal before a match
   by name is accepted; the second pass compares names only.
4. *Put of the current handle* (no run of its own; `Put` of KeyStore). It
   appears in History, which is documented to exclude the current entry, and a
   user who closes what History lists closes the key in use.
5. *Two attributes in a request* (`csr_extensions`). The comment of
   `flushExtensions` says the native call must be made once. MarshalDER,
   CopyExtensionTo and a Sign with an unusable key flush a request that is still
   open; an extension added later ends up in a second attribute that no reader
   looks at, under a valid signature.
6. *Signed certificates that are not marked* (`signed_container`). The comment of
   `Certificate.signed` says that every path but NewCertificate sets it.
   `PKCS12.Parse`, `PKCS7.Certificates`, `ResponderCerts`,
   `SSLConn.PeerCertificate` and `SSLConn.PeerCertificates` do not, so the
   setters edit a certificate under its signature. Along the same line,
   `SetChallengePassword` edits a signed request and `CopyExtensionTo` a signed
   certificate. `SignatureLastsBut` states that, with any constructor of
   `internal/core` as the origin, these are the only ways. The public packages
   encode what they get from those five and load it again (`certaccess.Wrap`,
   `wrapCertificate`, `peerCertificateChain`), which sets the flag: the finding is
   about `internal/core`.
7. *Closed handles* (no run of its own: `NoClosedCheck` in MCLibrary). The comment
   of `Handle.Close` promises an error of every wrapper afterwards. Seventeen
   exported functions, the eight operations of `PKey` on messages among them, do
   not ask and pass NULL to native code. `ClosedIsRejected` states that all
   others do.
8. *Copies left to the finalizer* (`chain_verify_drops`). `ChainVerify` copies the
   verified chain one certificate at a time. When a later copy fails it returns
   an error and drops the ones it has wrapped; only their finalizers release
   them, which section 7 of `docs/architecture.md` says must not be the only way.
   `VerifySignatures` and `PeerCertificates` close theirs. `NoObjectLeaks` names
   this exception (`LeftToFinalizer`) and holds of everything else.

Seen, and claimed by no document: a CA that lists a key identifier among its own
extensions issues a certificate with two of them (`x509/issue.go:216`).
`RequestIsHonoured` counts each other extension and exempts this one.

## Not modelled

Cryptographic computation and parsing in Tongsuo (out of scope and of TLC's
reach); session resumption, which the code neither enables nor uses; the bytes
of encodings (`jwk`, `pkcs7`, `pkcs12`, `xml/rsa`, `certpol_der.go`) and the
parser of `asn1`, where a model would only repeat the code; suite tables and
error classification (pure lookups, except `configureCiphers`, which is part of
Negotiation); the fronts `asym`, `ecdh`, `kdf`, `rand`, `digest`, `sym` and most
of `x509`, which check parameters and call the wrappers that are modelled; edits
of a signed certificate through a borrowed Name, which depend on a cache inside
Tongsuo; the operating-system thread of an error queue; the garbage collector
beyond KeepAlive; the Darwin variant of waitFD; examples and tests.
`PROJECT.json` lists each component with its status.

## Plan

1. The replaying MAC writer of `mac/mac.go` (Write, Sum, Reset over a context that
   cannot be copied) and the streaming reader of `sym/forms.go`.
2. `Negotiation` extended by native options, signature algorithms and the
   hostname options; `Establish` to take its failure points from it.
3. `KeyStore`: LoadPEM, LoadPKCS12 and the JSON form.
4. `asn1`: the limits on depth, length and element count as a walk, checked
   against a reference on bounded inputs.

# crypto11 in TLA+

crypto11 is a Go library that puts Go's `crypto` interfaces (`Signer`, `Decrypter`, `cipher.AEAD`,
`hash.Hash`, `cipher.BlockMode`) on top of a PKCS #11 token. The cryptography is the token's. What
is crypto11's own, and what these modules are about, is everything around a call to the token: a
limited number of *sessions* shared by any number of goroutines, a *library* and a *login* shared
by all the Contexts of a process, objects that keep a session from one call to the next, and keys
that exist as several objects on a token anybody else may write to.

Every definition is written from the source; `PROJECT.json` says which lines each of them stands
for. The models keep the control flow (each channel operation, lock, call to the token, early
return and error path, in the code's order) and abstract the data: a session is a model value, a
MAC is what it is the MAC of.

## 1. Inventory

### Session pool: `internal/pool/resource_pool.go`, `atomic.go`

- **State.** A buffered channel `resources` of wrappers, each with a session or empty, full of
  empty ones at the start; `capacity`; the counters `available`, `active`, `inUse`; an idle timer.
- **Operations.** `Get` (with a context that may expire; `takeIdle` passes over empty wrappers to
  reuse an idle session, and puts them back), `Put` (with a session, or nil to have a new one opened
  in its place), `SetCapacity`, `Close` (stop the timer, then `SetCapacity(0)`), and
  `closeIdleResources`, which the timer's goroutine runs.
- **Hard.** There is no lock: goroutines interleave at every channel operation and every atomic
  update. An entry that is taken out and not put back on some error path is gone for good, and the
  `Get` or `Close` that waits for it waits for ever.
- **Correct when** entries are conserved, no two goroutines have the same session and nobody has a
  closed one, `Put` always finds room, nothing is sent on the closed channel, the channel is closed
  only when everything is back, the counters do not drift, the number of open sessions follows the
  number of operations in flight, and `Get`, `Close` and `SetCapacity` return.

### Idle timer: `internal/pool/timer.go`

The goroutine that calls `closeIdleResources`, and the handshake by which `Stop` returns only when
that goroutine is not inside it. It keeps `running` and an unbuffered channel.

### Sessions of a Context, and its Close: `sessions.go`, `crypto11.go`

- **State.** The pool; `c.ops`, a `sync.RWMutex` held for reading by every operation from
  `getSession` to `putSession` and for writing by `Close`; `closed`; `closeOnce`; the persistent
  session that keeps the login; a reference to the loaded library.
- **Operations.** `getSession`, `putSession` (which closes and replaces a session that failed
  fatally), `withSession`, `Close`, `PoolStats`.
- **Hard.** Check-then-act against a concurrent `Close`; two concurrent `Close`s; a writer that
  waits for the lock keeps new readers out.
- **Correct when** no operation has a session once the token is logged out or the library dropped,
  `Close` finds nothing checked out, the teardown happens once and nobody returns from `Close`
  before it is complete, poisoned sessions are not pooled, and everybody returns.

### Module references and Configure: `crypto11.go`

- **State.** The process-wide map `moduleReferences`, from absolute path to a `*pkcs11.Ctx` and a
  reference count; for each token, the sessions open on it and whether the process is logged in.
- **Operations.** `openModule`, `moduleCtx.Close`, `findToken`, `Configure` with the deferred
  function that undoes a Configure that fails part-way.
- **Hard.** Everything here is shared by Contexts that know nothing of each other; every step of
  `Configure` may fail, with others using the same library and the same login.
- **Correct when** a library stays initialised exactly while some Context holds it, no Configure is
  refused because another Context loaded the library from the same absolute path, however the two
  spell it, no failure leaves a session behind, and no
  Context loses its login to another one's failure or `Close`.

### HMAC and block modes: `hmac.go`, `blockmode.go`

- **State.** The session an object keeps between calls; for an HMAC the count of updates and the
  result; on the token, the operation in progress on each session.
- **Operations.** `NewHMAC`, `Write`, `Sum`, `Reset`; `NewCBC…`, `CryptBlocks`, `Close`, the
  finaliser.
- **Hard.** Calls in any order, each of which may fail half-way; a session that must go back exactly
  once; operations that a token leaves in progress after they failed.
- **Correct when** each session is in one place, no object runs into another one's operation, and
  `Sum` returns the MAC of exactly what was written.

### Keys, key pairs and certificates: `keys.go`, `pairing.go`, `certificates.go`, `attributes.go`, `templates.go`, `mlkem.go`, and key generation in `rsa.go`, `ecdsa.go`, `dsa.go`, `ed25519.go`, `symmetric.go`

- **State.** Objects on the token, which other sessions and processes create and destroy, and the
  handles Go values keep of them.
- **Operations.** Generate a key pair (and destroy it if its public half cannot be read), generate
  a secret key (trying several mechanisms), enumerate, pair each private key with its public half,
  find a chain of certificates, import, delete.
- **Hard.** A key pair is two objects, created and destroyed in several calls; public objects are
  not trustworthy; an enumeration is many calls during which the token changes.
- **Correct when** a public key that was returned belongs to the private key, one odd object does
  not hide the others, a failed generation leaves nothing, a chain of certificates is signed link by
  link, misses no issuer that is there, and its search ends, and the attribute set a caller passed
  describes the secret key it was given.

### GCM: `aead.go`

- **State.** The `Config`, which says who makes the IV and where it is to be found; the caller's
  nonce slice, which `Seal` may overwrite. Nothing is kept between two calls.
- **Operations.** `NewGCM`, `Seal`, `Open`.
- **Hard.** Tokens differ in what they do with an IV they are given, and without one; `Seal` panics
  if a token does not what the `Config` says, with the message already encrypted.
- **Correct when** no two messages that `Seal` returned have an IV in common, and `Open` opens them.

### RSA signatures: `rsa.go`

No state. **Hard** is the length of a PSS salt: it depends on the modulus' length in bits, on the
hash and on two numbers that mean something else; and a key may have no public half to tell the
first. **Correct when** the longest salt is the longest that fits, any other is as long as it was asked
for, an explicit one that is known not to fit is refused, nothing is refused without one of the causes
that `Refusable` lists, and a faulty signature that can be checked is not returned.

### Single calls and data conversions: `rand.go`, `common.go`, `mlkem_kdf.go`, the rest of `rsa.go`, `ecdsa.go`, `dsa.go`, `ed25519.go`

One `withSession` each, around a conversion of data. Their concurrency is that of `withSession`.

### How they interact

Every operation goes `getSession` → `pool.Get` → calls to the token → `putSession` → `pool.Put`;
the pool calls back into the Context (`resourcePoolFactoryFunc`) to open sessions and into the
session (`pkcs11Session.Close`) to close them. `Close` goes the other way: lock, pool, persistent
session, library. Contexts meet in `moduleReferences` and on the token.

## 2. Modules

| Module | Models | Composed of |
| --- | --- | --- |
| `SessionPool` | what a pool promises its callers (abstract specification) | |
| `ResourcePool` | the pool and its timer, step by step | `SessionPool` (refined), `Counting` |
| `ContextSessions` | `getSession` … `putSession` and `Context.Close` | `SessionPool` (instantiated) |
| `TokenContexts` | libraries, logins, `Configure` | |
| `MultiPart` | HMACs and block modes | |
| `KeyPairs` | enumeration, pairing, generation and deletion of keys | |
| `Certificates` | search, chains, pairing, import and deletion of certificates | |
| `SecretKeys` | generation of secret keys, attribute sets, GCM | |
| `RSASignatures` | salt lengths and checks of RSA signatures | |
| `Counting` | sums over processes, for `ResourcePool` | |
| `*Proofs` | the theorems about each of them; `KeyOperationsProofs` is about `SecretKeys` and `RSASignatures` | |
| `MC*` | instances for TLC | |

`ResourcePool` implements `SessionPool`, and `ContextSessions` uses `SessionPool` where the code
uses the pool: that is how the two are composed, and `Refines` is what makes it legitimate.

### ResourcePool

A goroutine has a program counter, and a step is one channel operation, one atomic update or one
call of the factory or of `Resource.Close`. `wrapper[p]` is what goroutine `p` has in its hand,
`held[p]` the empty wrappers `takeIdle` has passed over, `left[k]` the iterations left of a loop of
`SetCapacity` or of the housekeeper. `Get` is `StartGet`, `Expire`/`Refuse`/`Fetch`, `Scan`,
`ScanEnds`, `Restore`, `Open`/`OpenFails`/`Refund`, `CountOpened`, `CountTaken`, `CountInUse`; `Put`
is `Discard`, `Reopen`/`ReopenFails`, `Put`, `CountReturned`, `CountAvailable`; the timer is `Tick`
and its goroutine `Sweep`, `CloseIdle`, `GiveBack`, `SweepEnds`; `Close` is `CallClose`, `StopTimer`
and then `SetCapacity(0)`: `CallSetCapacity`, `Unchanged`/`Swap`, `Shrink`, `Retire`, `CountRetired`,
`CountShrunk`, `CloseChannel`, or `Grow`, `CountGrown`. A panic is the variable `fault`, after which
nothing moves.

Left out: prefilling and the semaphore (`Configure` passes 0), `SetIdleTimeout`, `Trigger` and
`SetInterval` (nothing calls them), and the cumulative statistics, which nothing reads back. Any
session may be idle for too long at any time: `timeUsed` is not kept.

### SessionPool

Its state is the session each client has claimed, the sessions open on the token and whether the
pool is shut. The refinement mapping takes `wrapper` for the claims, `open` for `open` and `closed`
for `shut`. That a client's session is closed only by its owner, that the pool never has more than
`MaxCap` sessions and that it shuts with none open are what the refinement says.

### ContextSessions

An operation is a `withSession`, or the life of an HMAC or block mode from `getSession` to
`putSession`. `readers` and `writer` are `c.ops`, with the rule of `sync.RWMutex` that a writer which
waits admits no reader. `EnterOnce` and `SkipOnce` are `closeOnce.Do`. The steps of `Close` are those
of the code, with `pool.Close` as the pool's promise allows: sessions that are back are closed, and
the pool is shut after the last. `MayNest` says whether a goroutine may start an operation while it
keeps a session for an object.

### TokenContexts

One member of `Contexts` is one call of `Configure` and the life of what it returns. `openModule`
and `moduleCtx.Close` are one step each, as they hold `moduleReferencesMutex`; every other call to
the token is a step, and each may fail. `refCount` and `refCtx` are the entries of
`moduleReferences`, `initialized` what is true of the library. The two are kept apart: the key of an
entry is `filepath.Abs` of the path (`Key`), which looks at the text of the path only, and the
library is what is found there (`Lib`), through links of any kind. So a Context whose path is a link
to a library that another has loaded misses the entry, and its `C_Initialize` is refused, as in the
code; `LibraryHeld` still holds, and `NotRefused` says no more than that the same absolute path is
never the cause. `Abs` is one function, so the working directory does not change meanwhile. A token
logs the process out with its last session. Not modelled: a token that is reset and forgets the
login by itself (the code never logs in again), and the checks of the `Config` that return before
anything is acquired.

### MultiPart

Every method is one step, as an object is used by one goroutine and its session by nobody else;
`Reset` is two, as it gives its session back before it asks for another. `active` is the object
whose operation a session has in progress, `fed` what C_SignUpdate was given, `stuck` the sessions
with a failed operation that the token did not end: C_*Init fails on these with
`CKR_OPERATION_ACTIVE`, for which `putSession` replaces the session. `written` is a history variable:
what the user of an HMAC has written since it was made or Reset.

### KeyPairs

The token is a set `live` of objects whose attributes, `Data`, do not change; other sessions create
and destroy the `Foreign` ones at any time. A finder is one call of an enumeration, and its step one
search of the token, or one object read: `List` is `findKeysWithAttributes`; then for each handle
`Describe` (the id and label that `getKeyPair` reads), `FindPrimary` and `FindSecondary`
(`findPublicKeyHandles`, with its fallback for tokens that refuse an empty label, and the search by
id), `NewVerifier`, `FindCertificates`, `Choose` (`exportPublicKey` of the candidates and
`selectPublicHalf`) and `Build` (`makeKeyPair`, which reads the public key object once more). For
`FindAllPairedCertificates` the walk of `findIssuerChain` follows, as far as it can end the call:
`FindIssuer` is a search that returns some of the certificates there are, or the end of the walk,
and `ReadIssuers` reads what it returned, one of which may be gone or malformed; which of them
become the chain is in `Certificates`. `ChooseMLKEM` is `makeMLKEMKeyPair`, and `FindPrivateKeys`,
`FindRSAPrivateKeys` and `FindSecretKeys` are the enumerations that pair nothing. `Nameless` is the
key without id and label, on which these loops differ. `Fails` is a call the token fails, `Vanished`
a handle that is no longer one.

`Check`, `FirstWith` and `SelectPublicHalf` are `pairVerifier.check` and `selectPublicHalf` on sets:
the code takes the first candidate in the order in which the token lists them, the model any of
those that may be first. `Key(o)` is the key pair an object is a half of, which no code can see;
`Evidence(o)` says what a private key lets be checked. A test signature or encapsulation (`"probe"`)
may at any time tell nothing.

A maker generates a key pair, and destroys it again if its public half cannot be read (`Export`,
`DestroyKeyPair`), or takes one that was found (`Adopt`), and calls Delete (`DeletePrivate`,
`DeletePublic`), where each call of C_DestroyObject may fail. History variables: `steady`, what has
been on the token since an enumeration started; `disturbed`, whether an object was destroyed since;
`failed`, whether the token has failed a call of it or not told what it could.

Left out: handles are not reused; enumerations are not told apart by attributes other than id,
label, class and type. What is done with certificates but to find and to read them is in
`Certificates`.

### Certificates

A certificate (`Certs`) has a subject, an issuer and two key identifiers (`Fields`), and `Signs`
says whose key has signed whose certificate, which none of these four need tell; an object is a
certificate, a private or a public key (`Class`), and a certificate object has a certificate for its
value and attributes of its own (`Data`), which need not be those of the certificate. A caller runs
one operation: `FindRawCertificate` and `ReadLeaf` are `findCertificate`, which asks for one object,
of any certificate type; `FindAllCertificates` and `ReadCertificate` are `findX509Certificates`, a
search and then its handles one by one. `Hop` is the loop of `findIssuerChain`, `FindIssuer`,
`ScanAll` and `FindAuthority` are `findIssuer` with its two searches, the second of which is read
once in a walk (`all`, `scanned`); `SelectIssuer` is `selectIssuer` as a set, for the code takes the
first in the token's order. `FindPrivateKeys`, `MakeKeyPair` and `ReadPair` are the loop of
`FindAllPairedCertificates`, over the private keys that are on the token: which public half and
certificate `makeKeyPair` chooses is `KeyPairs`' subject, here it skips a key or gives it some X.509
certificate with its id. All its errors are here: those of the token, a private key that is gone or
has neither id nor label (`Nameless`), and what it has chosen being gone when it reads that again.
`ImportCertificate` and `DeleteCertificate` change the token, as `Others` do at any time. `Errors`
is every return of an error, with which nothing else is returned; `Fails` one of the token's.
History variables: `steady`, what has been on the token since the call; `disturbed`, whether
anything was destroyed since; `failed`. Labels and serial numbers are left out, as they act like
ids; only that a private key has neither an id nor a label is told.

### SecretKeys

One secret key, from `Generate` (`AddIfNotPresent` of the defaults) over the loop of
`GenerateSecretKeyWithAttributes` (`Unavailable` skips a pair, `Try` and `TryWithout` are its two
calls of C_GenerateKey, `Passes` what an error leads to) to `NewGCM`, `Seal` and `Open`. The template
is the caller's map, so a call that failed leaves it changed for the next. An attribute that other
attributes behave like stands for them. A token's treatment of IVs (`token`) and the `Config` are
settled in the initial state. An IV is a length and a number; what it encrypts is not represented.
`Nonces` is what callers pass: the interface forbids them to use one twice, unless the IV is the
token's, when the slice is only a buffer. Wherever `Seal` panics it may also panic because the token
fails, which is its second disjunct.

### RSASignatures

One call of `Sign`: `SignPSS` with `PSSSaltLength` and `MaxPSSSaltLength`, or `SignPKCS1v15`; then
`TokenSigns`, which may err, and `CheckRSASignature`. The definition of what fits (`Fits`) is that
of RFC 8017 in bits, not the code's division. What is refused is not quite what `crypto/rsa`
refuses: a hash for which `hashToPKCS11` lists no mechanism (`Unsupported`) is refused, SHA3-256
among them, which `crypto/rsa` would sign with; and a salt is left to the token where the public
half of the key is missing, where not even an empty one fits, and where it is of the hash's length
(`AsAsked`). Lengths are those an `int` can have; an overflow would take a modulus of 2^31 bits.

## 3. Runs

| Run | Instance | States | Shows |
| --- | --- | --- | --- |
| `pool` | 2 clients, 1 closer, capacity 1 to 3, 4 handles | 31 thousand | the pool as crypto11 uses it: entries and sessions neither lost nor shared, `Get` returns, `SessionPool` is refined |
| `pool_resize` | 2 clients, one goroutine that resizes and closes, idle timer | 67 thousand | with one resizer nothing panics, the counters come right, every resize and `Close` ends |
| `pool_full` | 2 clients, 2 resizers | | *violation*: a correct `Put` panics |
| `pool_close_shrink` | 2 clients, 1 resizer, 1 closer | | *violation*: `Close` does not wait for a session |
| `pool_stats` | 2 clients, capacity 1 | | *violation*: a counter is read as -1 |
| `context` | 3 operations, 2 sessions, 2 closers | 32 thousand | teardown after the operations, once, completely; everybody returns |
| `context_nested` | a goroutine with two operations, 1 closer | | *violation*: `Close` and an operation wait for each other |
| `configure` | 5 Contexts, 2 libraries (3 paths, one of them a link; 4 spellings), 3 tokens | 190 thousand | nobody loses library, login or session to another |
| `multipart` | 2 HMACs, 1 block mode, 2 sessions | 77 thousand | sessions go back once and clean; `Sum` is right |
| `keypairs` | 14 objects, 1 enumeration of any kind, 1 key pair made or adopted and deleted, 2 objects of others | 238 thousand | the right public half, no key left out, no error without a cause, nothing left behind |
| `keypairs_nameless` | the same with other starts | | *violation*: a key without id and label hides all others |
| `token_objects` | 10 certificate and 4 key objects, 1 caller, 3 objects of others; 4 ciphers, 3 templates, all IV modes; 9 moduli, 11 salt lengths | 476 thousand | chains are sound and complete, errors have a cause, searches end; the key that was asked for, fresh IVs, the right salt |

**Bounds.** Two clients and one entry make a client wait; capacity 3 with two clients makes
`takeIdle` pass over more than one empty wrapper while another client sees the channel short; four
handles, one more than the entries, let a replacement get a fresh handle. Capacity 2 with targets 1
and 2 makes `SetCapacity` shrink, grow and do nothing. In `context` three operations compete for two
sessions and two closers for the teardown. In `configure` three Contexts share a library and its
absolute path, which one of them spells differently; a fourth comes to that library by a link, a
fifth shares nothing; and the tokens are shared by the first two and by the next two. What one does
to another, or to a third while two hold, fits in. In `multipart` three objects share two sessions,
so one has to wait, and two writes between Resets are enough for the first and a later one.
`MaxUpdates` bounds the writes; nothing else is bounded but by the size of the sets. The objects of
`keypairs` are three private keys, one for each way there is to know its public half (by an
attribute, not at all, by ML-KEM's attribute), each with that half and with an alien public key that
has its id or its label; a certificate, and one that does not parse; a private key without a name; a
secret key, and one of a type that the package does not know. The four starts put them together so
that every tier of candidates is empty, right, wrong or ambiguous in some state, and that the walk
from a certificate meets nothing, good certificates or the malformed one. One finder is enough as
finders share nothing but the token, and what another one or another process does to that, the
foreign objects and the maker do. The theorems about `KeyPairs` do not depend on any of this.

`token_objects` is one run for three modules that share no variable: a behaviour is of one of them
and leaves the others' variables alone, so its states are those of the three added up. Its
certificates are a leaf with key identifiers and one without, two generations of one authority (same
key, same name), a decoy that has their name and key identifier and has signed nothing of theirs,
and a root with a certificate that the authority has issued for it, so that there is a circle; an
object with a wrong subject attribute, one that does not parse and one of another type complete
them. The keys are a key pair with the leaf's id, whose private half others may destroy, a private
key with the authority's id, and one without id and label. The five starts make each search of
`findIssuer` find nothing, only decoys, or several issuers. `MaxDepth` is 4, less than the longest
chain these could make if one could be placed twice. The ciphers are three of the package's and one
of a caller's own, as only such a one has a generic mechanism before another and encrypts with it;
`MaxIVs` allows three messages, of which the second can be given what is left of the first's nonce.
The moduli lie on both sides of a multiple of eight bits, of the shortest that carries an empty
salt, and of the 1024 bits that are checked.

**Deadlock** is checked except where the system may really stop: in `configure`, `multipart`,
`keypairs` and `token_objects` every Context, object, enumeration, key or signature is used up in
the end; in `context_nested` the deadlock is the finding.

**Fairness.** In `ResourcePool` the scheduler runs every goroutine that can run, and each `Get` is
followed by its `Put`. Fairness is strong because the goroutines that wait on a Go channel are
served in the order they came, before any that comes later, so one that is enabled again and again
gets its turn; and because the `select` of the timer's goroutine chooses at random among what is
ready. In `ContextSessions` it is strong for operations, for the same reason (the pool serves them),
and weak for closers, as nothing a closer waits for is taken away again: readers are shut out once
it waits. No fairness makes anybody call `Get`, `SetCapacity` or `Close`, or a timer fire.
In `Certificates` it is weak for the steps of each caller: nothing a caller waits for is another's to
give, so a call that is not over can always go on, and the token answers. It makes nobody call.
`CallReturns` so says that a walk ends of itself. The other modules state safety only.

**Findings.** Two `SetCapacity` calls that overlap, and a `Close` that overlaps a `SetCapacity`,
break the pool; crypto11 itself never calls `SetCapacity` but through `Close`, so `pool` has neither.
The counters are exact between operations (`CountersAgree`) but not in a snapshot. And a goroutine
that starts an operation while it has an HMAC or a block mode in progress can deadlock with `Close`.
One private key with neither id nor label makes every enumeration of key pairs fail, although the
comments say that such keys are skipped: `getKeyPair` (`keys.go:103`) returns another error than the
`errNoCkaID` its callers skip. `NotHidden` and `ErrorExplained`, which hold, list what can make a call
fail but the token and objects that are destroyed under it: that one case, and a malformed certificate
where certificates are read. The latter is no finding: `certificates.go:338-340` says so of
`findX509Certificates`, though `FindAllPairedCertificates`, whose walk uses it, does not.
`PROJECT.json` quotes what the comments say in each case.

Three comments are less exact than the code, which does nothing wrong:
- `certificates.go:150` says that a short chain means that the issuer is absent or that nothing on the
  token signed the last certificate. It may also be that the issuer is there under another subject
  attribute and the certificate has no authority key identifier, that the issuer has been placed
  already, or that the chain has `maxChainDepth` certificates. `Exhausted` has the exact statement.
- `rsa.go:593` says that a salt longer than the modulus can carry is rejected. If the modulus cannot
  carry even an empty salt, `maxPSSSaltLength` returns an error, and an explicit length is passed to
  the token; the length of the hash is passed in any case. `AsAsked` says so.
- Of two certificates of the same authority, the one that the token lists first is taken.

## 4. Proofs

For every number of goroutines, sessions, entries, Contexts, objects; constants as the `ASSUME`s of
each module say, and no more but where a theorem below says so.

- **`ResourcePoolProofs`**: all safety properties of the pool, and that it implements
  `SessionPool`. First `TypeCorrect`, `Typing` and `EntriesConserved`, which is
  `Spec => []Conservation`. `Conservation` equates the length of the channel, plus what is on loan,
  plus what `SetCapacity` still has to add, with the capacity plus what it still has to take out.
  It is not inductive by itself. The invariant is `Balanced`: `Typed` (types, and that a loop is
  entered only with something left to do), `Rested` (a goroutine outside these loops has nothing
  left or held), and `Conservation`. Each step moves an entry from one term to another, or changes
  the capacity by what it adds to or takes from `left`. The sums are `Counting`'s `Total`, a
  cardinality and no recursion, and `CountingProofs` has the lemma that changing one summand
  changes the sum by the difference (`TotalChange`). It holds with any number of concurrent
  `SetCapacity` calls: what they break is who gets which entry, not how many there are.
  `SessionsExclusive` (`NoPanic => Exclusive`) holds with them too. Its invariant, `Placed`, adds
  `Hands`: where each goroutine has no session in hand, which are the places where the code overwrites
  its wrapper. `Parts` is `Exclusive` in five parts, and there is one lemma per kind of move: taken from
  the channel, put there, opened, closed (`TakenOnce`, `PutOnce`, `EmptyPut`, `OpenedOnce`,
  `ClosedOnce`). A `Put` that panics drops its session, hence the condition.
  `CountersRight` (`CountersAgree`) has no condition at all: overlapping `SetCapacity` calls do not make
  the counters drift, nor does a panic. Its invariant, `Counted`, says what each counter is between any
  two updates. In `AvailableRight`, `available` and one for each client that
  has an entry counted out (`Taking`) make up the capacity, but for what `SetCapacity` has still to add or
  remove; `InUseRight` says which clients
  `inUse` counts (`Using`); `ActiveRight` corrects `active` by the sessions that are open and not counted
  yet (`Opened`), those being replaced (`Replacing`) and those closed but still counted (`Retired`).
  The rest assumes `Single`: either `Resizers = {}`, which is how crypto11 uses the pool (`SetCapacity`
  is called by `Close` alone, by any number of closers), or one goroutine calls both, and never asks for
  a capacity of zero while an idle timer may run, which is the instance of `pool_resize`. Neither half
  can be dropped. Without the first, two shrinkers meet: the runs `pool_full` and `pool_close_shrink`. As
  for the second, `SetCapacity(0)` closes the channel without stopping the timer, whose goroutine may
  have an entry to give back and then sends on the closed channel; TLC finds this with
  `Targets = {0}` in place of those of `pool_resize`. (The comment at `resource_pool.go:318`, "A
  SetCapacity of 0 is equivalent to closing the ResourcePool", leaves that out; `Close` does stop the
  timer, and nothing else in crypto11 calls `SetCapacity`.)
  `Sound` adds to `Balanced` and `Placed` that one shrinker at most is past its compare-and-swap, and the
  timer stopped if it asks for zero (`Orderly`); that capacity and what is still to be taken out
  never exceed the channel's size (`Bounded`, `Spare`); and that a closed pool is empty for good
  (`Emptied`). By conservation a goroutine that owes an entry finds room for it, `NeverPanics`; a closer
  with nothing left to take out has all of them, `CloseLeavesNothing`. Counting the sessions in the
  channel and in hands gives `OpenWithinCapacity`, and that whoever is about to open one finds less than
  `MaxCap` (`OpenRoom`), which is the guard of `SessionPool`; `PoolImplementsPromise` has a lemma for
  each kind of process.
  `OpensTrackConcurrency`: a client opens a session only when it has found the channel empty, at which
  moment every session is in somebody's hand. That is no invariant any more by the time it opens it,
  as others put theirs back meanwhile; the invariant `Tracks` therefore counts the open sessions
  (`Visible`: all but the one a shrinker has in hand) together with whoever has decided to open one
  (`Opening`), and bounds the two by the number of clients and the timer (`Users`).
- **`ContextSessionsProofs`**: the inductive invariant `IInv` says who has the lock by the program
  counters (an operation between `RLock` and `RUnlock` is a reader, so no closer is past `Lock`),
  that a session is claimed exactly in that part of an operation, that one closer at most is inside
  `closeOnce`, and how far it has come. `SessionsOutlived`, `NothingCheckedOut`, `PoisonedReplaced`
  and `TornDownOnce` follow; so do `NoneAfterClose` (once `closed` is set no operation has a session
  or is about to ask for one) and `LibraryDroppedLast`. `PoolUsedAsPromised` is `Spec => Pool!Spec`:
  a Context does to its pool only what `SessionPool` allows. What that amounts to is proved of
  `SessionPool` alone (`PoolKept`, by `InitKept` and `NextKept`) and carried over:
  `SessionsWithinLimit` and `ShutForGood`. With `PoolImplementsPromise` the two modules meet at
  `SessionPool` from both sides.
- **`TokenContextsProofs`**: `References` counts the users of a key, `refCount = |Users|`, and says
  that all holders of a library use one key (`OneKey`), as any other was refused, and that its entry
  has the `*pkcs11.Ctx` the library was initialised with; then `LibraryHeld`, `NoDrift` and
  `NotRefused`. Nothing is assumed of `Abs` or of the links. `Sessions` says which Contexts have
  which sessions, and that a token with a Context ready on it is logged in, because that Context's
  own persistent session is open.
- **`MultiPartProofs`**: `Ownership` (each session in one place, no session before an operation
  starts, a stuck operation is one in progress) gives `HeldOnce` and `CleanSessions`; `Accounts`
  (while an HMAC has a session the token was given what was written, and nothing before the first
  update) gives `Authentic`.
- **`KeyPairsProofs`**: all six properties of `keypairs`. For a step there are two cases: it is the
  finder's own (`FindCases`; where a pair is settled, `Concludes` or `Advances`), or it leaves the
  finder's variables alone and only shrinks what was there all the time (`Around`). The invariants
  build on each other: `Typed`; `Known`, what is listed is of the class that was searched for, and is on the
  token unless something was destroyed; `Excused`, an error has a cause (`NotHidden`); `Paired`, a
  key that tells its public half has been verified and what was chosen is of that key (`Genuine`);
  `OwnFirst`, a public half that was there all the time is in the first tier, where it wins or
  disagrees with what else is there (`NeverReplaced`); `Thorough`, what is to be returned is still
  to be looked at or has been found (`Complete`); `Handled`, a maker that has not reported an error
  has destroyed what it passed (`NothingLeft`, `DeletesOwn`). The token is assumed to find every
  object that matches a search, and not to give a handle to a second object.

- **`CertificatesProofs`**: `OnlySoundChains`, `NothingIsMissed`, `ErrorsExplained` and the types,
  for any certificates, names, objects, searches and callers. The invariant is `Inv`: `TypeOK`, and
  for each caller `CallerInv`, which says what a point of the code has established. `Walk`: a walk
  has a chain that may still grow, whose last certificate another has issued. `Handles`: a handle to
  be read is still good, or something was destroyed. `Searched`, the strengthening `NothingMissed`
  needs: an object that was there throughout and matches the search is still to be read, or its
  certificate was read; past the first search of `findIssuer`, whoever has the right subject
  attribute and has signed is placed already; and the certificates read once for a walk contain all
  that were there throughout, because `steady` only shrinks while they are kept. A step of somebody
  else leaves a caller's variables alone and only shrinks `steady` (`Same`, `Aged`), which
  `CallerInv` survives (`Elsewhere`). `Keyed` is kept apart, as it is about no search: a private key
  still to be looked at is on the token, or something was destroyed; it excuses the errors of
  `MakeKeyPair`. Assumed are the types of the constants (`CertificateAssumption`), and that a search
  returns exactly the objects that match.
- **`KeyOperationsProofs`**: `GeneratedAsTold`, for any ciphers with parameters and any templates;
  `NoIVTwice`, from an invariant that IVs made so far have numbers up to `ivs` and those returned
  are one per message; `SealedOpens`, from what is recorded of each message; `Signed`, by
  arithmetic: the code's division by eight yields the longest salt that fits in bits, for every
  modulus that is known; what is refused is refused for a cause in `Refusable`, which includes
  hashes that the package does not list.

**Only model-checked**: liveness (`GetReturns`, `ResizeReturns`, `CloseReturns`, `CallReturns`),
which the prover does not do. Every invariant and every action property of the passing runs is a
theorem.

## 5. Plan

In this order:

1. `ResourcePool`, `SessionPool`, `ContextSessions`, `TokenContexts`, `MultiPart` with their proofs:
   done, as above.
2. `KeyPairs` with its proofs: done.
3. `Certificates` (chains, import, deletion) with its proofs: done.
4. `SecretKeys` (generation and GCM) and `RSASignatures`, with their proofs: done.
5. Proofs of all safety properties of the pool, with `CountersAgree` and `OpenTracksConcurrency`, under
   `Single` where they need it; `ContextSessions` as a user of `SessionPool`: done.
6. Not worth a module of their own so far: the encodings of `mlkem_kdf.go`, which standard vectors
   test better.

## 6. Not modelled, and why

The cryptography and the encodings of keys and signatures (data of the token and of Go's standard
library); random numbers (`rand.go`: one `withSession` per call); `semaphore.go`, prefilling,
`SetIdleTimeout` (unused); `ConfigureFromFile` (reads a file); token resets (the code has no answer
to one); the reuse of object and session handles by a token, which the PKCS #11 standard leaves
open.

Hazards of the code that no model reaches: an operation that panics inside `withSession`
(`sessions.go:36`) gives a session in an unknown state back to the pool; `putSession` closes a handle
the token has invalidated (`sessions.go:49`), which by then may be another session's; an HMAC has no
finaliser (`hmac.go:171`), so one that is dropped before `Sum` keeps its session and the reader lock,
and `Close` waits for ever: all three depend on what is outside the code, a panic of the caller's, the
token's choice of handles, a user who breaks the documented protocol.

# A TLA+ model of the Cachee daemon and its commands

Cachee is a caching daemon with a Redis-like protocol that adds computation
fingerprints, a lifecycle per entry, post-quantum signed bundles and a
tamper-evident audit log, with a command-line tool around it. This directory
models the parts that keep state or decide something, checks them with TLC on
small instances and proves the most important properties with TLAPS for every
instance.

Paths below are relative to the crate's `src/` directory, unless they start with
`src/`.

## 1. Inventory

| component | source | state | operations | who calls it |
|---|---|---|---|---|
| connections | `daemon.rs` 459-617, `resp.rs`, `data.rs` | per connection: `authenticated`, key, hash | AUTH, PING, quota check, re-validation, permission check | one tokio task per client |
| command handlers | `daemon.rs` 656-1242 | slot registry (RwLock), engine, content store, audit log (Mutex) | SET, GET, GETVERIFIED, DEL, INVALIDATE, SUPERSEDE, STATE, INFO, AUDIT* | the command loop |
| cache slot | `cache_slot.rs` | value, fingerprint, lifecycle state, address | `new`, `transition`, `parse_fingerprint` | the handlers |
| content store | `content_store.rs` | sled tree of bundles, bundle count | `put`, `get`, `addresses`, `export_all` | SET, GETVERIFIED, cold start, `export` |
| audit log | `audit.rs` | sled tree, head hash, next sequence, Merkle leaves, last anchor | `open`, `append`, `verify_chain`, `compute_merkle_anchor`, `check_nonce` | the handlers, daemon start |
| quota | `daemon.rs` 74-172, 507-548 | map of atomic counters behind an RwLock | charge, take back; flusher: swap, post, add back | command loop, flusher thread |
| API keys | `security.rs`, `daemon.rs` 174-252 | one file per key, the registry | create, revoke; load and swap | CLI processes, reloader thread |
| bundles | `archive.rs`, `crypto.rs`, `federation.rs`, `bin/verify.rs` | files of an export | (de)serialize, `verify`, acceptance, `cachee-verify` | content store, CLI |
| policies | `trust.rs`, `cache_slot.rs` | none | `is_mode_change_allowed`; `detect_conflict`, not modelled | nobody |
| start and stop | `daemon.rs` 264-460, 1244-1380, `diagnostics.rs` | pid file, port, store locks | start, stop, doctor, export | CLI |
| installation | `config.rs`, `pq_keys.rs`, `attest.rs`, `signup.rs`, `plan.rs`, `security.rs` | config.toml, key files, credentials, identity | init, attest, signup, verify, logout, plan, tls, rotate-keys | CLI, daemon start |
| engine | external crate `cachee-core` | key to value | set, get, delete, evict | the handlers |

What is hard here:

* **Interleaving.** Handlers of different connections touch four stores in
  separate critical sections (SET has four). The quota check is a fetch_add
  that a rejection takes back with a separate fetch_sub, beside a flusher that
  swaps the same counter to zero. The key reloader reads a directory that CLI
  processes change. Commands read, change and rewrite one configuration file.
* **Failures.** A sled flush may fail after its insert succeeded; almost every
  caller ignores the error of `append`. Posts of usage may fail or time out.
  The daemon, an export or any other command may be killed anywhere, a file
  half written; only what reached the disk remains.
* **Staleness.** A connection keeps the key entry AUTH gave it; SET reads its
  slot again after releasing the lock; GETVERIFIED reads the value before the
  slot; a pid file outlives its process, whose pid may be used again.
* **Waiting.** The flusher keeps the read lock of the counters through its
  posts; INVALIDATE and SUPERSEDE keep the registry's write lock through a
  flush of the audit log.

What makes each component correct: the audit log verifies, keeps what it
acknowledged and anchors every entry; the quota admits exactly the limit and
loses no op; a revoked key stops working and no other key does; the stores a
handler writes agree with each other, the log records what happened, and
every command is answered; a client is told what was done; a bundle is read
back as it was written, and a cut one is not taken for more than it is; stop
ends the daemon and nothing else; no setting comes into the configuration that
nobody asked for. `PROJECT.json` lists the hazards, line by line, with the
properties that cover them.

## 2. Modules

| module | models | proofs |
|---|---|---|
| `AuditLog` | `audit.rs` | `AuditLogProofs` |
| `Ledger` | what the audit log promises; `AuditLog` implements it | `AuditLogProofs` |
| `Meter` | what a quota promises; `QuotaMeter` without the flusher implements it | `QuotaMeterProofs` |
| `QuotaMeter` | quota block of the command loop, `spawn_usage_flusher` | `QuotaMeterProofs` |
| `AuthGate` | `auth create`, `auth revoke`, `load_api_keys`, reloader, AUTH and the checks | `AuthGateProofs` |
| `CacheDaemon` | the handlers over registry, engine, content store and log; cold start | `CacheDaemonProofs` |
| `Connection` | clients and command loop with authentication, quota, revocation, permissions and handlers composed | `ConnectionProofs` |
| `BundleFormat` | wire format of a bundle | |
| `BundleVerification` | `verify`, `cachee-verify`, federation acceptance, the mode-change policy | `BundleVerificationProofs` |
| `BundleExport` | `export` and `cachee-verify --dir`, composing the two above | |
| `DaemonControl` | start, stop, doctor and export over pid file, port and locks | `DaemonControlProofs` |
| `Installation` | the commands that write the files of an installation, and what start reads of them | `InstallationProofs` |

Each state machine has an `MC` module with the constants of its instances and
one `.cfg` per run. `PROJECT.json` maps each definition to its lines.
Definitions commented as *seeded faults* are not part of a specification: each
is a plausible bug that a run is known to catch when it takes the place of the
definition it varies.

### AuditLog and Ledger

The mutex makes each method one step. `db` is the tree as the process reads
it, `disk` what a kill leaves. `append` has two outcomes: `AppendOk`, and
`AppendFlushError`, where the entry is in the tree but head, sequence number
and leaves stay. (An insert that fails changes nothing.) `Open` rebuilds the
head from the last entry. sled's own flush, `BackgroundFlush`, may make a
pending entry durable at any time. A hash is modelled by what it is computed
from; `merkle_root` is the pairing loop, as a recursive function.

`Ledger` is the promise: a sequence of linked entries to which entries are only
added, one at a time, confirmed or not. `AuditLog` maps `disk` to the ledger
and its acknowledged entries to the confirmed ones; failed flushes, kills and
recoveries are stutters or additions.

### QuotaMeter and Meter

Each atomic operation and lock acquisition is a step. The flusher is the only
reader of the map that keeps its lock across steps; a waiting writer holds new
readers back, which is how std's lock behaves on Linux. The counter wraps at
`Width`, 2^64 in the code. `metering` is chosen once, at start: the flusher
runs if the credentials name an API key. `PostFailed` stands for a refusal, a
lost request and a lost answer alike: the program cannot tell them apart.

`Meter` is the promise: a command is let through and counted, or turned away
because the quota is used up, in one step. Its `used` is the counter without the
charges about to be taken back; a command is undecided up to its `fetch_add`.

### AuthGate

Key files go from absent through partial (created, not yet written) to present
and removed. A load lists the directory, reads the files one by one and swaps
the registry; CLI processes run between those steps. The credentials file that
the load reads last is one more key file. `missed` and `outdated` remember
which keys were already removed when a load began, and `load` whether it could
read everything; they exist for the properties only.

### CacheDaemon

A connection's `pc` names the next critical section of its handler. A section
that takes and releases a lock is one step. A lock held while another is
awaited is a variable: `readers` for SET, which keeps the registry's read lock
while it appends to the log, and `writer` for INVALIDATE and SUPERSEDE. The
audit mutex is taken last and never held while waiting for another lock, so
locking, appending and unlocking is one step. The log is a sequence of events
here; how it is stored is AuditLog's subject, and the event may be lost
(`AuditErrors`) because every caller ignores the result of `append`.

A slot has an `id`, the number of the SET that made it. It stands for
`created_at`, which two SETs are assumed not to share (nanoseconds). The two
addresses of an artifact are kept apart, as in the code: a slot's hashes value
and fingerprint, a bundle's hashes primitive, content hash and fingerprint.
Of the signature check, `Verification` keeps whether the bundle was signed.

`put` covers insert, flush and count; a failed flush leaves the bundle in
`unsynced`, and `Restart` may lose any of those. A kill between insert and
flush has the same outcomes as a kill just before or just after the step.
`overlapped` remembers whether two commands were ever under way together.
Cold start makes an Active slot without a value of every bundle, under a key
of its own. The engine is external: a map from which `Evict` may drop a key.

### Connection

Both ends of a connection, for the questions that none of the modules above can
ask alone: is what the client prints what the daemon did, and who pays for a
command that is refused. `srv[c]` is the task of the command loop, which goes
from `received` through `charge`, `undo`, `validate` and `run`; `cl[c]` is the
process that sends a request and waits for a line. An argument is a text of any
number of words, with single blanks between them or with other white space; the
command line sends it as it is, and the daemon splits the line into words, so that
`set --ttl`, a key of two words or with none, and a value with the word `FP` in it
mean on the wire what they mean in the code. Stored and printed are texts again,
joined with single blanks. `ToldTruth` claims of every SET, GET and DEL that what
is printed says whether something was done, to the key's first word; and that the
value typed is the one stored only of a SET that the daemon takes as it was typed
(`AsTyped`): a key of one word, single blanks, no `FP` and no `--ttl`. The parts other
modules take apart are one step each: a reload of the registry, a handler, an
access to the counter.

### BundleFormat, BundleVerification, BundleExport

`BundleFormat` describes a bundle as a sequence of fields, each with the kind
that says how it is written and read; `serialize` and `deserialize` follow that
one layout, with every error the parser returns. Bytes are numbers below
`Radix`, widths are constants. JSON is modelled by what serde promises: the
parser takes what was written and no proper prefix of it.

`BundleVerification` has the checks in the order and with the outcomes of
`CacheeArchiveBundle::verify`, `verify_file`, `print_result` and
`accept_remote_bundle`. The three signature algorithms are external: `Signed`
is the set of tuples they accept.

`BundleExport` writes the stored bundles byte by byte, is killed or fails at
any byte and runs again, while `cachee-verify --dir` reads the directory.

### DaemonControl

A daemon is a pid with a stage of `start` (store, audit log, pid file created,
pid file written, bind, listening); other programs take pids and ports as well,
and a pid that is free is used again. `stop`, `doctor` and `export` are
processes of their own; each look at the pid file, the process table or the
port, each signal and each removal is a step. `witness` remembers the daemon a
stop found listening when it began, `undisturbed` whether a daemon started
without another command beside it. The kernel is assumed not to give away a pid
between the look of a stop and its signal, half a second later at most.

### Installation

A command is a list of steps (`Steps`), each a file operation or a question to
the server, in the order of the code; processes run theirs interleaved and may
die at any step. `std::fs::write` is a truncation and then the contents: in two
pieces for `config.toml`, in one for other files, of which is remembered which
command wrote them (`gen`). Writing the configuration in pieces allows more than
one `write` call does, and nothing less. `start` reads configuration and keys
and decides whether the daemon signs. Public keys are written first, then secret
keys, then the metadata, over those of the init before. `KeysInOrder` says what a
daemon may sign with: as long as no init overlapped another or that start, each file
is as new as any behind it in this order, however many inits were stopped on the
way; after an init that ran alone to its end all are of that one, and whole.
`settled` and a process's `gen` remember that for the property only.

## 3. Runs

| run | instance | shows |
|---|---|---|
| `audit_log` | 5 entries, 2 events | chain, durability, anchors and tamper detection under failed flushes and kills; the log implements the ledger |
| `quota_metering` | 3 connections, 2 keys, 5 commands, counter modulo 8; with and without the flusher | without it a meter that decides in one step is implemented; with it no op is lost; commands and rounds end |
| `gate` | 2 keys (one read-only), 2 connections, read errors at any moment | revocation and permissions are enforced; loads that read everything drop no valid key; created keys come to be accepted |
| `daemon_safety` | 2 connections, 2 keys, 2 values, 3 commands | stores in step; transitions final and logged; every command answered; clients that take turns find all stores in agreement |
| `daemon_faults` | 2 connections, 1 key, 2 values, 3 commands, failed flushes and appends, evictions, 1 kill | bundles never mixed, stored bundles never lost |
| `connection` | 2 clients, a key that writes and one that reads, limits 0 and 1, 3 programs of 11, with arguments of none, one and several words, 2 reloads, 3 configurations | what is printed is what was done; every charge is accounted for |
| `bundles` | 6 bundles of slots and key sets and 3 others, alone, one pair, none; 2 runs of the exporter | what is written is read back; cut files are not taken for more than they are; the exit code says what is in the directory |
| `control` | 2 pids, 2 terminals, 2 ports, 3 births, 2 commands, 1 change of the port | stop signals the listener only, and ends it; the pid file names the daemon |
| `installation` | 2 processes, 11 commands of which 3 are run, 1 kill, 1 payment, 1 signature family; from nothing or signed up | no plan or attestation nobody authorised; keys mixed only in the order of save, of one init after one that ran to its end |

Runs that show the code departing from its own documentation (quotes under
`findings` in `PROJECT.json`):

| run | what happens |
|---|---|
| `quota_wrap` | a flush between charge and take-back wraps the counter |
| `daemon_verified` | GETVERIFIED never finds the bundle of an entry: slot and bundle are addressed by different hashes |
| `daemon_revival` | a revoked artifact is Active after a restart |

### Other departures

They were met while modelling; the models exhibit them where the part is
modelled, and no run of their own is spent on them.

Audit log:
* `audit.rs:5` promises that deletion is detectable; removing the newest entry
  leaves a chain that verifies, so `TamperDetected` speaks of entries with a
  successor.
* The hash of an entry leaves out its `issuer_id` (`audit.rs:93-110`), which can be
  changed without notice; an entry of the model has no issuer.
* `audit.rs:273` speaks of the entries "since last anchor"; `open` forgets the
  last anchor, so the first anchor after a restart starts again at 0.
  `AnchorsLeaveNoGap` is what remains true.

Keys, quota and connections:
* `daemon.rs:250` says a failed load keeps the old registry; `load_api_keys`
  skips what it cannot read and never fails, so an unreadable file revokes its
  key until the next load. `NoSpuriousRevocation` and `CreatedAccepted` say
  what holds otherwise.
* Each flush sets the counters to zero (`daemon.rs:134`) and so renews a key's
  quota (comment at `daemon.rs:76`); `MeterImplemented` holds without the flusher.
* Without `require_auth`, a failed AUTH leaves its connection unauthenticated
  and locked out (`config.rs:41`).
* `set --ttl` sends `EX` and a number, which the daemon stores as part of the
  value (`resp.rs:17`). TTL, KEYS and FLUSHALL, which the tool sends, are
  unknown to the daemon, `usage` looks for lines that INFO does not have, and
  `del` prints 0 for an error as for a key that is not there.
* Arguments are split at white space and never quoted (`resp.rs:17-21`,
  `daemon.rs:485`). `set k "a FP b"` prints OK and stores `a`, and a value that is the
  word `FP` is stored as the empty one (`daemon.rs:684-695`); `get "a b"` prints the
  value of `a`, and `del "a b"` deletes `a` and prints 1; `set "a b" c` stores `b c`
  under `a`, and `set "" "a b"` stores `b` under `a`; white space in a value
  becomes single blanks, and around it is lost. `ToldTruth` speaks of the key's
  first word, and of the value of what is taken as typed.
* A SET of a key named `FP` panics in its task (`daemon.rs:684-686`), and the
  connection ends.
* The daemon reads no RESP arrays, so it is not the drop-in Redis replacement
  of `README.md:61`, and takes what one read returns for one command.

Handlers:
* Two SETs of a key that overlap leave one's value with the other's slot, for
  good: the other half of `SerialConsistent`.
* `EntryCreated` and `EntryDeleted` are appended after the registry lock was
  released, so concurrent commands on a key can leave a history that does not
  replay to the present entry, and can store and count one bundle twice.
* DEL of a key that the engine has dropped removes its slot and logs nothing
  (`daemon.rs:809`), so that the log no longer replays to what is stored;
  `SerialConsistent` claims the replay only without evictions.
* Strict mode (`config.rs:83`) looks for the word FP only and accepts a
  malformed fingerprint.
* SUPERSEDE accepts the entry itself as its successor (`lifecycle.rs:123`).
* `detect_conflict` is "Called by the storage layer on every SET"
  (`cache_slot.rs:63`, `config.rs:130`) and has no caller.

Bundles:
* `cachee-verify` and federation take `is_valid() || two_of_three()`
  (`bin/verify.rs:150`, `federation.rs:226`), so a bundle whose hash does not
  match, or without a timestamp, is VALID; the theorem `ValidIsTwoOfThree` says
  what VALID means.
* `print_result` compares the posture in lower case with what `{:?}` spells
  otherwise, and panics on an unreadable file in text mode (`bin/verify.rs:258`).
* An empty directory, or one an export was killed over, verifies with exit 0.
* The digest of a fingerprint concatenates strings without their lengths;
  `ContentStore::get` does not check the address of what it finds; a `Custom`
  type with the code of a named one is read back as that.

Commands:
* A daemon that listens on another port than the configuration names by now
  cannot be stopped, and stop removes its pid file; a stop while a daemon starts
  removes the new pid file. `PidFileNamesListener` and `StopKillsListener` say
  what holds otherwise.
* A second start fails at the lock of the content store before it would find
  the first one's port taken; `doctor` finds the stores locked, and so reports
  an issue, whenever a daemon runs.
* `rotate-keys` prints "PQ keypair rotated" and replaces `identity.toml` only.
* `init` resets a paid plan; `attest enable` writes the configuration before it
  looks for the identity it needs.
* `PqKeySet::exists` and `load` compare nothing (`pq_keys.rs:160-215`): after a killed
  init the daemon signs with files of several inits, a cut one among them, and after
  two inits, or an init and a start, at the same time with any mixture. `KeysInOrder`
  says what holds when they do not overlap. An init writes over the keys before it,
  which `pq_keys.rs:32` says are retained.
* Commands that change the configuration at the same time lose each other's change,
  since each writes back all of what it read (`attest.rs:6`).
* `plan sync` takes a successful answer without a plan, or one it cannot parse, for
  the plan "free" (`plan.rs:223-225`).
* A configuration cut behind its `[plan]` section loads, with the verification
  policy at its default.

### Bounds

* `MaxEntries`: five entries hold two anchors with entries on either side of a
  failed flush and a restart, and every odd and even number of leaves up to four.
* `MaxCommands` in QuotaMeter: with five commands a limit of two is reached,
  exceeded by both connections of the key at once, and the other key is exceeded
  as well. `Width` 8 is small enough to wrap and more than all commands together.
* `MaxCommands` in CacheDaemon: a race of two commands after one that prepares
  the key needs three; a second transition of an entry needs SET, SUPERSEDE and
  INVALIDATE. (Four commands were checked once as well, with one value.)
  `MaxRestarts`: one kill, since a second finds what the first one left.
* `MaxPrograms` in Connection: two programs that overlap and one before or after
  them on the same counter; limit 1 is exceeded by one connection alone, and
  undone beside the other. Arguments have no word, one, two, or three with `FP` in
  the middle, and single blanks or other white space. Two reloads revoke a key and
  bring it back, or change its limit and revoke it.
* `Radix` and `Width` in BundleFormat: bytes 0..3, lengths of one digit, strings
  of up to two bytes: every length prefix can be cut in the middle where it has
  two digits, and every field is there, empty, and missing in some bundle.
  `MaxRuns`: a run that is cut and one that repairs it.
* `MaxBirths` in DaemonControl: a daemon, one that takes over or another program
  with the old pid, and one more to race. Two commands are needed for stop
  against stop or doctor; one change of the port makes a daemon unreachable.
* `MaxCommands` in Installation: two commands that overlap after one that
  prepared the files; from `SignedUp`, three that overlap. One kill suffices for
  torn files, one payment for a plan that changes in the middle of a command.
  One signature family has two key files and metadata, which is what two
  generations need.

Symmetry is used for connections, clients, processes, pids and terminals, which
no definition tells apart, and only in runs without liveness properties.
Deadlock checking is off where commands are bounded and clients run out of them;
that no handler is stuck is then `CommandsComplete` and `CommandDecided`.
`audit_log` and `gate` check for deadlock.

### Fairness

* QuotaMeter: a task in the middle of a command and a flusher in the middle of
  a round proceed; a post ends at the latest after its ten-second timeout.
* AuthGate: the reloader is an endless loop of sleep and load. Commands in
  progress proceed. `CreatedAccepted` further assumes, in its own statement,
  that again and again some load reads everything.
* CacheDaemon: a handler proceeds when the lock it needs is free. Weak
  fairness suffices because the number of commands is bounded; that a stream
  of other commands never starves a waiting handler is a matter of the lock,
  which promises nothing, and is not claimed.

No client has to send anything, and nobody has to create or revoke a key. The
other modules claim safety only, and state no fairness.

## 4. Proofs

Eight modules, each with an inductive invariant that says more than the
properties it carries. `PROJECT.json` lists the theorems.

* **AuditLogProofs.** The invariant relates tree, disk and head: both trees are
  keyed 0..n-1; at most one entry lies beyond the head, left by a failed flush
  and linked to it; the disk holds everything the head counts and is a prefix of
  the tree; acknowledged entries are below the head; an anchor in either tree
  matches the entries before it, and the anchors of the process follow on each
  other. `ChainIntact` alone is not inductive: without the link of the extra
  entry to the head, recovery could take over a head nothing links to. Besides
  the safety properties and the action property `AlwaysAppendOnly`,
  `ImplementsLedger` shows that every step is one of `Ledger` or none;
  `TamperingDetected` needs only that a hash determines number and event, since
  every entry of a reachable log links and hashes correctly. Assumption:
  `MaxEntries` is a natural number. `merkle_root` is treated as an arbitrary
  function of its leaves, so nothing is claimed about what it computes.
* **QuotaMeterProofs.** `LocalMeteringCorrect`: without a flusher `CounterExact`
  is inductive, because a pending take-back is counted by its program counter;
  the cap follows since the counter is at least the number admitted, and a
  rejection is justified because the counter reached the limit only through
  admissions. From it `ImplementsMeter`: a `fetch_add` is the step in which the
  abstract meter decides, all others are stutters, and that a refusal meets a
  quota used up is what `RejectionsJustified` says of the state after it.
  Assumptions: finitely many connections, positive limits, a counter wide enough
  for limit plus connections. `OpsAlwaysAccounted` holds with the
  flusher as well: `NoOpLost` becomes inductive with the fact that commands and
  flusher reach only counters that were created and that any other is 0, without
  which `Create` could wipe out a charge. The sums are equal modulo `Width`, so
  every step comes down to two lemmas on remainders of sums.
* **AuthGateProofs.** `RevocationCorrect` from the invariant that a load has
  read no key removed before it began, nor lists one; `ValidationCorrect`, the
  action property, from that; `ValidKeysKept` from a second one, that a load
  which has read everything so far has every key whose file was there when it
  began and still is, read or still listed.
* **CacheDaemonProofs.** Locks are held where the program counters say;
  whatever a handler carries from one critical section to the next is of a SET
  that was made; the bundles in flight, stored and durable follow. Until the
  daemon is first killed, slots have unique numbers, an artifact is ended once,
  and a transition that is not in the log yet belongs to the one handler that
  holds the write lock: from this `TerminalStaysFinal`, `SlotsArePersisted` and
  `TransitionsAreRecorded`. Afterwards the first of them is false
  (`daemon_revival`). `SerialAlwaysConsistent` follows one command at a time through its handler:
  value, slot, bundle and history of a key agree, except where the handler's
  place says which of the stores is still behind, and only the handler's own key
  can be.
* **ConnectionProofs.** A counter is the sum of one bit per connection and of
  what was served and refused; a step changes the bits of one connection by at
  most one, whichever reload came between. That a revoked key is charged late at
  most once per AUTH follows from a second sum, of the connections that hold it.
  `TypeCorrect` bounds the counter by limit plus clients; `OneAnswerEach` keeps
  both ends in step. For `AlwaysToldTruth` that is the first half; the second
  says of each answer, from the line that was written to the text that is
  printed, that it is true of what the task did of the client's own request, and
  reads what the loop parses back from the words that were sent, for keys and
  values of any number of words: `WordsOf` says where they are in the line,
  `ValueAsTyped` that SET finds there the value typed, behind a fingerprint or not.
  Assumptions: finitely many clients, limits with a greatest, and that keys and
  values are sequences of words.
* **DaemonControlProofs.** Two facts carry it: the lock of the content store
  lets one daemon past `OpenStore`, and a port has one listener. A daemon that
  was left alone while it started is named by the pid file; a stop that began
  while it listened either still has it ahead or has signalled it.
* **InstallationProofs.** The invariant follows the settings through whoever
  carries them: the text piece by piece, the configuration each process loaded,
  the plan it was told. For `KeysAlwaysInOrder` a second one follows the keys
  from the inits that write them, file by file in the order of their steps, to the
  start that reads them. The files are in order before an init, which is newer than
  any of them; at each of its steps what it has behind it is its own and whole, the
  file it is at may be cut, and what it has ahead is still in the older order, so
  that wherever it is stopped they are in order again. Nobody else writes these
  files, and a start that no init overlapped reads them as they are.
* **BundleVerificationProofs.** First lemmas about operators, for every bundle
  and any `Signed`: a file is VALID exactly if it begins as a bundle and two of
  three families verify; one family that accepts anything is not enough; what
  federation accepts would be found VALID; a locked node never relaxes its mode
  by any number of changes. Then the export: each file is a beginning of the bundle
  under its name, the files the run under way has done are whole, and a check
  that nobody disturbs has found of each file what can be found of its bundle.
  `ExportsAlwaysWhole` needs nothing else. The three theorems on reading back
  take from the wire format what they name as their hypotheses, facts about each
  stored bundle by itself: `ReadsBack`, `SizeAnnounced`, and `CutReadsAnonymous`
  for bundles with bytes missing. The prover cannot give these (see below); in
  the run `bundles` every bundle is exported alone and cut at every byte, so that
  `ExportsReadBack` and `CutNeverClean` hold there only if they do. The
  assumptions on the constants say that `serialize` returns bytes, that a bundle
  has the fields of the struct, and that the default identity has the key id of
  none (`archive.rs:437`).

Only model-checked: all liveness (`CommandDecided`, `RoundEnds`,
`CommandsComplete`, `RevokedRefused`, `CreatedAccepted`), which the prover does
not handle; and the wire format, whose writers and parsers fold over fields and
byte strings, so that what they do to every bundle would need induction over
data. Every other property of a passing run is the subject of a theorem.

## 5. Not modelled

* Printing, logging and argument parsing (`main.rs`, `observability.rs`,
  `bench.rs`, the demos): no state of their own.
* `storage.rs`, `sdk.rs`, `cache_api.rs`, `read_contract.rs`: an object store
  nothing uses, and type declarations.
* `keys.rs` lists and prints key files; `tls import`, `dump` and `restore` copy
  files and keys without a decision.
* `check_nonce`, expiry and deprecation of entries, and most types of
  `federation.rs` and `trust.rs`: nothing calls or performs them.
* Signing and verification as cryptography; HTTP beyond the outcome of a
  request; a TCP read that returns less or more than one command.
* Fields of 65536 bytes and more, whose length is cut to 16 bits when a bundle
  is written: no command is that long.

## 6. What could follow

That a reader of the wire format undoes its writer, field by field, from lemmas
on the length prefixes, which would leave only the fold over the fields to TLC.
A store with atomic SET and DEL, implemented by CacheDaemon while clients take
turns; the verification section of the configuration in Installation.

---------------------------- MODULE CacheDaemon ----------------------------
(***************************************************************************)
(* The command handlers of the daemon (handle_resp in src/daemon.rs) over  *)
(* the four stores they share: the slot registry behind its RwLock, the    *)
(* in-memory engine (an external crate), the sled content store (L2) and   *)
(* the audit log behind its Mutex.  A handler is a sequence of critical    *)
(* sections; handlers of different connections interleave between them.    *)
(* A kill of the process and the cold start that follows are one action.   *)
(*                                                                         *)
(* Hashes are modelled as injective: an address is the tuple it hashes.    *)
(* An artifact carries an id, the SET that made it; it stands for          *)
(* created_at, which enters a bundle's address through its primitive.      *)
(***************************************************************************)
EXTENDS Naturals, Sequences, FiniteSets

CONSTANTS Conns,         \* connections
          Keys,          \* keys clients use
          Values,        \* values clients store
          Fps,           \* well-formed, non-zero fingerprints
          StrictMode,    \* verification.strict_fingerprint
          Signing,       \* PQ keys are loaded (pq_keys is Some)
          StoreErrors,   \* sled may fail to flush the content store
          AuditErrors,   \* the audit log may fail to append
          Evictions,     \* the engine may drop a key (capacity, TTL)
          MaxCommands,   \* bound: commands the clients send
          MaxRestarts    \* bound: kills of the process

NoFp == "empty"          \* ComputationFingerprint::empty()
EmptyValue == "vec![]"   \* the value of a slot rebuilt at cold start
FpArgs == Fps \cup {"absent", "malformed"}

ASSUME DaemonAssumption ==
    /\ {StrictMode, Signing, StoreErrors, AuditErrors, Evictions} \subseteq BOOLEAN
    /\ MaxCommands \in Nat /\ MaxRestarts \in Nat
    /\ NoFp \notin Fps /\ "absent" \notin Fps /\ "malformed" \notin Fps
    /\ EmptyValue \notin Values

VARIABLES conn,        \* per connection: the command it executes, and where it is
          slots,       \* SlotRegistry: a partial function from keys to slots
          readers,     \* connections holding the registry's read lock across steps
          writer,      \* the connections (at most one) holding its write lock
          engine,      \* CacheeEngine: a partial function from keys to values
          store,       \* the bundles in the content store
          unsynced,    \* bundles inserted, whose flush failed: a kill may lose them
          count,       \* ContentStore::count
          audit,       \* the events of the audit log, in order
          issued,      \* history: commands sent
          overlapped,  \* history: a command was sent while another was under way
          made,        \* history: every artifact a SET made
          ended,       \* history: every successful transition
          durable,     \* history: the bundles ContentStore::put reported stored
          restarts     \* history: kills

stores == <<slots, engine, store, unsynced, count, audit>>
history == <<issued, overlapped, made, ended, durable, restarts>>
vars == <<conn, stores, readers, writer, history>>

------------------------------------------------------------------------------
(* Slots, bundles and their addresses.                                       *)

Put(f, k, x) == [j \in DOMAIN f \cup {k} |-> IF j = k THEN x ELSE f[j]]
Drop(f, k) == [j \in DOMAIN f \ {k} |-> f[j]]

Active == <<"Active">>
Revoked == <<"Revoked">>
Superseded(address) == <<"Superseded", address>>

parse_fingerprint(arg) == IF arg \in Fps THEN arg ELSE NoFp

NewSlot(id, value, fp) == [id |-> id, value |-> value, fp |-> fp, state |-> Active]
has_valid_fingerprint(slot) == slot.fp # NoFp

\* The slot's address hashes value and fingerprint; the bundle's hashes the
\* primitive (timestamp included), the content hash and the fingerprint.
SlotAddress(slot) == <<"value", slot.value, slot.fp>>
BundleAddress(b) == <<"primitive", b.id, b.value, b.fp>>

slot_to_bundle(slot) ==
    [id |-> slot.id, value |-> slot.value, fp |-> slot.fp, signed |-> Signing]

\* Seeded fault (see PROJECT.json): a superseded entry may still be revoked.
TransitionLegalUnlessRevoked(slot, new) == slot.state[1] # "Revoked" /\ new[1] # "Active"

\* CacheSlot::transition: the daemon asks for Revoked or Superseded only,
\* which are legal from Active and from no other state it can reach.
TransitionLegal(slot, new) == slot.state[1] = "Active" /\ new[1] \in {"Revoked", "Superseded"}

\* What get_verified finds for a slot: the bundle at the slot's own address.
BundleFor(slot) == {b \in store : BundleAddress(b) = SlotAddress(slot)}
Verification(slot) ==
    CASE has_valid_fingerprint(slot) /\ \E b \in BundleFor(slot) : b.signed -> "FullyVerified"
      [] has_valid_fingerprint(slot) /\ \E b \in BundleFor(slot) : ~b.signed -> "VerificationFailed"
      [] OTHER -> "Unverified"

\* AuditLog::append behind `let _ =`: the event is logged, or lost on an error.
Log(event) ==
    \/ audit' = Append(audit, event)
    \/ AuditErrors /\ audit' = audit

Event(type, key, id) == [type |-> type, key |-> key, id |-> id]

------------------------------------------------------------------------------
(* Connections and locks.                                                    *)

Idle == [pc |-> "Idle"]
At(c, pc) == conn[c].pc = pc
Arg(c) == conn[c].req
Goto(c, pc) == conn' = [conn EXCEPT ![c].pc = pc]
Reply(c) == conn' = [conn EXCEPT ![c] = Idle]

CanRead == writer = {}
CanWrite == writer = {} /\ readers = {}

UsedKeys == Keys \cup DOMAIN slots

Requests ==
    [cmd : {"SET"}, key : Keys, value : Values, fp : FpArgs]
        \cup [cmd : {"GETVERIFIED", "DEL", "INVALIDATE"}, key : UsedKeys]
        \cup [cmd : {"SUPERSEDE"}, key : UsedKeys, new : UsedKeys]

\* A command arrives on an idle connection.  A SET without FP is refused in
\* strict mode before anything happens.
Receive(c) ==
    /\ At(c, "Idle")
    /\ issued < MaxCommands
    /\ \E r \in Requests :
         /\ r.cmd = "SET" => ~(StrictMode /\ r.fp = "absent")
         /\ conn' = [conn EXCEPT ![c] = [pc |-> r.cmd, req |-> r]]
    /\ issued' = issued + 1
    /\ overlapped' = (overlapped \/ \E d \in Conns : ~At(d, "Idle"))
    /\ UNCHANGED <<stores, readers, writer, made, ended, durable, restarts>>

------------------------------------------------------------------------------
(* SET key value [FP hex]: four critical sections.                           *)

InsertSlot(c) ==
    /\ At(c, "SET") /\ CanWrite
    /\ LET slot == NewSlot(Cardinality(made) + 1, Arg(c).value, parse_fingerprint(Arg(c).fp))
       IN  /\ slots' = Put(slots, Arg(c).key, slot)
           /\ made' = made \cup {slot}
    /\ Goto(c, "Persist")
    /\ UNCHANGED <<readers, writer, engine, store, unsynced, count, audit, issued, overlapped, ended, durable, restarts>>

\* Seeded faults: deduplication by fingerprint alone; a put that does not flush.
PutDeduplicated(bundle) ==
    /\ store' = IF \E b \in store : b.fp = bundle.fp THEN store ELSE store \cup {bundle}
    /\ count' = count + 1 /\ UNCHANGED <<unsynced, durable>>
PutUnflushed(bundle) ==
    /\ store' = store \cup {bundle} /\ unsynced' = unsynced \cup ({bundle} \ durable)
    /\ count' = count + 1 /\ durable' = durable \cup {bundle}
\* ContentStore::put: insert, flush, count.  A failed flush leaves the bundle
\* inserted and not counted; the handler only warns.
put(bundle) ==
    /\ store' = store \cup {bundle}
    /\ \/ /\ count' = count + 1
          /\ unsynced' = {} /\ durable' = durable \cup {bundle}
       \/ /\ StoreErrors
          /\ unsynced' = unsynced \cup ({bundle} \ durable)
          /\ UNCHANGED <<count, durable>>

\* Seeded fault: the bundle takes the value of the command and the fingerprint
\* of the slot.
PersistMixed(c) ==
    /\ At(c, "Persist") /\ CanRead
    /\ LET key == Arg(c).key
       IN  IF key \in DOMAIN slots /\ has_valid_fingerprint(slots[key])
           THEN put([slot_to_bundle(slots[key]) EXCEPT !.value = Arg(c).value])
           ELSE UNCHANGED <<store, unsynced, count, durable>>
    /\ Goto(c, "EngineSet")
    /\ UNCHANGED <<slots, readers, writer, engine, audit, issued, overlapped, made, ended, restarts>>

\* The registry is read again: the slot may be another SET's, or gone.
PersistBundle(c) ==
    /\ At(c, "Persist") /\ CanRead
    /\ LET key == Arg(c).key
       IN  IF key \in DOMAIN slots /\ has_valid_fingerprint(slots[key])
           THEN put(slot_to_bundle(slots[key]))
           ELSE UNCHANGED <<store, unsynced, count, durable>>
    /\ Goto(c, "EngineSet")
    /\ UNCHANGED <<slots, readers, writer, engine, audit, issued, overlapped, made, ended, restarts>>

EngineSet(c) ==
    /\ At(c, "EngineSet")
    /\ engine' = Put(engine, Arg(c).key, Arg(c).value)
    /\ Goto(c, "LockForAudit")
    /\ UNCHANGED <<slots, readers, writer, store, unsynced, count, audit, history>>

\* Seeded fault: the slot is looked up without waiting for a writer.
LockForAuditBesideWriter(c) ==
    /\ At(c, "LockForAudit")
    /\ IF Arg(c).key \in DOMAIN slots
       THEN readers' = readers \cup {c} /\ Goto(c, "LogCreated")
       ELSE UNCHANGED readers /\ Reply(c)
    /\ UNCHANGED <<stores, writer, history>>

\* The read lock is held while the audit log is locked and flushed.
LockForAudit(c) ==
    /\ At(c, "LockForAudit") /\ CanRead
    /\ IF Arg(c).key \in DOMAIN slots
       THEN readers' = readers \cup {c} /\ Goto(c, "LogCreated")
       ELSE UNCHANGED readers /\ Reply(c)
    /\ UNCHANGED <<stores, writer, history>>

\* Seeded fault: the read lock is not released.
LogCreatedLocked(c) ==
    /\ At(c, "LogCreated")
    /\ Log(Event("EntryCreated", Arg(c).key, slots[Arg(c).key].id))
    /\ Reply(c)
    /\ UNCHANGED <<slots, readers, writer, engine, store, unsynced, count, history>>

LogCreated(c) ==
    /\ At(c, "LogCreated")
    /\ Log(Event("EntryCreated", Arg(c).key, slots[Arg(c).key].id))
    /\ readers' = readers \ {c}
    /\ Reply(c)
    /\ UNCHANGED <<slots, writer, engine, store, unsynced, count, history>>

------------------------------------------------------------------------------
(* GETVERIFIED key: the value from the engine, then the slot, then the log.  *)

GetValue(c) ==
    /\ At(c, "GETVERIFIED")
    /\ IF Arg(c).key \in DOMAIN engine
       THEN conn' = [conn EXCEPT ![c] = [pc |-> "GetSlot", req |-> Arg(c),
                                         value |-> engine[Arg(c).key]]]
       ELSE Reply(c)
    /\ UNCHANGED <<stores, readers, writer, history>>

GetSlot(c) ==
    /\ At(c, "GetSlot") /\ CanRead
    /\ conn' = [conn EXCEPT ![c] =
         [pc |-> "LogRead", req |-> Arg(c), value |-> conn[c].value,
          slot |-> IF Arg(c).key \in DOMAIN slots THEN {slots[Arg(c).key]} ELSE {},
          verification |-> IF Arg(c).key \in DOMAIN slots
                           THEN Verification(slots[Arg(c).key]) ELSE "Unverified"]]
    /\ UNCHANGED <<stores, readers, writer, history>>

LogRead(c) ==
    /\ At(c, "LogRead")
    /\ IF conn[c].verification \in {"FullyVerified", "VerificationFailed"}
       THEN Log(Event(conn[c].verification, Arg(c).key, 0))
       ELSE UNCHANGED audit
    /\ Reply(c)
    /\ UNCHANGED <<slots, readers, writer, engine, store, unsynced, count, history>>

------------------------------------------------------------------------------
(* DEL key: the engine first, then the registry, then the log.               *)

EngineDelete(c) ==
    /\ At(c, "DEL")
    /\ engine' = Drop(engine, Arg(c).key)
    /\ conn' = [conn EXCEPT ![c] = [pc |-> "RemoveSlot", req |-> Arg(c),
                                    deleted |-> Arg(c).key \in DOMAIN engine]]
    /\ UNCHANGED <<slots, readers, writer, store, unsynced, count, audit, history>>

\* Seeded fault: the deletion is not logged.
RemoveSlotUnlogged(c) ==
    /\ At(c, "RemoveSlot") /\ CanWrite
    /\ slots' = Drop(slots, Arg(c).key)
    /\ Reply(c)
    /\ UNCHANGED <<readers, writer, engine, store, unsynced, count, audit, history>>

RemoveSlot(c) ==
    /\ At(c, "RemoveSlot") /\ CanWrite
    /\ slots' = Drop(slots, Arg(c).key)
    /\ IF conn[c].deleted THEN Goto(c, "LogDeleted") ELSE Reply(c)
    /\ UNCHANGED <<readers, writer, engine, store, unsynced, count, audit, history>>

LogDeleted(c) ==
    /\ At(c, "LogDeleted")
    /\ Log(Event("EntryDeleted", Arg(c).key, 0))
    /\ Reply(c)
    /\ UNCHANGED <<slots, readers, writer, engine, store, unsynced, count, history>>

------------------------------------------------------------------------------
(* INVALIDATE key REASON text and SUPERSEDE old new: the write lock is held  *)
(* from the lookup to the end of the append; every error returns at once.    *)

NewState(r) ==
    IF r.cmd = "INVALIDATE" THEN Revoked ELSE Superseded(SlotAddress(slots[r.new]))

Found(r) == r.key \in DOMAIN slots /\ (r.cmd = "SUPERSEDE" => r.new \in DOMAIN slots)

\* The write lock outlives the step.  Seeded fault: it does not.
ReleaseAtOnce(c) == writer' = {}
KeepWriteLock(c) == writer' = {c}

Transition(c) ==
    /\ At(c, "INVALIDATE") \/ At(c, "SUPERSEDE")
    /\ CanWrite
    /\ LET r == Arg(c)
           slot == slots[r.key]
       IN  IF Found(r) /\ TransitionLegal(slot, NewState(r))
           THEN /\ slots' = [slots EXCEPT ![r.key].state = NewState(r)]
                /\ ended' = ended \cup
                     {[id |-> slot.id, from |-> slot.state[1], to |-> NewState(r)[1]]}
                /\ KeepWriteLock(c)
                /\ Goto(c, "LogTransition")
           ELSE UNCHANGED <<slots, ended, writer>> /\ Reply(c)
    /\ UNCHANGED <<readers, engine, store, unsynced, count, audit, issued, overlapped, made, durable, restarts>>

\* from_state is the constant "Active" in the code.
LogTransition(c) ==
    /\ At(c, "LogTransition")
    /\ LET slot == slots[Arg(c).key]
       IN  Log([type |-> "StateTransition", key |-> Arg(c).key, id |-> slot.id,
                from |-> "Active", to |-> slot.state[1]])
    /\ writer' = {}
    /\ Reply(c)
    /\ UNCHANGED <<slots, readers, engine, store, unsynced, count, history>>

------------------------------------------------------------------------------
(* The engine evicts on its own; the process is killed and started again.    *)

Evict(k) ==
    /\ Evictions
    /\ k \in DOMAIN engine
    /\ engine' = Drop(engine, k)
    /\ UNCHANGED <<conn, slots, readers, writer, store, unsynced, count, audit, history>>

\* Cold start: DaemonStart is logged and every bundle becomes an Active slot
\* without a value, under a key made of its address.
ColdStart(bundles) ==
    [a \in {BundleAddress(b) : b \in bundles} |->
        LET bundle == CHOOSE b \in bundles : BundleAddress(b) = a
        IN  NewSlot(bundle.id, EmptyValue, bundle.fp)]

Restart ==
    /\ restarts < MaxRestarts
    /\ restarts' = restarts + 1
    /\ conn' = [c \in Conns |-> Idle]
    /\ readers' = {} /\ writer' = {}
    /\ engine' = << >>
    /\ \E lost \in SUBSET unsynced : store' = store \ lost
    /\ unsynced' = {}
    /\ slots' = ColdStart(store')
    /\ count' = Cardinality(store')
    /\ Log(Event("DaemonStart", "-", 0))
    /\ UNCHANGED <<issued, overlapped, made, ended, durable>>

------------------------------------------------------------------------------
Init ==
    /\ conn = [c \in Conns |-> Idle]
    /\ slots = << >> /\ engine = << >>
    /\ readers = {} /\ writer = {}
    /\ store = {} /\ unsynced = {} /\ count = 0
    /\ audit = << >>
    /\ issued = 0 /\ overlapped = FALSE /\ made = {} /\ ended = {} /\ durable = {} /\ restarts = 0

Step(c) ==
    \/ InsertSlot(c) \/ PersistBundle(c) \/ EngineSet(c) \/ LockForAudit(c) \/ LogCreated(c)
    \/ GetValue(c) \/ GetSlot(c) \/ LogRead(c)
    \/ EngineDelete(c) \/ RemoveSlot(c) \/ LogDeleted(c)
    \/ Transition(c) \/ LogTransition(c)

Next ==
    \/ \E c \in Conns : Receive(c) \/ Step(c)
    \/ \E k \in Keys : Evict(k)
    \/ Restart

Spec == Init /\ [][Next]_vars

\* The runtime keeps polling a handler that can proceed; clients need not send.
FairSpec == Spec /\ \A c \in Conns : WF_vars(Step(c))

------------------------------------------------------------------------------
(* Properties.                                                               *)

Quiescent == \A c \in Conns : At(c, "Idle")
Busy(k, pcs) == \E c \in Conns : conn[c].pc \in pcs /\ Arg(c).key = k

\* Types, and the exclusion the RwLock promises.
TypeOK ==
    /\ DOMAIN conn = Conns
    /\ readers \subseteq Conns /\ writer \subseteq Conns
    /\ writer # {} => readers = {} /\ Cardinality(writer) = 1
    /\ DOMAIN engine \subseteq Keys
    /\ \A k \in DOMAIN engine : engine[k] \in Values
    /\ \A k \in DOMAIN slots :
         /\ slots[k].value \in Values \cup {EmptyValue}
         /\ slots[k].fp \in Fps \cup {NoFp}
         /\ slots[k].state[1] \in {"Active", "Revoked", "Superseded"}
    /\ unsynced \subseteq store
    /\ count \in 0..MaxCommands /\ issued \in 0..MaxCommands
    /\ overlapped \in BOOLEAN /\ restarts \in 0..MaxRestarts

\* Once an artifact is revoked or superseded, its slot says so for as long as
\* it is registered (cache_slot.rs:197, "cannot be transitioned out of").
TerminalIsFinal ==
    \A k \in DOMAIN slots, e \in ended :
        slots[k].id = e.id => slots[k].state[1] = e.to

Transitions == {i \in DOMAIN audit : audit[i].type = "StateTransition"}
Records(i, e) == audit[i].id = e.id /\ audit[i].from = e.from /\ audit[i].to = e.to

\* The log and the registry agree on transitions.  Every StateTransition in the
\* log happened, from and to the states it names; and whenever the write lock is
\* free, every transition is in the log exactly once, so that no other handler
\* can slip between a transition and its record (appends that fail aside).
TransitionsRecorded ==
    /\ \A i \in Transitions : \E e \in ended : Records(i, e)
    /\ writer = {} /\ ~AuditErrors =>
         \A e \in ended : Cardinality({i \in Transitions : Records(i, e)}) = 1

\* A registered slot with a fingerprint has its bundle in the content store,
\* except while a SET of its key is about to persist it.
SlotPersisted ==
    \A k \in DOMAIN slots \cap Keys :
        has_valid_fingerprint(slots[k]) =>
            slot_to_bundle(slots[k]) \in store \/ Busy(k, {"Persist"})

\* Every bundle holds the value and the fingerprint of one single SET.
BundlesReal ==
    \A b \in store : has_valid_fingerprint(b) /\ \E m \in made : b = slot_to_bundle(m)

\* What ContentStore::put reported stored survives every kill.
DurableKept == durable \subseteq store

\* Every command is answered: no handler waits for a lock for ever.
CommandsComplete == \A c \in Conns : ~At(c, "Idle") ~> At(c, "Idle")

\* With no command under way, a key's value is the one its slot describes
\* (cache_slot.rs:106, "what produced this result").
PairConsistent ==
    Quiescent => \A k \in DOMAIN slots \cap DOMAIN engine : engine[k] = slots[k].value

\* With no command under way, replaying the log of a key gives its present
\* entry (audit.rs:340, "reconstruct full lifecycle from genesis to now").
EventsOf(k) == {i \in DOMAIN audit :
    audit[i].key = k /\ audit[i].type \in {"EntryCreated", "EntryDeleted", "StateTransition"}}
Last(S) == CHOOSE i \in S : \A j \in S : j <= i
LogReplays ==
    Quiescent => \A k \in Keys :
        LET last == audit[Last(EventsOf(k))]
        IN  IF k \in DOMAIN slots
            THEN /\ EventsOf(k) # {} /\ last.id = slots[k].id
                 /\ slots[k].state[1] =
                      IF last.type = "StateTransition" THEN last.to ELSE "Active"
            ELSE EventsOf(k) = {} \/ last.type = "EntryDeleted"

\* The counter INFO reports is the number of bundles (content_store.rs:12).
CountExact == count = Cardinality(store)

\* As long as clients take turns and nothing fails, the stores agree after every
\* command: the number of bundles, value and slot of each key, and its history,
\* unless the engine drops a key: its deletion is not logged (daemon.rs:809).  No
\* sequence of commands alone sets them apart; two concurrent SETs of a key can.
SerialConsistent ==
    ~overlapped /\ restarts = 0 /\ ~AuditErrors /\ ~StoreErrors
        => CountExact /\ PairConsistent /\ (~Evictions => LogReplays)

\* GETVERIFIED verifies the signatures of an entry whose signed bundle is in
\* the content store (daemon.rs:1095).
VerifiedRead ==
    \A c \in Conns : At(c, "LogRead") =>
        \A slot \in conn[c].slot :
            Signing /\ slot_to_bundle(slot) \in store => conn[c].verification = "FullyVerified"
=============================================================================

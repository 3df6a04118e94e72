------------------------- MODULE CacheDaemonProofs -------------------------
(***************************************************************************)
(* Theorems about the command handlers, for every number of connections,   *)
(* keys, values, commands and kills, whatever fails; and that the stores   *)
(* agree as long as clients take turns.                                    *)
(***************************************************************************)
EXTENDS CacheDaemon, FiniteSetTheorems, TLAPS

\* Where handlers are.
SetPlaces == {"SET", "Persist", "EngineSet", "LockForAudit", "LogCreated"}
OtherPlaces == {"GETVERIFIED", "GetSlot", "LogRead", "DEL", "RemoveSlot", "LogDeleted",
                "INVALIDATE", "SUPERSEDE", "LogTransition"}

ConnInv ==
    /\ DOMAIN conn = Conns
    /\ \A c \in Conns :
          /\ conn[c].pc \in SetPlaces \cup OtherPlaces \cup {"Idle"}
          /\ ~At(c, "Idle") => {"pc", "req"} \subseteq DOMAIN conn[c]
          /\ conn[c].pc \in SetPlaces => Arg(c).key \in Keys /\ Arg(c).value \in Values

\* The locks are held where the handlers hold them, and protect what they are for.
LockInv ==
    /\ readers \subseteq Conns /\ writer \subseteq Conns
    /\ writer = {} \/ \E c \in Conns : writer = {c} /\ readers = {}
    /\ \A c \in Conns :
          /\ c \in readers <=> At(c, "LogCreated")
          /\ c \in writer <=> At(c, "LogTransition")
          /\ conn[c].pc \in {"LogCreated", "LogTransition"} => Arg(c).key \in DOMAIN slots

SlotInv ==
    \A k \in DOMAIN slots :
        /\ DOMAIN slots[k] = {"id", "value", "fp", "state"}
        /\ slots[k].value \in Values \cup {EmptyValue} /\ slots[k].fp \in Fps \cup {NoFp}
        /\ slots[k].state[1] \in {"Active", "Revoked", "Superseded"}

EngineInv == DOMAIN engine \subseteq Keys /\ \A k \in DOMAIN engine : engine[k] \in Values

\* Every artifact has a number of its own.
MadeInv ==
    /\ IsFiniteSet(made)
    /\ \A m \in made : m.id \in 1..Cardinality(made) /\ m.value \in Values /\ m.fp \in Fps \cup {NoFp}

\* What a SET is about to persist was made by a SET, its own or another.
PersistInv ==
    \A c \in Conns : At(c, "Persist") /\ Arg(c).key \in DOMAIN slots =>
        \E m \in made : slot_to_bundle(m) = slot_to_bundle(slots[Arg(c).key])

StoreInv ==
    /\ durable \subseteq store /\ unsynced \subseteq store /\ durable \cap unsynced = {}
    /\ \A b \in store : b.fp \in Fps

\* Each SET stores and counts one bundle at most.
Pending == {c \in Conns : conn[c].pc \in {"SET", "Persist"}}
CountInv ==
    /\ issued \in 0..MaxCommands /\ count \in Nat
    /\ IsFiniteSet(Pending) /\ IsFiniteSet(store)
    /\ count + Cardinality(Pending) <= issued
    /\ Cardinality(store) + Cardinality(Pending) <= issued

RunInv == restarts \in 0..MaxRestarts /\ overlapped \in BOOLEAN

IInv == ConnInv /\ LockInv /\ SlotInv /\ EngineInv /\ MadeInv /\ PersistInv /\ BundlesReal
        /\ StoreInv /\ CountInv /\ RunInv

\* What a step of a handler does to the connections.
LEMMA GotoShape ==
    ASSUME DOMAIN conn = Conns, NEW c \in Conns, {"pc", "req"} \subseteq DOMAIN conn[c],
           NEW pc, Goto(c, pc)
    PROVE  /\ DOMAIN conn' = Conns
           /\ conn'[c].pc = pc /\ conn'[c].req = conn[c].req
           /\ DOMAIN conn'[c] = DOMAIN conn[c]
           /\ \A d \in Conns \ {c} : conn'[d] = conn[d]
BY DEF Goto

\* A handler that replies leaves its connection idle and the others as they are.
LEMMA ReplyShape ==
    ASSUME DOMAIN conn = Conns, NEW c \in Conns, Reply(c)
    PROVE  /\ DOMAIN conn' = Conns
           /\ conn'[c].pc = "Idle"
           /\ \A d \in Conns \ {c} : conn'[d] = conn[d]
BY DEF Reply, Idle

\* Put changes one key.
LEMMA PutShape ==
    ASSUME NEW f, NEW k, NEW x
    PROVE  /\ DOMAIN Put(f, k, x) = DOMAIN f \cup {k}
           /\ Put(f, k, x)[k] = x
           /\ \A j \in DOMAIN f \ {k} : Put(f, k, x)[j] = f[j]
BY DEF Put

\* Drop removes one key.
LEMMA DropShape ==
    ASSUME NEW f, NEW k
    PROVE  /\ DOMAIN Drop(f, k) = DOMAIN f \ {k}
           /\ \A j \in DOMAIN f \ {k} : Drop(f, k)[j] = f[j]
BY DEF Drop

\* A handler that goes on to another place with the same command, or ends.
Moves(c) ==
    /\ DOMAIN conn' = Conns /\ \A d \in Conns \ {c} : conn'[d] = conn[d]
    /\ \/ conn'[c].pc = "Idle"
       \/ /\ {"pc", "req"} \subseteq DOMAIN conn'[c] /\ conn'[c].req = conn[c].req
          /\ conn'[c].pc \in SetPlaces \cup OtherPlaces
          /\ conn'[c].pc \in SetPlaces => conn[c].pc \in SetPlaces

\* Moving on keeps the connections well formed.
LEMMA MovesConn == ASSUME ConnInv, NEW c \in Conns, Moves(c) PROVE ConnInv'
BY DEF ConnInv, Moves, At, Arg, SetPlaces, OtherPlaces

\* A handler that is past its store, or never comes to one, changes no count.
LEMMA MovesCount ==
    ASSUME CountInv, NEW c \in Conns, Moves(c), ConnInv,
           conn[c].pc \notin {"SET", "Persist"}, conn'[c].pc \notin {"SET", "Persist"},
           UNCHANGED <<issued, count, store>>
    PROVE  CountInv'
<1>1. Pending' = Pending
  BY DEF Pending, Moves
<1> QED
  BY <1>1 DEF CountInv

\* A step that only reads, and moves on.
LEMMA ReadingStep ==
    ASSUME IInv, NEW c \in Conns, Moves(c),
           conn[c].pc \notin {"SET", "Persist", "LogCreated", "LogTransition"},
           conn'[c].pc \notin {"SET", "Persist", "LogCreated", "LogTransition"},
           UNCHANGED <<slots, readers, writer, engine, store, unsynced, count, history>>
    PROVE  IInv'
<1>1. ConnInv' /\ CountInv'
  BY MovesConn, MovesCount DEF IInv, history
<1>2. LockInv'
  BY DEF IInv, LockInv, Moves, At, Arg
<1>3. SlotInv' /\ EngineInv' /\ MadeInv' /\ BundlesReal' /\ StoreInv'
  BY DEF IInv, SlotInv, EngineInv, MadeInv, BundlesReal, StoreInv, history, has_valid_fingerprint, slot_to_bundle
<1>4. PersistInv'
  BY DEF IInv, PersistInv, Moves, At, Arg, history, slot_to_bundle
<1>5. RunInv'
  BY DEF IInv, RunInv, history
<1> QED
  BY <1>1, <1>2, <1>3, <1>4, <1>5 DEF IInv

\* Going on to a place that fits the command is such a move ...
LEMMA GotoMoves ==
    ASSUME ConnInv, NEW c \in Conns, ~At(c, "Idle"), NEW pc \in SetPlaces \cup OtherPlaces, Goto(c, pc),
           pc \in SetPlaces => conn[c].pc \in SetPlaces
    PROVE  Moves(c) /\ conn'[c].pc = pc /\ conn'[c].req = conn[c].req
BY GotoShape DEF ConnInv, Moves

\* ... and so is replying.
LEMMA ReplyMoves == ASSUME ConnInv, NEW c \in Conns, Reply(c) PROVE Moves(c) /\ conn'[c].pc = "Idle"
BY ReplyShape DEF ConnInv, Moves

-----------------------------------------------------------------------------
(* One lemma for each step.                                                *)

\* A command arrives: one more SET may be pending.
LEMMA ReceiveStep == ASSUME IInv, NEW c \in Conns, Receive(c) PROVE IInv'
<1>1. PICK r \in Requests : conn' = [conn EXCEPT ![c] = [pc |-> r.cmd, req |-> r]]
  BY DEF Receive
<1>2. /\ r.cmd \in {"SET", "GETVERIFIED", "DEL", "INVALIDATE", "SUPERSEDE"}
      /\ r.cmd = "SET" => r.key \in Keys /\ r.value \in Values
  BY DEF Requests
<1>3. /\ DOMAIN conn' = Conns /\ \A d \in Conns \ {c} : conn'[d] = conn[d]
      /\ conn'[c] = [pc |-> r.cmd, req |-> r]
  BY <1>1 DEF IInv, ConnInv
<1>4. At(c, "Idle") /\ issued < MaxCommands /\ issued' = issued + 1
      /\ UNCHANGED <<slots, engine, store, unsynced, count, audit, readers, writer, made, ended, durable, restarts>>
  BY DEF Receive, stores
<1>5. conn'[c].pc = r.cmd /\ conn'[c].req = r /\ {"pc", "req"} \subseteq DOMAIN conn'[c]
  BY <1>3
<1>6. ConnInv'
  BY <1>2, <1>3, <1>5 DEF IInv, ConnInv, At, Arg, SetPlaces, OtherPlaces
<1>7. LockInv'
  BY <1>2, <1>3, <1>4, <1>5 DEF IInv, LockInv, At, Arg
<1>8. SlotInv' /\ EngineInv' /\ MadeInv' /\ BundlesReal' /\ StoreInv'
  BY <1>4 DEF IInv, SlotInv, EngineInv, MadeInv, BundlesReal, StoreInv, has_valid_fingerprint, slot_to_bundle
<1>9. PersistInv'
  BY <1>2, <1>3, <1>4, <1>5 DEF IInv, PersistInv, At, Arg, slot_to_bundle
<1>10. CountInv'
  <2>1. CASE r.cmd = "SET"
    <3>1. Pending' = Pending \cup {c} /\ c \notin Pending
      BY <1>3, <1>4, <1>5, <2>1 DEF Pending, At
    <3>2. IsFiniteSet(Pending') /\ Cardinality(Pending') = Cardinality(Pending) + 1
      BY <3>1, FS_AddElement DEF IInv, CountInv
    <3>3. Cardinality(Pending) \in Nat /\ Cardinality(store) \in Nat
      BY FS_CardinalityType DEF IInv, CountInv
    <3> QED
      BY <1>4, <3>2, <3>3, DaemonAssumption DEF IInv, CountInv
  <2>2. CASE r.cmd # "SET"
    <3>1. Pending' = Pending
      BY <1>2, <1>3, <1>4, <1>5, <2>2 DEF Pending, At
    <3>2. Cardinality(Pending) \in Nat /\ Cardinality(store) \in Nat
      BY FS_CardinalityType DEF IInv, CountInv
    <3> QED
      BY <1>4, <3>1, <3>2, DaemonAssumption DEF IInv, CountInv
  <2> QED
    BY <2>1, <2>2
<1>11. RunInv'
  <2>1. overlapped' \in BOOLEAN
    BY Zenon DEF IInv, RunInv, Receive
  <2> QED
    BY <1>4, <2>1 DEF IInv, RunInv
<1> QED
  BY <1>6, <1>7, <1>8, <1>9, <1>10, <1>11 DEF IInv

\* A SET makes an artifact and registers it.
LEMMA InsertSlotStep == ASSUME IInv, NEW c \in Conns, InsertSlot(c) PROVE IInv'
<1> DEFINE slot == NewSlot(Cardinality(made) + 1, Arg(c).value, parse_fingerprint(Arg(c).fp))
           key == Arg(c).key
<1>1. /\ At(c, "SET") /\ writer = {} /\ readers = {} /\ slots' = Put(slots, key, slot) /\ made' = made \cup {slot}
      /\ UNCHANGED <<readers, writer, engine, store, unsynced, count, audit, issued, overlapped, ended, durable, restarts>>
  BY DEF InsertSlot, CanWrite
<1>2. Moves(c) /\ conn'[c].pc = "Persist" /\ conn'[c].req = conn[c].req
  BY <1>1, GotoMoves DEF IInv, InsertSlot, At, SetPlaces, OtherPlaces
<1>3. Cardinality(made) \in Nat
  BY FS_CardinalityType DEF IInv, MadeInv
<1>4. /\ slot.id = Cardinality(made) + 1 /\ slot.value \in Values /\ slot.fp \in Fps \cup {NoFp}
      /\ DOMAIN slot = {"id", "value", "fp", "state"} /\ slot.state[1] = "Active"
  BY <1>1 DEF NewSlot, parse_fingerprint, Active, IInv, ConnInv, At, SetPlaces
<1> HIDE DEF slot, key
<1>5. /\ DOMAIN slots' = DOMAIN slots \cup {key} /\ slots'[key] = slot
      /\ \A j \in DOMAIN slots \ {key} : slots'[j] = slots[j]
  BY <1>1 DEF Put
<1>6. ConnInv'
  BY <1>2, MovesConn DEF IInv
<1>7. LockInv'
  BY <1>1, <1>2 DEF IInv, LockInv, At, Arg, Moves
<1>8. SlotInv'
  BY <1>4, <1>5 DEF IInv, SlotInv
<1>9. EngineInv' /\ BundlesReal' /\ StoreInv' /\ RunInv'
  BY <1>1 DEF IInv, EngineInv, BundlesReal, StoreInv, RunInv, has_valid_fingerprint, slot_to_bundle
<1>10. MadeInv'
  <2>1. slot \notin made
    BY <1>3, <1>4 DEF IInv, MadeInv
  <2>2. IsFiniteSet(made') /\ Cardinality(made') = Cardinality(made) + 1
    BY <1>1, <2>1, FS_AddElement DEF IInv, MadeInv
  <2>3. ASSUME NEW m \in made'
        PROVE  m.id \in 1..(Cardinality(made) + 1) /\ m.value \in Values /\ m.fp \in Fps \cup {NoFp}
    <3>1. CASE m = slot
      BY <1>3, <1>4, <3>1
    <3>2. CASE m \in made
      BY <1>3, <3>2 DEF IInv, MadeInv
    <3> QED
      BY <1>1, <3>1, <3>2
  <2> QED
    BY <2>2, <2>3 DEF MadeInv
<1>11. PersistInv'
  <2> SUFFICES ASSUME NEW d \in Conns, At(d, "Persist")', conn'[d].req.key \in DOMAIN slots'
               PROVE  \E m \in made' : slot_to_bundle(m) = slot_to_bundle(slots'[conn'[d].req.key])
    BY DEF PersistInv, Arg, slot_to_bundle
  <2>1. CASE conn'[d].req.key = key
    BY <1>1, <1>5, <2>1
  <2>2. CASE conn'[d].req.key # key
    BY <1>1, <1>2, <1>5, <2>2 DEF IInv, PersistInv, Moves, At, Arg, key
  <2> QED
    BY <2>1, <2>2
<1>12. CountInv'
  <2>1. Pending' = Pending
    BY <1>1, <1>2 DEF Pending, Moves, At
  <2> QED
    BY <1>1, <2>1 DEF IInv, CountInv
<1> QED
  BY <1>6, <1>7, <1>8, <1>9, <1>10, <1>11, <1>12 DEF IInv

\* A SET stores the bundle of whatever slot its key has by then.
LEMMA PersistStep == ASSUME IInv, NEW c \in Conns, PersistBundle(c) PROVE IInv'
<1> DEFINE key == Arg(c).key
           bundle == slot_to_bundle(slots[key])
<1>1. /\ At(c, "Persist")
      /\ UNCHANGED <<slots, readers, writer, engine, audit, issued, overlapped, made, ended, restarts>>
      /\ \/ /\ key \in DOMAIN slots /\ has_valid_fingerprint(slots[key]) /\ put(bundle)
         \/ UNCHANGED <<store, unsynced, count, durable>>
  BY DEF PersistBundle
<1>2. Moves(c) /\ conn'[c].pc = "EngineSet" /\ conn'[c].req = conn[c].req
  BY <1>1, GotoMoves DEF IInv, PersistBundle, At, SetPlaces, OtherPlaces
<1>3. ConnInv'
  BY <1>2, MovesConn DEF IInv
<1>4. LockInv'
  BY <1>1, <1>2 DEF IInv, LockInv, At, Arg, Moves
<1>5. SlotInv' /\ EngineInv' /\ MadeInv' /\ RunInv'
  BY <1>1 DEF IInv, SlotInv, EngineInv, MadeInv, RunInv
<1>6. PersistInv'
  BY <1>1, <1>2 DEF IInv, PersistInv, Moves, At, Arg, slot_to_bundle
<1>7. IsFiniteSet(Pending') /\ Cardinality(Pending') = Cardinality(Pending) - 1 /\ Cardinality(Pending') \in Nat
  <2>1. Pending' = Pending \ {c} /\ c \in Pending
    BY <1>1, <1>2 DEF Pending, Moves, At
  <2> QED
    BY <2>1, FS_RemoveElement, FS_CardinalityType DEF IInv, CountInv
<1>8. Cardinality(Pending) \in Nat /\ Cardinality(store) \in Nat
  BY FS_CardinalityType DEF IInv, CountInv
<1>9. CASE UNCHANGED <<store, unsynced, count, durable>>
  <2>1. BundlesReal' /\ StoreInv'
    BY <1>1, <1>9 DEF IInv, BundlesReal, StoreInv, has_valid_fingerprint, slot_to_bundle
  <2>2. CountInv'
    BY <1>1, <1>7, <1>8, <1>9 DEF IInv, CountInv
  <2> QED
    BY <1>3, <1>4, <1>5, <1>6, <2>1, <2>2 DEF IInv
<1>10. CASE key \in DOMAIN slots /\ has_valid_fingerprint(slots[key]) /\ put(bundle)
  <2>1. /\ store' = store \cup {bundle}
        /\ \/ count' = count + 1 /\ unsynced' = {} /\ durable' = durable \cup {bundle}
           \/ unsynced' = unsynced \cup ({bundle} \ durable) /\ UNCHANGED <<count, durable>>
    BY <1>10 DEF put
  <2>2. bundle.fp \in Fps /\ has_valid_fingerprint(bundle)
    BY <1>10 DEF has_valid_fingerprint, slot_to_bundle, IInv, SlotInv
  <2>3. \E m \in made : bundle = slot_to_bundle(m)
    BY <1>1, <1>10 DEF IInv, PersistInv
  <2> HIDE DEF bundle
  <2>4. BundlesReal'
    BY <1>1, <2>1, <2>2, <2>3 DEF IInv, BundlesReal, has_valid_fingerprint, slot_to_bundle
  <2>5. StoreInv'
    BY <2>1, <2>2 DEF IInv, StoreInv
  <2>6. IsFiniteSet(store') /\ Cardinality(store') <= Cardinality(store) + 1 /\ Cardinality(store') \in Nat
    <3>1. CASE bundle \in store
      <4>1. store' = store
        BY <2>1, <3>1
      <4> QED
        BY <1>8, <4>1 DEF IInv, CountInv
    <3>2. CASE bundle \notin store
      BY <1>8, <2>1, <3>2, FS_AddElement DEF IInv, CountInv
    <3> QED
      BY <3>1, <3>2
  <2>7. CountInv'
    BY <1>1, <1>7, <1>8, <2>1, <2>6 DEF IInv, CountInv
  <2> QED
    BY <1>3, <1>4, <1>5, <1>6, <2>4, <2>5, <2>7 DEF IInv
<1> QED
  BY <1>1, <1>9, <1>10

\* The engine takes the value of the command.
LEMMA EngineSetStep == ASSUME IInv, NEW c \in Conns, EngineSet(c) PROVE IInv'
<1> DEFINE key == Arg(c).key
           value == Arg(c).value
<1>1. /\ At(c, "EngineSet") /\ engine' = Put(engine, key, value)
      /\ UNCHANGED <<slots, readers, writer, store, unsynced, count, audit, history>>
  BY DEF EngineSet
<1>2. Moves(c) /\ conn'[c].pc = "LockForAudit" /\ conn'[c].req = conn[c].req
  BY <1>1, GotoMoves DEF IInv, EngineSet, At, SetPlaces, OtherPlaces
<1>3. key \in Keys /\ value \in Values
  BY <1>1 DEF IInv, ConnInv, At, SetPlaces
<1> HIDE DEF key, value
<1>4. EngineInv'
  BY <1>1, <1>3 DEF IInv, EngineInv, Put
<1>5. ConnInv' /\ CountInv'
  BY <1>1, <1>2, MovesConn, MovesCount DEF IInv, history, At
<1>6. LockInv'
  BY <1>1, <1>2 DEF IInv, LockInv, Moves, At, Arg
<1>7. SlotInv' /\ MadeInv' /\ BundlesReal' /\ StoreInv' /\ RunInv'
  BY <1>1 DEF IInv, SlotInv, MadeInv, BundlesReal, StoreInv, RunInv, history, has_valid_fingerprint, slot_to_bundle
<1>8. PersistInv'
  BY <1>1, <1>2 DEF IInv, PersistInv, Moves, At, Arg, history, slot_to_bundle
<1> QED
  BY <1>4, <1>5, <1>6, <1>7, <1>8 DEF IInv

\* The read lock is taken while nobody writes.
LEMMA LockForAuditStep == ASSUME IInv, NEW c \in Conns, LockForAudit(c) PROVE IInv'
<1>1. /\ At(c, "LockForAudit") /\ writer = {} /\ UNCHANGED <<stores, writer, history>>
      /\ \/ Arg(c).key \in DOMAIN slots /\ readers' = readers \cup {c} /\ Goto(c, "LogCreated")
         \/ UNCHANGED readers /\ Reply(c)
  BY DEF LockForAudit, CanRead
<1>2. CASE UNCHANGED readers /\ Reply(c)
  BY <1>1, <1>2, ReplyMoves, ReadingStep DEF IInv, stores, At
<1>3. CASE Arg(c).key \in DOMAIN slots /\ readers' = readers \cup {c} /\ Goto(c, "LogCreated")
  <2>1. Moves(c) /\ conn'[c].pc = "LogCreated" /\ conn'[c].req = conn[c].req
    BY <1>1, <1>3, GotoMoves DEF IInv, At, SetPlaces, OtherPlaces
  <2>2. ConnInv' /\ CountInv'
    BY <1>1, <2>1, MovesConn, MovesCount DEF IInv, history, stores, At
  <2>3. LockInv'
    BY <1>1, <1>3, <2>1 DEF IInv, LockInv, Moves, At, Arg, stores
  <2>4. SlotInv' /\ EngineInv' /\ MadeInv' /\ BundlesReal' /\ StoreInv' /\ RunInv'
    BY <1>1 DEF IInv, SlotInv, EngineInv, MadeInv, BundlesReal, StoreInv, RunInv, history, stores,
                has_valid_fingerprint, slot_to_bundle
  <2>5. PersistInv'
    BY <1>1, <2>1 DEF IInv, PersistInv, Moves, At, Arg, history, stores, slot_to_bundle
  <2> QED
    BY <2>2, <2>3, <2>4, <2>5 DEF IInv
<1> QED
  BY <1>1, <1>2, <1>3

\* The read lock is given back.
LEMMA LogCreatedStep == ASSUME IInv, NEW c \in Conns, LogCreated(c) PROVE IInv'
<1>1. /\ At(c, "LogCreated") /\ readers' = readers \ {c} /\ Reply(c)
      /\ UNCHANGED <<slots, writer, engine, store, unsynced, count, history>>
  BY DEF LogCreated
<1>2. Moves(c) /\ conn'[c].pc = "Idle"
  BY <1>1, ReplyMoves DEF IInv
<1>3. ConnInv' /\ CountInv'
  BY <1>1, <1>2, MovesConn, MovesCount DEF IInv, history, At
<1>4. LockInv'
  BY <1>1, <1>2 DEF IInv, LockInv, Moves, At, Arg
<1>5. SlotInv' /\ EngineInv' /\ MadeInv' /\ BundlesReal' /\ StoreInv' /\ RunInv'
  BY <1>1 DEF IInv, SlotInv, EngineInv, MadeInv, BundlesReal, StoreInv, RunInv, history,
              has_valid_fingerprint, slot_to_bundle
<1>6. PersistInv'
  BY <1>1, <1>2 DEF IInv, PersistInv, Moves, At, Arg, history, slot_to_bundle
<1> QED
  BY <1>3, <1>4, <1>5, <1>6 DEF IInv

\* A GETVERIFIED only reads and logs.
LEMMA GetStep ==
    ASSUME IInv, NEW c \in Conns, GetValue(c) \/ GetSlot(c) \/ LogRead(c) \/ LogDeleted(c)
    PROVE  IInv'
<1>1. CASE GetValue(c) \/ GetSlot(c)
  <2>1. At(c, "GETVERIFIED") \/ At(c, "GetSlot")
    BY <1>1 DEF GetValue, GetSlot
  <2>2. Moves(c) /\ conn'[c].pc \in {"Idle", "GetSlot", "LogRead"}
    <3>1. CASE Reply(c)
      BY <3>1, ReplyMoves DEF IInv
    <3>2. CASE ~Reply(c)
      BY <1>1, <3>2 DEF GetValue, GetSlot, Moves, IInv, ConnInv, Arg, OtherPlaces, SetPlaces
    <3> QED
      BY <3>1, <3>2
  <2>3. UNCHANGED <<slots, readers, writer, engine, store, unsynced, count, history>>
    BY <1>1 DEF GetValue, GetSlot, stores
  <2> QED
    BY <2>1, <2>2, <2>3, ReadingStep DEF At
<1>2. CASE LogRead(c) \/ LogDeleted(c)
  BY <1>2, ReplyMoves, ReadingStep DEF LogRead, LogDeleted, At, IInv
<1> QED
  BY <1>1, <1>2

\* A DEL removes a key from engine and registry.
LEMMA DelStep == ASSUME IInv, NEW c \in Conns, EngineDelete(c) \/ RemoveSlot(c) PROVE IInv'
<1> DEFINE key == Arg(c).key
<1>1. At(c, "DEL") \/ At(c, "RemoveSlot")
  BY DEF EngineDelete, RemoveSlot
<1>2. Moves(c) /\ conn'[c].pc \in {"Idle", "RemoveSlot", "LogDeleted"}
  <2>1. CASE Reply(c)
    BY <2>1, ReplyMoves DEF IInv
  <2>2. CASE EngineDelete(c)
    BY <2>2 DEF EngineDelete, Moves, IInv, ConnInv, Arg, OtherPlaces, SetPlaces
  <2>3. CASE RemoveSlot(c) /\ ~Reply(c)
    BY <1>1, <2>3, GotoMoves DEF RemoveSlot, At, IInv, OtherPlaces, SetPlaces
  <2> QED
    BY <2>1, <2>2, <2>3
<1>3. /\ UNCHANGED <<readers, writer, store, unsynced, count, audit, history>>
      /\ \/ engine' = Drop(engine, key) /\ UNCHANGED slots
         \/ slots' = Drop(slots, key) /\ UNCHANGED engine /\ readers = {} /\ writer = {}
  BY DEF EngineDelete, RemoveSlot, CanWrite
<1> HIDE DEF key
<1>4. ConnInv' /\ CountInv'
  BY <1>1, <1>2, <1>3, MovesConn, MovesCount DEF IInv, history, At
<1>5. /\ DOMAIN slots' \subseteq DOMAIN slots /\ \A k \in DOMAIN slots' : slots'[k] = slots[k]
      /\ DOMAIN engine' \subseteq DOMAIN engine /\ \A k \in DOMAIN engine' : engine'[k] = engine[k]
  BY <1>3 DEF Drop
<1>6. LockInv'
  BY <1>1, <1>2, <1>3 DEF IInv, LockInv, Moves, At, Arg
<1>7. SlotInv' /\ EngineInv'
  BY <1>5 DEF IInv, SlotInv, EngineInv
<1>8. MadeInv' /\ BundlesReal' /\ StoreInv' /\ RunInv'
  BY <1>3 DEF IInv, MadeInv, BundlesReal, StoreInv, RunInv, history, has_valid_fingerprint, slot_to_bundle
<1>9. PersistInv'
  <2> SUFFICES ASSUME NEW d \in Conns, At(d, "Persist")', conn'[d].req.key \in DOMAIN slots'
               PROVE  \E m \in made' : slot_to_bundle(m) = slot_to_bundle(slots'[conn'[d].req.key])
    BY DEF PersistInv, Arg, slot_to_bundle
  <2>1. At(d, "Persist") /\ conn'[d] = conn[d]
    BY <1>2 DEF Moves, At
  <2>2. conn[d].req.key \in DOMAIN slots /\ slots'[conn[d].req.key] = slots[conn[d].req.key]
    BY <1>5, <2>1
  <2> QED
    BY <1>3, <2>1, <2>2 DEF IInv, PersistInv, Arg, history
<1> QED
  BY <1>4, <1>6, <1>7, <1>8, <1>9 DEF IInv

\* A transition takes the write lock, and changes the state of a slot only.
LEMMA TransitionStep == ASSUME IInv, NEW c \in Conns, Transition(c) PROVE IInv'
<1> DEFINE key == Arg(c).key
           new == NewState(Arg(c))
<1>1. /\ At(c, "INVALIDATE") \/ At(c, "SUPERSEDE")
      /\ writer = {} /\ readers = {}
      /\ UNCHANGED <<readers, engine, store, unsynced, count, audit, issued, overlapped, made, durable, restarts>>
      /\ \/ /\ key \in DOMAIN slots /\ TransitionLegal(slots[key], new)
            /\ slots' = [slots EXCEPT ![key].state = new] /\ writer' = {c} /\ Goto(c, "LogTransition")
         \/ UNCHANGED <<slots, ended, writer>> /\ Reply(c)
  BY DEF Transition, CanWrite, Found, KeepWriteLock
<1>2. CASE UNCHANGED <<slots, ended, writer>> /\ Reply(c)
  BY <1>1, <1>2, ReplyMoves, ReadingStep DEF IInv, At, history
<1>3. CASE /\ key \in DOMAIN slots /\ TransitionLegal(slots[key], new)
           /\ slots' = [slots EXCEPT ![key].state = new] /\ writer' = {c} /\ Goto(c, "LogTransition")
  <2>1. Moves(c) /\ conn'[c].pc = "LogTransition" /\ conn'[c].req = conn[c].req
    BY <1>1, <1>3, GotoMoves DEF IInv, At, SetPlaces, OtherPlaces
  <2>2. new[1] \in {"Revoked", "Superseded"}
    BY <1>3 DEF TransitionLegal
  <2> HIDE DEF new
  <2>3. /\ DOMAIN slots' = DOMAIN slots
        /\ \A k \in DOMAIN slots \ {key} : slots'[k] = slots[k]
        /\ DOMAIN slots'[key] = {"id", "value", "fp", "state"} /\ slots'[key].state = new
        /\ slots'[key].id = slots[key].id /\ slots'[key].value = slots[key].value /\ slots'[key].fp = slots[key].fp
    BY <1>3 DEF IInv, SlotInv
  <2>4. ConnInv' /\ CountInv'
    BY <1>1, <2>1, MovesConn, MovesCount DEF IInv, At
  <2>5. LockInv'
    BY <1>1, <1>3, <2>1, <2>3 DEF IInv, LockInv, Moves, At, Arg
  <2>6. SlotInv'
    BY <2>2, <2>3 DEF IInv, SlotInv
  <2>7. EngineInv' /\ MadeInv' /\ BundlesReal' /\ StoreInv' /\ RunInv'
    BY <1>1 DEF IInv, EngineInv, MadeInv, BundlesReal, StoreInv, RunInv, has_valid_fingerprint, slot_to_bundle
  <2>8. \A k \in DOMAIN slots : slot_to_bundle(slots[k])' = slot_to_bundle(slots[k])
    BY <1>3, <2>3 DEF slot_to_bundle
  <2>9. PersistInv'
    <3> SUFFICES ASSUME NEW d \in Conns, At(d, "Persist")', conn'[d].req.key \in DOMAIN slots'
                 PROVE  \E m \in made' : slot_to_bundle(m) = slot_to_bundle(slots'[conn'[d].req.key])
      BY DEF PersistInv, Arg, slot_to_bundle
    <3>1. At(d, "Persist") /\ conn'[d].req.key = conn[d].req.key /\ conn[d].req.key \in DOMAIN slots
      BY <2>1, <2>3 DEF Moves, At
    <3>2. slot_to_bundle(slots'[conn[d].req.key]) = slot_to_bundle(slots[conn[d].req.key])
      BY <2>3, <3>1 DEF slot_to_bundle
    <3> QED
      BY <1>1, <3>1, <3>2 DEF IInv, PersistInv, Arg
  <2> QED
    BY <2>4, <2>5, <2>6, <2>7, <2>9 DEF IInv
<1> QED
  BY <1>1, <1>2, <1>3

\* The write lock is given back.
LEMMA LogTransitionStep == ASSUME IInv, NEW c \in Conns, LogTransition(c) PROVE IInv'
<1>1. /\ At(c, "LogTransition") /\ writer' = {} /\ Reply(c)
      /\ UNCHANGED <<slots, readers, engine, store, unsynced, count, history>>
  BY DEF LogTransition
<1>2. Moves(c) /\ conn'[c].pc = "Idle"
  BY <1>1, ReplyMoves DEF IInv
<1>3. ConnInv' /\ CountInv'
  BY <1>1, <1>2, MovesConn, MovesCount DEF IInv, history, At
<1>4. LockInv'
  BY <1>1, <1>2 DEF IInv, LockInv, Moves, At, Arg
<1>5. SlotInv' /\ EngineInv' /\ MadeInv' /\ BundlesReal' /\ StoreInv' /\ RunInv'
  BY <1>1 DEF IInv, SlotInv, EngineInv, MadeInv, BundlesReal, StoreInv, RunInv, history,
              has_valid_fingerprint, slot_to_bundle
<1>6. PersistInv'
  BY <1>1, <1>2 DEF IInv, PersistInv, Moves, At, Arg, history, slot_to_bundle
<1> QED
  BY <1>3, <1>4, <1>5, <1>6 DEF IInv

\* A kill loses what was not flushed; cold start rebuilds the rest from bundles.
LEMMA RestartStep == ASSUME IInv, Restart PROVE IInv'
<1>1. PICK lost \in SUBSET unsynced : store' = store \ lost
  BY DEF Restart
<1>2. /\ restarts < MaxRestarts /\ restarts' = restarts + 1
      /\ conn' = [c \in Conns |-> Idle] /\ readers' = {} /\ writer' = {} /\ engine' = << >>
      /\ unsynced' = {} /\ slots' = ColdStart(store') /\ count' = Cardinality(store')
      /\ UNCHANGED <<issued, overlapped, made, ended, durable>>
  BY DEF Restart
<1>3. \A c \in Conns : conn'[c].pc = "Idle"
  BY <1>2 DEF Idle
<1>4. ConnInv' /\ LockInv' /\ PersistInv'
  <2>1. ConnInv'
    BY <1>2, <1>3 DEF ConnInv, At, SetPlaces
  <2>2. LockInv'
    BY <1>2, <1>3 DEF LockInv, At
  <2>3. PersistInv'
    BY <1>3 DEF PersistInv, At
  <2> QED
    BY <2>1, <2>2, <2>3
<1>5. SlotInv'
  <2> SUFFICES ASSUME NEW a \in DOMAIN slots'
               PROVE  /\ DOMAIN slots'[a] = {"id", "value", "fp", "state"}
                      /\ slots'[a].value \in Values \cup {EmptyValue} /\ slots'[a].fp \in Fps \cup {NoFp}
                      /\ slots'[a].state[1] \in {"Active", "Revoked", "Superseded"}
    BY DEF SlotInv
  <2>1. a \in {BundleAddress(b) : b \in store'}
    BY <1>2 DEF ColdStart
  <2> DEFINE bundle == CHOOSE b \in store' : BundleAddress(b) = a
  <2>2. bundle \in store'
    BY <2>1
  <2>3. slots'[a] = NewSlot(bundle.id, EmptyValue, bundle.fp)
    BY <1>2, <2>1 DEF ColdStart
  <2> HIDE DEF bundle
  <2>4. bundle.fp \in Fps
    BY <1>1, <2>2 DEF IInv, StoreInv
  <2> QED
    BY <2>3, <2>4 DEF NewSlot, Active
<1>6. EngineInv' /\ MadeInv' /\ RunInv'
  <2>1. EngineInv'
    BY <1>2 DEF EngineInv
  <2>2. MadeInv' /\ RunInv'
    BY <1>2, DaemonAssumption DEF IInv, MadeInv, RunInv
  <2> QED
    BY <2>1, <2>2
<1>7. BundlesReal' /\ StoreInv'
  BY <1>1, <1>2 DEF IInv, BundlesReal, StoreInv, has_valid_fingerprint, slot_to_bundle
<1>8. CountInv'
  <2>1. IsFiniteSet(store') /\ Cardinality(store') <= Cardinality(store) /\ Cardinality(store') \in Nat
    BY <1>1, FS_Subset, FS_CardinalityType DEF IInv, CountInv
  <2>2. Pending' = {}
    BY <1>3 DEF Pending
  <2>3. IsFiniteSet(Pending') /\ Cardinality(Pending') = 0
    BY <2>2, FS_EmptySet
  <2>4. Cardinality(Pending) \in Nat /\ Cardinality(store) \in Nat
    BY FS_CardinalityType DEF IInv, CountInv
  <2> QED
    BY <1>2, <2>1, <2>3, <2>4 DEF IInv, CountInv
<1> QED
  BY <1>4, <1>5, <1>6, <1>7, <1>8 DEF IInv

\* An eviction changes the engine only.
LEMMA EvictStep == ASSUME IInv, NEW k \in Keys, Evict(k) PROVE IInv'
<1>1. engine' = Drop(engine, k) /\ UNCHANGED <<conn, slots, readers, writer, store, unsynced, count, audit, history>>
  BY DEF Evict
<1>2. EngineInv'
  BY <1>1 DEF IInv, EngineInv, Drop
<1>3. ConnInv' /\ LockInv' /\ SlotInv' /\ MadeInv' /\ PersistInv' /\ BundlesReal' /\ StoreInv' /\ CountInv' /\ RunInv'
  BY <1>1 DEF IInv, ConnInv, LockInv, SlotInv, MadeInv, PersistInv, BundlesReal, StoreInv, CountInv, Pending,
              RunInv, At, Arg, history, has_valid_fingerprint, slot_to_bundle
<1> QED
  BY <1>2, <1>3 DEF IInv

-----------------------------------------------------------------------------
(* The invariant.                                                          *)

\* The invariant holds of an empty daemon.
LEMMA IInvInit == Init => IInv
<1> SUFFICES ASSUME Init PROVE IInv
  OBVIOUS
<1>1. \A c \in Conns : conn[c].pc = "Idle"
  BY DEF Init, Idle
<1>2. ConnInv /\ LockInv /\ PersistInv
  <2>1. ConnInv
    BY <1>1 DEF Init, ConnInv, At, SetPlaces
  <2>2. LockInv
    BY <1>1 DEF Init, LockInv, At
  <2>3. PersistInv
    BY <1>1 DEF PersistInv, At
  <2> QED
    BY <2>1, <2>2, <2>3
<1>3. SlotInv /\ EngineInv /\ BundlesReal /\ StoreInv
  BY DEF Init, SlotInv, EngineInv, BundlesReal, StoreInv
<1>4. MadeInv
  BY FS_EmptySet DEF Init, MadeInv
<1>5. CountInv
  <2>1. Pending = {}
    BY <1>1 DEF Pending
  <2> QED
    BY <2>1, FS_EmptySet, DaemonAssumption DEF Init, CountInv
<1>6. RunInv
  <2>1. restarts \in 0..MaxRestarts
    BY DaemonAssumption DEF Init
  <2>2. overlapped \in BOOLEAN
    BY Zenon DEF Init
  <2> QED
    BY <2>1, <2>2 DEF RunInv
<1> QED
  BY <1>2, <1>3, <1>4, <1>5, <1>6 DEF IInv

\* Every step keeps it.
LEMMA IInvStep == IInv /\ [Next]_vars => IInv'
<1> SUFFICES ASSUME IInv, [Next]_vars PROVE IInv'
  OBVIOUS
<1>1. ASSUME NEW c \in Conns, Receive(c) PROVE IInv'
  BY <1>1, ReceiveStep
<1>2. ASSUME NEW c \in Conns, Step(c) PROVE IInv'
  BY <1>2, InsertSlotStep, PersistStep, EngineSetStep, LockForAuditStep, LogCreatedStep, GetStep, DelStep,
     TransitionStep, LogTransitionStep DEF Step
<1>3. ASSUME NEW k \in Keys, Evict(k) PROVE IInv'
  BY <1>3, EvictStep
<1>4. CASE Restart
  BY <1>4, RestartStep
<1>5. CASE UNCHANGED vars
  BY <1>5 DEF vars, stores, history, IInv, ConnInv, LockInv, SlotInv, EngineInv, MadeInv, PersistInv, BundlesReal,
              StoreInv, CountInv, Pending, RunInv, At, Arg, has_valid_fingerprint, slot_to_bundle
<1> QED
  BY <1>1, <1>2, <1>3, <1>4, <1>5 DEF Next

\* Every reachable state of the daemon satisfies it.
THEOREM Invariance == Spec => []IInv
BY IInvInit, IInvStep, PTL DEF Spec

-----------------------------------------------------------------------------
(* Theorems.                                                               *)

\* The stores stay within their types, the registry's lock excludes, and no
\* more bundles are counted than commands were sent.
THEOREM TypeCorrect == Spec => []TypeOK
<1>1. IInv => TypeOK
  <2> SUFFICES ASSUME IInv PROVE TypeOK
    OBVIOUS
  <2>1. count \in 0..MaxCommands /\ issued \in 0..MaxCommands
    <3>1. Cardinality(Pending) \in Nat
      BY FS_CardinalityType DEF IInv, CountInv
    <3> QED
      BY <3>1, DaemonAssumption DEF IInv, CountInv
  <2>2. writer # {} => readers = {} /\ Cardinality(writer) = 1
    BY FS_Singleton DEF IInv, LockInv
  <2> QED
    BY <2>1, <2>2 DEF IInv, TypeOK, ConnInv, LockInv, EngineInv, SlotInv, StoreInv, RunInv
<1> QED
  BY <1>1, Invariance, PTL

\* Whatever SETs overlap and whatever fails, a bundle is of one single SET
\* (daemon.rs:715-726).
THEOREM BundlesAlwaysReal == Spec => []BundlesReal
BY Invariance, PTL DEF IInv

\* What ContentStore::put reported stored is there after any number of kills
\* (content_store.rs:27-40).
THEOREM DurableAlwaysKept == Spec => []DurableKept
<1>1. IInv => DurableKept
  BY DEF IInv, StoreInv, DurableKept
<1> QED
  BY <1>1, Invariance, PTL
-----------------------------------------------------------------------------
(* Registry and log, until the first kill: an artifact's number is in one  *)
(* slot at most, ends once at most, and its end is in the log once, but    *)
(* for the one whose handler still holds the write lock.                   *)

IdInv ==
    /\ \A k \in DOMAIN slots : slots[k].id \in 1..Cardinality(made)
    /\ \A k, l \in DOMAIN slots : slots[k].id = slots[l].id => k = l
    /\ \A e \in ended : e.id \in 1..Cardinality(made) /\ e.from = "Active" /\ e.to \in {"Revoked", "Superseded"}
    /\ \A e, f \in ended : e.id = f.id => e = f

\* The artifact's end is not in the log yet.
BeingLogged(e) == \E c \in Conns : At(c, "LogTransition") /\ slots[Arg(c).key].id = e.id

Logged == {audit[i] : i \in DOMAIN audit}
LogInv ==
    /\ audit \in Seq(Logged)
    /\ \A i \in Transitions : \E e \in ended : Records(i, e)
    /\ \A c \in Conns : At(c, "LogTransition") => \E e \in ended : e.id = slots[Arg(c).key].id
    /\ \A e \in ended : BeingLogged(e) => \A i \in Transitions : audit[i].id # e.id
    /\ \A e \in ended : ~BeingLogged(e) /\ ~AuditErrors =>
          \E i \in Transitions : Records(i, e) /\ \A j \in Transitions : audit[j].id = e.id => j = i

RegistryInv == IdInv /\ TerminalIsFinal /\ SlotPersisted /\ LogInv
FirstRun == restarts = 0 => RegistryInv

\* An append adds an event behind the others.
LEMMA AppendShape ==
    ASSUME audit \in Seq(Logged), NEW event, audit' = Append(audit, event)
    PROVE  /\ audit' \in Seq(Logged')
           /\ DOMAIN audit = 1..Len(audit) /\ Len(audit) \in Nat
           /\ DOMAIN audit' = 1..(Len(audit) + 1)
           /\ audit'[Len(audit) + 1] = event
           /\ \A i \in DOMAIN audit : audit'[i] = audit[i]
<1>1. audit \in Seq(Logged \cup {event})
  <2>1. Logged \subseteq Logged \cup {event}
    OBVIOUS
  <2> HIDE DEF Logged
  <2> QED
    BY <2>1
<1>2. /\ DOMAIN audit = 1..Len(audit) /\ Len(audit) \in Nat
      /\ DOMAIN audit' = 1..(Len(audit) + 1)
      /\ audit'[Len(audit) + 1] = event
      /\ \A i \in DOMAIN audit : audit'[i] = audit[i]
  BY <1>1
<1>3. audit' \in Seq(Logged \cup {event})
  BY <1>1
<1>4. Logged' = Logged \cup {event}
  BY <1>2 DEF Logged
<1> QED
  BY <1>2, <1>3, <1>4

\* An append that is none of a transition.
LEMMA OrdinaryAppend ==
    ASSUME LogInv, NEW event, event.type # "StateTransition", Log(event), UNCHANGED <<slots, ended>>,
           \A e \in ended : BeingLogged(e)' <=> BeingLogged(e),
           \A c \in Conns : At(c, "LogTransition")' => At(c, "LogTransition") /\ Arg(c)' = Arg(c)
    PROVE  LogInv'
<1>1. CASE audit' = audit
  BY <1>1 DEF LogInv, Logged, Transitions, Records
<1>2. CASE audit' = Append(audit, event)
  <2>1. /\ audit' \in Seq(Logged')
        /\ DOMAIN audit = 1..Len(audit) /\ Len(audit) \in Nat
        /\ DOMAIN audit' = 1..(Len(audit) + 1)
        /\ audit'[Len(audit) + 1] = event
        /\ \A i \in DOMAIN audit : audit'[i] = audit[i]
    BY <1>2, AppendShape DEF LogInv
  <2>2. Transitions' = Transitions /\ \A i \in Transitions : audit'[i] = audit[i]
    BY <2>1 DEF Transitions
  <2>3. \A i \in Transitions, e \in ended : Records(i, e)' <=> Records(i, e)
    BY <2>2 DEF Records
  <2> QED
    BY <2>1, <2>2, <2>3 DEF LogInv
<1> QED
  BY <1>1, <1>2 DEF Log

\* A step that leaves registry and transitions alone.
LEMMA QuietStep ==
    ASSUME RegistryInv, NEW c \in Conns, \A d \in Conns \ {c} : conn'[d] = conn[d],
           ~At(c, "LogTransition"), ~At(c, "LogTransition")', UNCHANGED <<slots, made, ended>>,
           audit' = audit \/ \E type \in {"EntryCreated", "EntryDeleted", "FullyVerified", "VerificationFailed"},
                               id \in {0, slots[Arg(c).key].id} : Log(Event(type, Arg(c).key, id)),
           store \subseteq store',
           At(c, "Persist") /\ Arg(c).key \in DOMAIN slots /\ has_valid_fingerprint(slots[Arg(c).key])
              => slot_to_bundle(slots[Arg(c).key]) \in store'
    PROVE  RegistryInv'
<1>1. IdInv' /\ TerminalIsFinal'
  BY DEF RegistryInv, IdInv, TerminalIsFinal
<1>2. /\ \A e \in ended : BeingLogged(e)' <=> BeingLogged(e)
      /\ \A d \in Conns : At(d, "LogTransition")' => At(d, "LogTransition") /\ Arg(d)' = Arg(d)
  BY DEF BeingLogged, At, Arg
<1>3. LogInv'
  <2>1. CASE audit' = audit
    BY <1>2, <2>1 DEF RegistryInv, LogInv, Logged, Transitions, Records
  <2>2. CASE audit' # audit
    <3>1. PICK event : event.type # "StateTransition" /\ Log(event)
      BY <2>2 DEF Event
    <3> QED
      BY <1>2, <3>1, OrdinaryAppend DEF RegistryInv
  <2> QED
    BY <2>1, <2>2
<1>4. SlotPersisted'
  <2> SUFFICES ASSUME NEW k \in DOMAIN slots \cap Keys, has_valid_fingerprint(slots[k]),
                      slot_to_bundle(slots[k]) \notin store'
               PROVE  Busy(k, {"Persist"})'
    BY DEF SlotPersisted, slot_to_bundle, has_valid_fingerprint
  <2>1. PICK d \in Conns : conn[d].pc = "Persist" /\ Arg(d).key = k
    BY DEF RegistryInv, SlotPersisted, Busy
  <2>2. d # c
    BY <2>1 DEF At
  <2> QED
    BY <2>1, <2>2 DEF Busy, Arg
<1> QED
  BY <1>1, <1>3, <1>4 DEF RegistryInv

\* The artifact a SET registers has a new number, and its SET is about to persist it.
LEMMA InsertSlotRegistry ==
    ASSUME IInv, RegistryInv, NEW c \in Conns, InsertSlot(c) PROVE RegistryInv'
<1> DEFINE slot == NewSlot(Cardinality(made) + 1, Arg(c).value, parse_fingerprint(Arg(c).fp))
           key == Arg(c).key
<1>1. /\ At(c, "SET") /\ writer = {} /\ slots' = Put(slots, key, slot) /\ made' = made \cup {slot}
      /\ UNCHANGED <<store, audit, ended>> /\ Goto(c, "Persist")
  BY DEF InsertSlot, CanWrite
<1>2. Moves(c) /\ conn'[c].pc = "Persist" /\ conn'[c].req = conn[c].req
  BY <1>1, GotoMoves DEF IInv, At, SetPlaces, OtherPlaces
<1>3. Cardinality(made) \in Nat
  BY FS_CardinalityType DEF IInv, MadeInv
<1>4. slot.id = Cardinality(made) + 1
  BY DEF NewSlot
<1> HIDE DEF slot, key
<1>5. /\ DOMAIN slots' = DOMAIN slots \cup {key} /\ slots'[key] = slot
      /\ \A j \in DOMAIN slots \ {key} : slots'[j] = slots[j]
  BY <1>1 DEF Put
<1>6. Cardinality(made') = Cardinality(made) + 1
  <2>1. slot \notin made
    BY <1>3, <1>4 DEF IInv, MadeInv
  <2> QED
    BY <1>1, <2>1, FS_AddElement DEF IInv, MadeInv
<1>7. \A d \in Conns : ~At(d, "LogTransition") /\ ~At(d, "LogTransition")'
  BY <1>1, <1>2 DEF IInv, LockInv, At, Moves
<1>8. IdInv'
  <2>1. \A k \in DOMAIN slots' : slots'[k].id \in 1..(Cardinality(made) + 1)
    BY <1>3, <1>4, <1>5 DEF RegistryInv, IdInv
  <2>2. \A k, l \in DOMAIN slots' : slots'[k].id = slots'[l].id => k = l
    BY <1>3, <1>4, <1>5 DEF RegistryInv, IdInv
  <2>3. \A e \in ended : e.id \in 1..(Cardinality(made) + 1) /\ e.from = "Active" /\ e.to \in {"Revoked", "Superseded"}
    BY <1>3 DEF RegistryInv, IdInv
  <2> QED
    BY <1>1, <1>6, <2>1, <2>2, <2>3 DEF RegistryInv, IdInv
<1>9. TerminalIsFinal'
  <2>1. \A e \in ended : e.id # slot.id
    BY <1>3, <1>4 DEF RegistryInv, IdInv
  <2> QED
    BY <1>1, <1>5, <2>1 DEF RegistryInv, TerminalIsFinal
<1>10. LogInv'
  <2>1. \A e \in ended : ~BeingLogged(e) /\ ~BeingLogged(e)'
    BY <1>7 DEF BeingLogged
  <2> QED
    BY <1>1, <1>7, <2>1 DEF RegistryInv, LogInv, Logged, Transitions, Records
<1>11. SlotPersisted'
  <2> SUFFICES ASSUME NEW k \in DOMAIN slots' \cap Keys, has_valid_fingerprint(slots'[k]),
                      slot_to_bundle(slots'[k]) \notin store
               PROVE  Busy(k, {"Persist"})'
    BY <1>1 DEF SlotPersisted, slot_to_bundle, has_valid_fingerprint
  <2>1. CASE k = key
    BY <1>2, <2>1 DEF Busy, Arg, key
  <2>2. CASE k # key
    <3>1. PICK d \in Conns : conn[d].pc = "Persist" /\ Arg(d).key = k
      BY <1>5, <2>2 DEF RegistryInv, SlotPersisted, Busy
    <3> QED
      BY <1>1, <1>2, <3>1 DEF Busy, Arg, Moves, At
  <2> QED
    BY <2>1, <2>2
<1> QED
  BY <1>8, <1>9, <1>10, <1>11 DEF RegistryInv

\* A deletion takes a slot away; what its artifact ended in stays in the log.
LEMMA RemoveSlotRegistry ==
    ASSUME IInv, RegistryInv, NEW c \in Conns, RemoveSlot(c) PROVE RegistryInv'
<1>1. /\ At(c, "RemoveSlot") /\ writer = {} /\ slots' = Drop(slots, Arg(c).key)
      /\ UNCHANGED <<store, audit, made, ended>>
      /\ Goto(c, "LogDeleted") \/ Reply(c)
  BY DEF RemoveSlot, CanWrite, history
<1>2. Moves(c) /\ conn'[c].pc \in {"LogDeleted", "Idle"}
  BY <1>1, GotoMoves, ReplyMoves DEF IInv, At, SetPlaces, OtherPlaces
<1>3. DOMAIN slots' \subseteq DOMAIN slots /\ \A k \in DOMAIN slots' : slots'[k] = slots[k]
  BY <1>1 DEF Drop
<1>4. \A d \in Conns : ~At(d, "LogTransition") /\ ~At(d, "LogTransition")'
  BY <1>1, <1>2 DEF IInv, LockInv, At, Moves
<1>5. IdInv' /\ TerminalIsFinal'
  BY <1>1, <1>3 DEF RegistryInv, IdInv, TerminalIsFinal
<1>6. LogInv'
  <2>1. \A e \in ended : ~BeingLogged(e) /\ ~BeingLogged(e)'
    BY <1>4 DEF BeingLogged
  <2> QED
    BY <1>1, <1>4, <2>1 DEF RegistryInv, LogInv, Logged, Transitions, Records
<1>7. SlotPersisted'
  <2> SUFFICES ASSUME NEW k \in DOMAIN slots' \cap Keys, has_valid_fingerprint(slots'[k]),
                      slot_to_bundle(slots'[k]) \notin store
               PROVE  Busy(k, {"Persist"})'
    BY <1>1 DEF SlotPersisted, slot_to_bundle, has_valid_fingerprint
  <2>1. PICK d \in Conns : conn[d].pc = "Persist" /\ Arg(d).key = k
    BY <1>3 DEF RegistryInv, SlotPersisted, Busy
  <2> QED
    BY <1>1, <1>2, <2>1 DEF Busy, Arg, Moves, At
<1> QED
  BY <1>5, <1>6, <1>7 DEF RegistryInv

\* A transition ends an artifact that had not ended, and is about to be logged.
LEMMA TransitionRegistry ==
    ASSUME IInv, RegistryInv, NEW c \in Conns, Transition(c) PROVE RegistryInv'
<1> DEFINE key == Arg(c).key
           new == NewState(Arg(c))
<1>0. PICK e0 : e0 = [id |-> slots[key].id, from |-> slots[key].state[1], to |-> new[1]]
  OBVIOUS
<1>1. /\ At(c, "INVALIDATE") \/ At(c, "SUPERSEDE")
      /\ writer = {} /\ UNCHANGED <<store, audit, made>>
      /\ \/ /\ key \in DOMAIN slots /\ TransitionLegal(slots[key], new) /\ ended' = ended \cup {e0}
            /\ slots' = [slots EXCEPT ![key].state = new] /\ Goto(c, "LogTransition")
         \/ UNCHANGED <<slots, ended>> /\ Reply(c)
  BY <1>0 DEF Transition, CanWrite, Found
<1>2. CASE UNCHANGED <<slots, ended>> /\ Reply(c)
  <2>1. Moves(c) /\ conn'[c].pc = "Idle"
    BY <1>2, ReplyMoves DEF IInv
  <2> QED
    BY <1>1, <1>2, <2>1, QuietStep DEF Moves, At
<1>3. CASE /\ key \in DOMAIN slots /\ TransitionLegal(slots[key], new) /\ ended' = ended \cup {e0}
           /\ slots' = [slots EXCEPT ![key].state = new] /\ Goto(c, "LogTransition")
  <2>1. Moves(c) /\ conn'[c].pc = "LogTransition" /\ conn'[c].req = conn[c].req
    BY <1>1, <1>3, GotoMoves DEF IInv, At, SetPlaces, OtherPlaces
  <2>2. slots[key].state[1] = "Active" /\ new[1] \in {"Revoked", "Superseded"}
    BY <1>3 DEF TransitionLegal
  <2>3. e0.id = slots[key].id /\ e0.from = "Active" /\ e0.to = new[1]
    BY <1>0, <2>2
  <2> HIDE DEF new
  <2>4. /\ DOMAIN slots' = DOMAIN slots
        /\ \A k \in DOMAIN slots \ {key} : slots'[k] = slots[k]
        /\ slots'[key].state = new /\ \A k \in DOMAIN slots : slots'[k].id = slots[k].id
        /\ slots'[key].value = slots[key].value /\ slots'[key].fp = slots[key].fp
    BY <1>3 DEF IInv, SlotInv
  <2>5. \A e \in ended : e.id # e0.id
    BY <1>3, <2>2, <2>3 DEF RegistryInv, TerminalIsFinal, IdInv
  <2>6. IdInv'
    BY <1>1, <1>3, <2>2, <2>3, <2>4, <2>5 DEF RegistryInv, IdInv
  <2>7. TerminalIsFinal'
    <3> SUFFICES ASSUME NEW k \in DOMAIN slots, NEW e \in ended', slots'[k].id = e.id
                 PROVE  slots'[k].state[1] = e.to
      BY <2>4 DEF TerminalIsFinal
    <3>1. CASE e = e0
      BY <1>3, <2>3, <2>4, <3>1 DEF RegistryInv, IdInv
    <3>2. CASE e \in ended
      BY <1>3, <2>3, <2>4, <2>5, <3>2 DEF RegistryInv, TerminalIsFinal
    <3> QED
      BY <1>3, <3>1, <3>2
  <2>8. \A d \in Conns : ~At(d, "LogTransition") /\ (At(d, "LogTransition")' <=> d = c)
    BY <1>1, <2>1 DEF IInv, LockInv, At, Moves
  <2>9. /\ \A e \in ended : ~BeingLogged(e) /\ ~BeingLogged(e)'
        /\ BeingLogged(e0)'
    <3>1. conn'[c].req.key = key
      BY <2>1 DEF Arg, key
    <3> QED
      BY <1>3, <2>3, <2>4, <2>5, <2>8, <3>1 DEF BeingLogged, Arg
  <2>10. LogInv'
    <3>1. audit' \in Seq(Logged') /\ Transitions' = Transitions
          /\ \A i, e : Records(i, e)' <=> Records(i, e)
      BY <1>1 DEF RegistryInv, LogInv, Logged, Transitions, Records
    <3>2. \A i \in Transitions : \E e \in ended' : Records(i, e)
      BY <1>3 DEF RegistryInv, LogInv
    <3>3. \A d \in Conns : At(d, "LogTransition")' => \E e \in ended' : e.id = slots'[Arg(d)'.key].id
      BY <1>3, <2>1, <2>3, <2>4, <2>8 DEF Arg, key
    <3>4. \A i \in Transitions : audit[i].id # e0.id
      BY <2>5 DEF RegistryInv, LogInv, Records
    <3>5. \A e \in ended : ~AuditErrors =>
            \E i \in Transitions : Records(i, e) /\ \A j \in Transitions : audit[j].id = e.id => j = i
      BY <2>9 DEF RegistryInv, LogInv
    <3> QED
      BY <1>1, <1>3, <2>9, <3>1, <3>2, <3>3, <3>4, <3>5 DEF LogInv
  <2>11. SlotPersisted'
    <3> SUFFICES ASSUME NEW k \in DOMAIN slots \cap Keys, has_valid_fingerprint(slots'[k]),
                        slot_to_bundle(slots'[k]) \notin store
                 PROVE  Busy(k, {"Persist"})'
      BY <1>1, <2>4 DEF SlotPersisted, slot_to_bundle, has_valid_fingerprint
    <3>1. has_valid_fingerprint(slots[k]) /\ slot_to_bundle(slots[k]) = slot_to_bundle(slots'[k])
      BY <2>4 DEF has_valid_fingerprint, slot_to_bundle
    <3>2. PICK d \in Conns : conn[d].pc = "Persist" /\ Arg(d).key = k
      BY <3>1 DEF RegistryInv, SlotPersisted, Busy
    <3> QED
      BY <1>1, <2>1, <3>2 DEF Busy, Arg, Moves, At
  <2> QED
    BY <2>6, <2>7, <2>10, <2>11 DEF RegistryInv
<1> QED
  BY <1>1, <1>2, <1>3

\* The append under the write lock records the transition, and no other.
LEMMA LogTransitionRegistry ==
    ASSUME IInv, RegistryInv, NEW c \in Conns, LogTransition(c) PROVE RegistryInv'
<1> DEFINE slot == slots[Arg(c).key]
           record == [type |-> "StateTransition", key |-> Arg(c).key, id |-> slot.id,
                      from |-> "Active", to |-> slot.state[1]]
<1>1. /\ At(c, "LogTransition") /\ Reply(c) /\ UNCHANGED <<slots, store, made, ended>>
      /\ audit' = Append(audit, record) \/ (AuditErrors /\ audit' = audit)
  BY DEF LogTransition, Log, history
<1>2. Moves(c) /\ conn'[c].pc = "Idle"
  BY <1>1, ReplyMoves DEF IInv
<1>3. IdInv' /\ TerminalIsFinal'
  BY <1>1 DEF RegistryInv, IdInv, TerminalIsFinal
<1>4. SlotPersisted'
  <2> SUFFICES ASSUME NEW k \in DOMAIN slots \cap Keys, has_valid_fingerprint(slots[k]),
                      slot_to_bundle(slots[k]) \notin store
               PROVE  Busy(k, {"Persist"})'
    BY <1>1 DEF SlotPersisted, slot_to_bundle, has_valid_fingerprint
  <2>1. PICK d \in Conns : conn[d].pc = "Persist" /\ Arg(d).key = k
    BY DEF RegistryInv, SlotPersisted, Busy
  <2> QED
    BY <1>1, <1>2, <2>1 DEF Busy, Arg, Moves, At
<1>5. \A d \in Conns : (At(d, "LogTransition") <=> d = c) /\ ~At(d, "LogTransition")'
  BY <1>1, <1>2 DEF IInv, LockInv, At, Moves
<1>6. PICK e0 \in ended : e0.id = slot.id
  BY <1>1 DEF RegistryInv, LogInv
<1>7. e0.from = "Active" /\ e0.to = slot.state[1]
  BY <1>1, <1>6 DEF RegistryInv, IdInv, TerminalIsFinal, IInv, LockInv, At
<1>8. /\ \A e \in ended : ~BeingLogged(e)' /\ (BeingLogged(e) <=> e = e0)
  BY <1>1, <1>5, <1>6 DEF BeingLogged, RegistryInv, IdInv
<1>9. LogInv'
  <2>1. CASE audit' = audit /\ AuditErrors
    BY <1>1, <1>5, <1>8, <2>1 DEF RegistryInv, LogInv, Logged, Transitions, Records
  <2>2. CASE audit' = Append(audit, record)
    <3>0. PICK n : n = Len(audit) + 1
      OBVIOUS
    <3>1. /\ audit' \in Seq(Logged')
          /\ DOMAIN audit = 1..Len(audit) /\ Len(audit) \in Nat
          /\ DOMAIN audit' = 1..n /\ audit'[n] = record
          /\ \A i \in DOMAIN audit : audit'[i] = audit[i]
      BY <2>2, <3>0, AppendShape DEF RegistryInv, LogInv
    <3>2. record.type = "StateTransition" /\ record.id = e0.id /\ record.from = e0.from /\ record.to = e0.to
      BY <1>6, <1>7
    <3> HIDE DEF record
    <3>3. Transitions' = Transitions \cup {n} /\ n \notin Transitions /\ Transitions \subseteq DOMAIN audit
      BY <3>0, <3>1, <3>2 DEF Transitions
    <3>4. /\ \A i \in Transitions, e \in ended : Records(i, e)' <=> Records(i, e)
          /\ Records(n, e0)'
      BY <3>1, <3>2, <3>3 DEF Records
    <3>5. \A i \in Transitions' : \E e \in ended : Records(i, e)'
      BY <3>3, <3>4 DEF RegistryInv, LogInv
    <3>6. \A i \in Transitions : audit'[i].id = audit[i].id /\ audit[i].id # e0.id
      BY <1>8, <3>1, <3>3 DEF RegistryInv, LogInv
    <3>7. ASSUME NEW e \in ended, ~AuditErrors
          PROVE  \E i \in Transitions' : Records(i, e)' /\ \A j \in Transitions' : audit'[j].id = e.id => j = i
      <4>1. CASE e = e0
        BY <3>3, <3>4, <3>6, <4>1
      <4>2. CASE e # e0
        <5>1. e.id # audit'[n].id
          BY <3>1, <3>2, <4>2 DEF RegistryInv, IdInv
        <5> QED
          BY <1>8, <3>3, <3>4, <3>6, <3>7, <4>2, <5>1 DEF RegistryInv, LogInv
      <4> QED
        BY <4>1, <4>2
    <3> QED
      BY <1>1, <1>5, <1>8, <3>1, <3>5, <3>7 DEF LogInv
  <2> QED
    BY <1>1, <2>1, <2>2
<1> QED
  BY <1>3, <1>4, <1>9 DEF RegistryInv

\* The steps that leave registry and transitions alone.
LEMMA QuietSteps ==
    ASSUME IInv, RegistryInv, NEW c \in Conns,
           \/ Receive(c) \/ PersistBundle(c) \/ EngineSet(c) \/ LockForAudit(c) \/ LogCreated(c)
           \/ GetValue(c) \/ GetSlot(c) \/ LogRead(c) \/ EngineDelete(c) \/ LogDeleted(c)
    PROVE  RegistryInv'
<1>0. DOMAIN conn = Conns
  BY DEF IInv, ConnInv
<1>1. CASE Receive(c)
  <2>1. PICK r \in Requests : conn' = [conn EXCEPT ![c] = [pc |-> r.cmd, req |-> r]]
    BY <1>1 DEF Receive
  <2>2. r.cmd # "LogTransition" /\ conn'[c].pc = r.cmd /\ \A d \in Conns \ {c} : conn'[d] = conn[d]
    BY <1>0, <2>1 DEF Requests
  <2> QED
    BY <1>1, <2>2, QuietStep DEF Receive, At, stores
<1>2. CASE PersistBundle(c)
  <2>1. /\ At(c, "Persist") /\ Goto(c, "EngineSet") /\ UNCHANGED <<slots, audit, made, ended>>
        /\ \/ Arg(c).key \in DOMAIN slots /\ has_valid_fingerprint(slots[Arg(c).key])
              /\ store' = store \cup {slot_to_bundle(slots[Arg(c).key])}
           \/ ~(Arg(c).key \in DOMAIN slots /\ has_valid_fingerprint(slots[Arg(c).key])) /\ store' = store
    BY <1>2 DEF PersistBundle, put
  <2>2. conn'[c].pc = "EngineSet" /\ \A d \in Conns \ {c} : conn'[d] = conn[d]
    BY <1>0, <2>1 DEF Goto
  <2> QED
    BY <2>1, <2>2, QuietStep DEF At
<1>3. CASE EngineSet(c)
  <2>1. conn'[c].pc = "LockForAudit" /\ \A d \in Conns \ {c} : conn'[d] = conn[d]
    BY <1>0, <1>3 DEF EngineSet, Goto
  <2> QED
    BY <1>3, <2>1, QuietStep DEF EngineSet, At, history
<1>4. CASE LockForAudit(c)
  <2>1. conn'[c].pc \in {"LogCreated", "Idle"} /\ \A d \in Conns \ {c} : conn'[d] = conn[d]
    <3>1. Goto(c, "LogCreated") \/ Reply(c)
      BY <1>4 DEF LockForAudit
    <3>2. CASE Goto(c, "LogCreated")
      BY <1>0, <3>2 DEF Goto
    <3>3. CASE Reply(c)
      BY <1>0, <3>3 DEF Reply, Idle
    <3> QED
      BY <3>1, <3>2, <3>3
  <2> QED
    BY <1>4, <2>1, QuietStep DEF LockForAudit, At, stores, history
<1>5. CASE LogCreated(c)
  <2>1. conn'[c].pc = "Idle" /\ \A d \in Conns \ {c} : conn'[d] = conn[d]
    BY <1>0, <1>5 DEF LogCreated, Reply, Idle
  <2> QED
    BY <1>5, <2>1, QuietStep DEF LogCreated, At, history
<1>6. CASE GetValue(c) \/ GetSlot(c)
  <2>1. /\ conn'[c].pc \in {"GetSlot", "LogRead", "Idle"} /\ \A d \in Conns \ {c} : conn'[d] = conn[d]
        /\ conn[c].pc \in {"GETVERIFIED", "GetSlot"} /\ UNCHANGED <<stores, history>>
    <3>1. CASE GetValue(c)
      <4>1. CASE Arg(c).key \in DOMAIN engine
        BY <1>0, <3>1, <4>1 DEF GetValue, At
      <4>2. CASE Arg(c).key \notin DOMAIN engine
        BY <1>0, <3>1, <4>2 DEF GetValue, At, Reply, Idle
      <4> QED
        BY <4>1, <4>2
    <3>2. CASE GetSlot(c)
      <4> DEFINE next == [pc |-> "LogRead", req |-> Arg(c), value |-> conn[c].value,
                          slot |-> IF Arg(c).key \in DOMAIN slots THEN {slots[Arg(c).key]} ELSE {},
                          verification |-> IF Arg(c).key \in DOMAIN slots
                                           THEN Verification(slots[Arg(c).key]) ELSE "Unverified"]
      <4>1. next.pc = "LogRead" /\ conn' = [conn EXCEPT ![c] = next]
        BY <3>2 DEF GetSlot
      <4> HIDE DEF next
      <4> QED
        BY <1>0, <3>2, <4>1 DEF GetSlot, At
    <3> QED
      BY <1>6, <3>1, <3>2
  <2> QED
    BY <2>1, QuietStep DEF At, stores, history
<1>7. CASE LogRead(c)
  <2>1. conn'[c].pc = "Idle" /\ \A d \in Conns \ {c} : conn'[d] = conn[d]
    BY <1>0, <1>7 DEF LogRead, Reply, Idle
  <2> QED
    BY <1>7, <2>1, QuietStep DEF LogRead, At, history
<1>8. CASE EngineDelete(c)
  <2>1. conn'[c].pc = "RemoveSlot" /\ \A d \in Conns \ {c} : conn'[d] = conn[d]
    BY <1>0, <1>8 DEF EngineDelete
  <2> QED
    BY <1>8, <2>1, QuietStep DEF EngineDelete, At, history
<1>9. CASE LogDeleted(c)
  <2>1. conn'[c].pc = "Idle" /\ \A d \in Conns \ {c} : conn'[d] = conn[d]
    BY <1>0, <1>9 DEF LogDeleted, Reply, Idle
  <2> QED
    BY <1>9, <2>1, QuietStep DEF LogDeleted, At, history
<1> QED
  BY <1>1, <1>2, <1>3, <1>4, <1>5, <1>6, <1>7, <1>8, <1>9

\* Nothing is registered or logged at first.
LEMMA FirstRunInit == Init => FirstRun
<1> SUFFICES ASSUME Init PROVE RegistryInv
  BY DEF FirstRun
<1>1. \A c \in Conns : ~At(c, "LogTransition")
  BY DEF Init, At, Idle
<1>2. IdInv /\ TerminalIsFinal /\ SlotPersisted
  BY DEF Init, IdInv, TerminalIsFinal, SlotPersisted
<1>3. LogInv
  <2>1. audit \in Seq(Logged)
    BY DEF Init
  <2>2. Transitions = {}
    BY DEF Init, Transitions
  <2> QED
    BY <1>1, <2>1, <2>2 DEF Init, LogInv
<1> QED
  BY <1>2, <1>3 DEF RegistryInv

\* Until a kill, every step keeps registry and log in step.
LEMMA FirstRunStep == IInv /\ FirstRun /\ [Next]_vars => FirstRun'
<1> SUFFICES ASSUME IInv, FirstRun, [Next]_vars, restarts' = 0 PROVE RegistryInv'
  BY DEF FirstRun
<1>1. CASE Restart
  <2>1. restarts \in Nat /\ restarts' = restarts + 1
    BY <1>1, DaemonAssumption DEF Restart, IInv, RunInv
  <2> QED
    BY <2>1
<1>2. ASSUME restarts' = restarts PROVE RegistryInv
  BY <1>2 DEF FirstRun
<1>3. ASSUME NEW c \in Conns, Receive(c) PROVE RegistryInv'
  <2>1. restarts' = restarts
    BY <1>3 DEF Receive
  <2> QED
    BY <1>2, <1>3, <2>1, QuietSteps
<1>4. ASSUME NEW c \in Conns, Step(c) PROVE RegistryInv'
  <2>1. restarts' = restarts
    BY <1>4 DEF Step, InsertSlot, PersistBundle, EngineSet, LockForAudit, LogCreated, GetValue, GetSlot,
                LogRead, EngineDelete, RemoveSlot, LogDeleted, Transition, LogTransition, history
  <2> QED
    BY <1>2, <1>4, <2>1, QuietSteps, InsertSlotRegistry, RemoveSlotRegistry, TransitionRegistry,
       LogTransitionRegistry DEF Step
<1>5. CASE UNCHANGED <<slots, audit, ended, made, store, conn, restarts>>
  <2>1. IdInv' /\ TerminalIsFinal'
    BY <1>2, <1>5 DEF RegistryInv, IdInv, TerminalIsFinal
  <2>2. SlotPersisted'
    BY <1>2, <1>5 DEF RegistryInv, SlotPersisted, Busy, Arg, slot_to_bundle, has_valid_fingerprint
  <2>3. LogInv'
    BY <1>2, <1>5 DEF RegistryInv, LogInv, Logged, Transitions, Records, BeingLogged, At, Arg
  <2> QED
    BY <2>1, <2>2, <2>3 DEF RegistryInv
<1>6. ASSUME NEW k \in Keys, Evict(k) PROVE UNCHANGED <<slots, audit, ended, made, store, conn, restarts>>
  BY <1>6 DEF Evict, history
<1>7. UNCHANGED vars => UNCHANGED <<slots, audit, ended, made, store, conn, restarts>>
  BY DEF vars, stores, history
<1> QED
  BY <1>1, <1>3, <1>4, <1>5, <1>6, <1>7 DEF Next

\* From the start of the daemon to the first kill.
THEOREM RegistryInvariance == Spec => [](IInv /\ FirstRun)
<1>1. Init => IInv /\ FirstRun
  BY IInvInit, FirstRunInit
<1>2. IInv /\ FirstRun /\ [Next]_vars => (IInv /\ FirstRun)'
  BY IInvStep, FirstRunStep
<1> QED
  BY <1>1, <1>2, PTL DEF Spec

\* A revoked or superseded artifact stays so (cache_slot.rs:197) for as long as
\* the daemon lives; a cold start revives it (the run daemon_revival).
THEOREM TerminalStaysFinal == Spec => [](restarts = 0 => TerminalIsFinal)
<1>1. FirstRun => (restarts = 0 => TerminalIsFinal)
  BY DEF FirstRun, RegistryInv
<1> QED
  BY <1>1, RegistryInvariance, PTL

\* A slot with a fingerprint has its bundle in the content store, or a SET of
\* its key is about to put it there (daemon.rs:711-726).
THEOREM SlotsArePersisted == Spec => [](restarts = 0 => SlotPersisted)
<1>1. FirstRun => (restarts = 0 => SlotPersisted)
  BY DEF FirstRun, RegistryInv
<1> QED
  BY <1>1, RegistryInvariance, PTL

\* Between handlers of the write lock, the log holds every transition exactly
\* once and no other (daemon.rs:833-846).
THEOREM TransitionsAreRecorded == Spec => [](restarts = 0 => TransitionsRecorded)
<1>1. IInv /\ RegistryInv => TransitionsRecorded
  <2> SUFFICES ASSUME IInv, RegistryInv, writer = {}, ~AuditErrors, NEW e \in ended
               PROVE  Cardinality({i \in Transitions : Records(i, e)}) = 1
    BY DEF TransitionsRecorded, RegistryInv, LogInv
  <2>1. ~BeingLogged(e)
    BY DEF IInv, LockInv, BeingLogged
  <2>2. PICK i \in Transitions : Records(i, e) /\ \A j \in Transitions : audit[j].id = e.id => j = i
    BY <2>1 DEF RegistryInv, LogInv
  <2>3. {j \in Transitions : Records(j, e)} = {i}
    BY <2>2 DEF Records
  <2> QED
    BY <2>3, FS_Singleton
<1>2. IInv /\ FirstRun => (restarts = 0 => TransitionsRecorded)
  BY <1>1 DEF FirstRun
<1> QED
  BY <1>2, RegistryInvariance, PTL

-----------------------------------------------------------------------------
(* One command at a time, and nothing fails.  Between the steps of the     *)
(* command under way the stores may differ, for its own key alone, where   *)
(* the handler is about to write the one that is behind.                   *)

TakingTurns == ~overlapped /\ restarts = 0 /\ ~AuditErrors /\ ~StoreErrors

OneCommand == \A c, d \in Conns : ~At(c, "Idle") /\ ~At(d, "Idle") => c = d

\* The last event of k in the log tells its present entry.
IsLast(i, k) == i \in EventsOf(k) /\ \A j \in EventsOf(k) : j <= i
Replays(k) ==
    IF k \in DOMAIN slots
    THEN \E i \in DOMAIN audit :
            /\ IsLast(i, k)
            /\ audit[i].id = slots[k].id
            /\ slots[k].state[1] = IF audit[i].type = "StateTransition" THEN audit[i].to ELSE "Active"
    ELSE EventsOf(k) = {} \/ \E i \in DOMAIN audit : IsLast(i, k) /\ audit[i].type = "EntryDeleted"

\* Where the log, or the engine, is behind the registry.
Unlogged == {"Persist", "EngineSet", "LockForAudit", "LogCreated", "LogDeleted", "LogTransition"}
Unset == {"Persist", "EngineSet"}

PairOK(k) == k \in DOMAIN engine => engine[k] = slots[k].value
ValueKept(k) == Evictions \/ k \in DOMAIN engine
LogOK(k) == Evictions \/ Replays(k)

\* What the command under way has done to its own key.
PlaceOK(c) ==
    /\ conn[c].pc \in {"Persist", "EngineSet", "LockForAudit", "LogCreated"} =>
          /\ Arg(c).key \in DOMAIN slots
          /\ slots[Arg(c).key].value = Arg(c).value /\ slots[Arg(c).key].state[1] = "Active"
    /\ At(c, "Persist") => \A b \in store : b.id # slots[Arg(c).key].id
    /\ At(c, "RemoveSlot") => Evictions \/ conn[c].deleted \/ Arg(c).key \notin DOMAIN slots
    /\ At(c, "LogDeleted") => Arg(c).key \notin DOMAIN slots

TurnsInv ==
    /\ OneCommand /\ CountExact /\ DOMAIN slots \subseteq Keys
    /\ \A k \in DOMAIN slots :
          /\ PairOK(k) \/ Busy(k, Unset)
          /\ ValueKept(k) \/ Busy(k, Unset \cup {"RemoveSlot"})
    /\ \A k \in Keys : LogOK(k) \/ Busy(k, Unlogged)
    /\ \A c \in Conns : PlaceOK(c)

\* A number of a set that none of it exceeds is its last.
LEMMA Greatest ==
    ASSUME NEW S, NEW i \in S, \A j \in S : j \in Nat, \A j \in S : j <= i PROVE Last(S) = i
<1>1. \A j \in S : (\A l \in S : l <= j) => j = i
  OBVIOUS
<1>2. Last(S) \in S /\ \A j \in S : j <= Last(S)
  BY DEF Last
<1> QED
  BY <1>1, <1>2

\* A number is the last of k's if it is in the log and no later one is k's.
LEMMA LastUnique == ASSUME audit \in Seq(Logged), NEW k, NEW i, IsLast(i, k) PROVE Last(EventsOf(k)) = i
<1>1. \A j \in EventsOf(k) : j \in Nat
  BY DEF EventsOf
<1>2. i \in EventsOf(k) /\ \A j \in EventsOf(k) : j <= i
  BY DEF IsLast
<1> QED
  BY <1>1, <1>2, Greatest

\* With no command under way, everything has been made good.
LEMMA TurnsSuffice ==
    ASSUME audit \in Seq(Logged), TurnsInv
    PROVE  CountExact /\ PairConsistent /\ (~Evictions => LogReplays)
<1>1. CountExact
  BY DEF TurnsInv
<1>2. ASSUME Quiescent, NEW k, NEW pcs, "Idle" \notin pcs PROVE ~Busy(k, pcs)
  BY <1>2 DEF Quiescent, Busy, At
<1>3. PairConsistent
  <2> SUFFICES ASSUME Quiescent, NEW k \in DOMAIN slots \cap DOMAIN engine PROVE engine[k] = slots[k].value
    BY DEF PairConsistent
  <2>1. ~Busy(k, Unset)
    BY <1>2 DEF Unset
  <2> QED
    BY <2>1 DEF TurnsInv, PairOK
<1>4. ASSUME ~Evictions PROVE LogReplays
  <2> SUFFICES ASSUME Quiescent, NEW k \in Keys
               PROVE  LET last == audit[Last(EventsOf(k))]
                      IN  IF k \in DOMAIN slots
                          THEN /\ EventsOf(k) # {} /\ last.id = slots[k].id
                               /\ slots[k].state[1] =
                                    IF last.type = "StateTransition" THEN last.to ELSE "Active"
                          ELSE EventsOf(k) = {} \/ last.type = "EntryDeleted"
    BY DEF LogReplays
  <2>1. ~Busy(k, Unlogged)
    BY <1>2 DEF Unlogged
  <2>2. Replays(k)
    BY <1>4, <2>1 DEF TurnsInv, LogOK
  <2>3. CASE k \in DOMAIN slots
    <3>1. PICK i \in DOMAIN audit :
             /\ IsLast(i, k) /\ audit[i].id = slots[k].id
             /\ slots[k].state[1] = IF audit[i].type = "StateTransition" THEN audit[i].to ELSE "Active"
      BY <2>2, <2>3 DEF Replays
    <3>2. Last(EventsOf(k)) = i /\ EventsOf(k) # {}
      BY <3>1, LastUnique DEF IsLast
    <3> QED
      BY <2>3, <3>1, <3>2
  <2>4. CASE k \notin DOMAIN slots
    <3>1. CASE EventsOf(k) # {}
      <4>1. PICK i \in DOMAIN audit : IsLast(i, k) /\ audit[i].type = "EntryDeleted"
        BY <2>2, <2>4, <3>1 DEF Replays
      <4>2. Last(EventsOf(k)) = i
        BY <4>1, LastUnique
      <4> QED
        BY <2>4, <4>1, <4>2
    <3> QED
      BY <2>4, <3>1
  <2> QED
    BY <2>3, <2>4
<1> QED
  BY <1>1, <1>3, <1>4

\* An append that is not of k leaves what the log tells of k.
LEMMA AppendElsewhere ==
    ASSUME audit \in Seq(Logged), NEW k, NEW event, audit' = audit \/ audit' = Append(audit, event),
           event.key # k \/ event.type \notin {"EntryCreated", "EntryDeleted", "StateTransition"},
           k \in DOMAIN slots' <=> k \in DOMAIN slots, k \in DOMAIN slots => slots'[k] = slots[k],
           Replays(k)
    PROVE  Replays(k)'
<1>1. EventsOf(k)' = EventsOf(k) /\ \A i \in DOMAIN audit : i \in DOMAIN audit' /\ audit'[i] = audit[i]
  <2>1. CASE audit' = audit
    BY <2>1 DEF EventsOf
  <2>2. CASE audit' = Append(audit, event)
    <3>1. /\ DOMAIN audit = 1..Len(audit) /\ Len(audit) \in Nat
          /\ DOMAIN audit' = 1..(Len(audit) + 1)
          /\ audit'[Len(audit) + 1] = event
          /\ \A i \in DOMAIN audit : audit'[i] = audit[i]
      BY <2>2, AppendShape
    <3> QED
      BY <3>1 DEF EventsOf
  <2> QED
    BY <2>1, <2>2
<1>2. \A i \in DOMAIN audit : IsLast(i, k)' <=> IsLast(i, k)
  BY <1>1 DEF IsLast
<1>3. CASE k \in DOMAIN slots
  <2>1. PICK i \in DOMAIN audit :
           /\ IsLast(i, k) /\ audit[i].id = slots[k].id
           /\ slots[k].state[1] = IF audit[i].type = "StateTransition" THEN audit[i].to ELSE "Active"
    BY <1>3 DEF Replays
  <2>2. i \in DOMAIN audit' /\ IsLast(i, k)' /\ audit'[i] = audit[i] /\ slots'[k] = slots[k] /\ k \in DOMAIN slots'
    BY <1>1, <1>2, <1>3, <2>1
  <2> QED
    BY <2>1, <2>2 DEF Replays
<1>4. CASE k \notin DOMAIN slots
  BY <1>1, <1>2, <1>4 DEF Replays
<1> QED
  BY <1>3, <1>4

\* An append of k is the last of k's, and tells its entry if it is what it says.
LEMMA AppendOwn ==
    ASSUME audit \in Seq(Logged), NEW k, NEW event, audit' = Append(audit, event),
           event.key = k, event.type \in {"EntryCreated", "EntryDeleted", "StateTransition"},
           UNCHANGED slots,
           IF k \in DOMAIN slots
           THEN /\ event.id = slots[k].id
                /\ slots[k].state[1] = IF event.type = "StateTransition" THEN event.to ELSE "Active"
           ELSE event.type = "EntryDeleted"
    PROVE  Replays(k)'
<1>1. /\ DOMAIN audit = 1..Len(audit) /\ Len(audit) \in Nat
      /\ DOMAIN audit' = 1..(Len(audit) + 1)
      /\ audit'[Len(audit) + 1] = event
  BY AppendShape
<1>2. PICK n : n = Len(audit) + 1
  OBVIOUS
<1>3. n \in DOMAIN audit' /\ audit'[n] = event /\ \A j \in DOMAIN audit' : j <= n
  BY <1>1, <1>2
<1>4. n \in EventsOf(k)' /\ \A j \in EventsOf(k)' : j \in DOMAIN audit'
  BY <1>3 DEF EventsOf
<1>5. IsLast(n, k)'
  BY <1>3, <1>4 DEF IsLast
<1>6. CASE k \in DOMAIN slots
  BY <1>3, <1>5, <1>6 DEF Replays
<1>7. CASE k \notin DOMAIN slots
  BY <1>3, <1>5, <1>7 DEF Replays
<1> QED
  BY <1>6, <1>7

\* A step of the command under way keeps the agreement if it leaves the other
\* keys as they are and its own as far behind as its next place says.
LEMMA TurnStep ==
    ASSUME ConnInv, TurnsInv, NEW c \in Conns, ~At(c, "Idle"), Moves(c), NEW k, k = Arg(c).key,
           CountExact', DOMAIN slots' \subseteq Keys,
           \A j \in DOMAIN slots' \ {k} : j \in DOMAIN slots /\ (PairOK(j) => PairOK(j)') /\ (ValueKept(j) => ValueKept(j)'),
           \A j \in Keys \ {k} : Replays(j) => Replays(j)',
           k \in DOMAIN slots' => PairOK(k)' \/ conn'[c].pc \in Unset,
           k \in DOMAIN slots' => ValueKept(k)' \/ conn'[c].pc \in Unset \cup {"RemoveSlot"},
           k \in Keys => LogOK(k)' \/ conn'[c].pc \in Unlogged,
           PlaceOK(c)'
    PROVE  TurnsInv'
<1>1. \A d \in Conns \ {c} : conn'[d] = conn[d] /\ conn[d].pc = "Idle"
  BY DEF TurnsInv, OneCommand, Moves, At
<1>2. OneCommand'
  BY <1>1 DEF OneCommand, At
<1>3. ASSUME NEW j, j # k, NEW pcs, "Idle" \notin pcs PROVE ~Busy(j, pcs)
  BY <1>1, <1>3 DEF Busy
<1>4. ASSUME NEW pcs, "Idle" \notin pcs, conn'[c].pc \in pcs PROVE Busy(k, pcs)'
  <2>1. conn'[c].pc # "Idle"
    BY <1>4
  <2>2. conn'[c].req = conn[c].req
    BY <2>1 DEF Moves
  <2> QED
    BY <1>4, <2>2 DEF Busy, Arg
<1>5. ASSUME NEW j \in DOMAIN slots'
      PROVE  (PairOK(j) \/ Busy(j, Unset))' /\ (ValueKept(j) \/ Busy(j, Unset \cup {"RemoveSlot"}))'
  <2>1. "Idle" \notin Unset /\ "Idle" \notin Unset \cup {"RemoveSlot"}
    BY DEF Unset
  <2>2. CASE j = k
    <3>1. PairOK(k)' \/ Busy(k, Unset)'
      BY <1>4, <1>5, <2>1, <2>2
    <3>2. ValueKept(k)' \/ Busy(k, Unset \cup {"RemoveSlot"})'
      BY <1>4, <1>5, <2>1, <2>2
    <3> QED
      BY <2>2, <3>1, <3>2 DEF Unset
  <2>3. CASE j # k
    <3>1. ~Busy(j, Unset) /\ ~Busy(j, Unset \cup {"RemoveSlot"})
      BY <1>3, <2>1, <2>3
    <3>2. j \in DOMAIN slots
      BY <1>5, <2>3
    <3>3. PairOK(j) /\ ValueKept(j)
      BY <3>1, <3>2 DEF TurnsInv
    <3> QED
      BY <1>5, <2>3, <3>3
  <2> QED
    BY <2>2, <2>3
<1>6. ASSUME NEW j \in Keys PROVE (LogOK(j) \/ Busy(j, Unlogged))'
  <2>1. "Idle" \notin Unlogged
    BY DEF Unlogged
  <2>2. CASE j = k
    <3>1. LogOK(k)' \/ Busy(k, Unlogged)'
      BY <1>4, <1>6, <2>1, <2>2
    <3> QED
      BY <2>2, <3>1
  <2>3. CASE j # k
    <3>1. ~Busy(j, Unlogged)
      BY <1>3, <2>1, <2>3
    <3>2. LogOK(j)
      BY <1>6, <3>1 DEF TurnsInv
    <3>3. LogOK(j)'
      BY <1>6, <2>3, <3>2 DEF LogOK
    <3> QED
      BY <3>3
  <2> QED
    BY <2>2, <2>3
<1>7. ASSUME NEW d \in Conns PROVE PlaceOK(d)'
  <2>1. CASE d = c
    BY <2>1
  <2>2. CASE d # c
    <3>1. conn'[d].pc = "Idle"
      BY <1>1, <2>2
    <3> QED
      BY <3>1 DEF PlaceOK, At
  <2> QED
    BY <2>1, <2>2
<1> QED
  BY <1>2, <1>5, <1>6, <1>7 DEF TurnsInv

\* A command arrives when none is under way: everything has been made good.
LEMMA ReceiveTurns ==
    ASSUME ConnInv, TurnsInv, NEW c \in Conns, Receive(c), ~overlapped' PROVE TurnsInv'
<1>1. PICK r \in Requests : conn' = [conn EXCEPT ![c] = [pc |-> r.cmd, req |-> r]]
  BY DEF Receive
<1>2. r.cmd \in {"SET", "GETVERIFIED", "DEL", "INVALIDATE", "SUPERSEDE"}
  BY DEF Requests
<1>3. \A d \in Conns : conn[d].pc = "Idle"
  BY DEF Receive, At
<1>4. conn'[c].pc = r.cmd /\ \A d \in Conns \ {c} : conn'[d] = conn[d]
  BY <1>1 DEF ConnInv
<1>5. OneCommand'
  BY <1>3, <1>4 DEF OneCommand, At
<1>6. UNCHANGED <<slots, engine, store, count, audit>>
  BY DEF Receive, stores
<1>7. ASSUME NEW k, NEW pcs, "Idle" \notin pcs PROVE ~Busy(k, pcs)
  BY <1>3, <1>7 DEF Busy
<1>8. ASSUME NEW k \in DOMAIN slots'
      PROVE  PairOK(k)' /\ ValueKept(k)'
  <2>1. ~Busy(k, Unset) /\ ~Busy(k, Unset \cup {"RemoveSlot"})
    BY <1>7 DEF Unset
  <2>2. PairOK(k) /\ ValueKept(k)
    BY <1>6, <1>8, <2>1 DEF TurnsInv
  <2> QED
    BY <1>6, <2>2 DEF PairOK, ValueKept
<1>9. ASSUME NEW k \in Keys PROVE LogOK(k)'
  <2>1. ~Busy(k, Unlogged)
    BY <1>7 DEF Unlogged
  <2>2. LogOK(k)
    BY <1>9, <2>1 DEF TurnsInv
  <2> QED
    BY <1>6, <2>2 DEF LogOK, Replays, IsLast, EventsOf
<1>10. ASSUME NEW d \in Conns PROVE PlaceOK(d)'
  <2>1. conn'[d].pc \in {"SET", "GETVERIFIED", "DEL", "INVALIDATE", "SUPERSEDE", "Idle"}
    BY <1>2, <1>3, <1>4
  <2> QED
    BY <2>1 DEF PlaceOK, At
<1>11. CountExact' /\ DOMAIN slots' \subseteq Keys
  BY <1>6 DEF TurnsInv, CountExact
<1> QED
  BY <1>5, <1>8, <1>9, <1>10, <1>11 DEF TurnsInv

\* What the command under way is not behind with, nobody is.
LEMMA NotBusy ==
    ASSUME TurnsInv, NEW c \in Conns, ~At(c, "Idle"), NEW j, NEW pcs, "Idle" \notin pcs,
           conn[c].pc \notin pcs \/ Arg(c).key # j
    PROVE  ~Busy(j, pcs)
<1>1. \A d \in Conns \ {c} : conn[d].pc = "Idle"
  BY DEF TurnsInv, OneCommand, At
<1> QED
  BY <1>1 DEF Busy

\* A step that leaves log and slot leaves what the log tells.
LEMMA SameLog ==
    ASSUME NEW k, audit' = audit, k \in DOMAIN slots' <=> k \in DOMAIN slots,
           k \in DOMAIN slots => slots'[k] = slots[k], Replays(k)
    PROVE  Replays(k)'
<1>1. EventsOf(k)' = EventsOf(k) /\ \A i \in DOMAIN audit : IsLast(i, k)' <=> IsLast(i, k)
  BY DEF EventsOf, IsLast
<1>2. CASE k \in DOMAIN slots
  <2>1. PICK i \in DOMAIN audit :
           /\ IsLast(i, k) /\ audit[i].id = slots[k].id
           /\ slots[k].state[1] = IF audit[i].type = "StateTransition" THEN audit[i].to ELSE "Active"
    BY <1>2 DEF Replays
  <2>2. i \in DOMAIN audit' /\ IsLast(i, k)' /\ audit'[i] = audit[i] /\ slots'[k] = slots[k] /\ k \in DOMAIN slots'
    BY <1>1, <1>2, <2>1
  <2> QED
    BY <2>1, <2>2 DEF Replays
<1>3. CASE k \notin DOMAIN slots
  BY <1>1, <1>3 DEF Replays
<1> QED
  BY <1>2, <1>3

\* A step that leaves registry, engine and content store, and logs nothing of an
\* entry's life.
LEMMA ReadTurns ==
    ASSUME ConnInv, TurnsInv, audit \in Seq(Logged), NEW c \in Conns, ~At(c, "Idle"), Moves(c),
           conn[c].pc \notin Unset \cup Unlogged \cup {"RemoveSlot"},
           conn'[c].pc \in {"GetSlot", "LogRead", "Idle"}, UNCHANGED <<slots, engine, store, count>>,
           NEW event, event.type \notin {"EntryCreated", "EntryDeleted", "StateTransition"},
           audit' = audit \/ audit' = Append(audit, event)
    PROVE  TurnsInv'
<1>0. PICK k : k = Arg(c).key
  OBVIOUS
<1>1. ASSUME NEW j, Replays(j) PROVE Replays(j)'
  BY <1>1, AppendElsewhere
<1>2. ~Busy(k, Unset) /\ ~Busy(k, Unset \cup {"RemoveSlot"}) /\ ~Busy(k, Unlogged)
  BY <1>0, NotBusy DEF Unset, Unlogged
<1>3. /\ CountExact' /\ DOMAIN slots' \subseteq Keys
      /\ \A j \in DOMAIN slots : (PairOK(j) => PairOK(j)') /\ (ValueKept(j) => ValueKept(j)')
  BY DEF TurnsInv, CountExact, PairOK, ValueKept
<1>4. k \in DOMAIN slots => PairOK(k) /\ ValueKept(k)
  BY <1>2 DEF TurnsInv
<1>5. PlaceOK(c)'
  BY DEF PlaceOK, At
<1>6. ASSUME k \in Keys PROVE LogOK(k)'
  <2>1. LogOK(k)
    BY <1>2, <1>6 DEF TurnsInv
  <2> QED
    BY <1>1, <2>1 DEF LogOK
<1>7. k \in DOMAIN slots' => PairOK(k)' /\ ValueKept(k)'
  BY <1>3, <1>4
<1>8. \A j \in DOMAIN slots' \ {k} :
         j \in DOMAIN slots /\ (PairOK(j) => PairOK(j)') /\ (ValueKept(j) => ValueKept(j)')
  BY <1>3
<1>9. \A j \in Keys \ {k} : Replays(j) => Replays(j)'
  BY <1>1
<1> QED
  BY <1>0, <1>3, <1>5, <1>6, <1>7, <1>8, <1>9, TurnStep

\* A SET registers its slot, with a number no bundle has.
LEMMA InsertSlotTurns == ASSUME IInv, TurnsInv, NEW c \in Conns, InsertSlot(c) PROVE TurnsInv'
<1>0. PICK k : k = Arg(c).key
  OBVIOUS
<1> DEFINE slot == NewSlot(Cardinality(made) + 1, Arg(c).value, parse_fingerprint(Arg(c).fp))
<1>1. /\ At(c, "SET") /\ slots' = Put(slots, k, slot) /\ Goto(c, "Persist")
      /\ UNCHANGED <<engine, store, count, audit>>
  BY <1>0 DEF InsertSlot
<1>2. Moves(c) /\ conn'[c].pc = "Persist" /\ conn'[c].req = conn[c].req
  BY <1>1, GotoMoves DEF IInv, At, SetPlaces, OtherPlaces
<1>3. slot.id = Cardinality(made) + 1 /\ slot.value = Arg(c).value /\ slot.state[1] = "Active"
  BY DEF NewSlot, Active
<1>4. k \in Keys
  BY <1>0, <1>1 DEF IInv, ConnInv, At, SetPlaces
<1>5. \A b \in store : b.id # Cardinality(made) + 1
  <2> SUFFICES ASSUME NEW b \in store PROVE b.id # Cardinality(made) + 1
    OBVIOUS
  <2>1. PICK m \in made : b = slot_to_bundle(m)
    BY DEF IInv, BundlesReal
  <2>2. b.id = m.id
    BY <2>1 DEF slot_to_bundle
  <2>3. PICK n \in Nat : n = Cardinality(made)
    BY FS_CardinalityType DEF IInv, MadeInv
  <2>4. m.id \in 1..n
    BY <2>3 DEF IInv, MadeInv
  <2> QED
    BY <2>2, <2>3, <2>4
<1> HIDE DEF slot
<1>6. /\ DOMAIN slots' = DOMAIN slots \cup {k} /\ slots'[k] = slot
      /\ \A j \in DOMAIN slots \ {k} : slots'[j] = slots[j]
  BY <1>1 DEF Put
<1>7. PlaceOK(c)'
  BY <1>0, <1>1, <1>2, <1>3, <1>5, <1>6 DEF PlaceOK, At, Arg
<1>8. ASSUME NEW j \in Keys \ {k}, Replays(j) PROVE Replays(j)'
  BY <1>1, <1>6, <1>8, SameLog
<1>9. CountExact' /\ DOMAIN slots' \subseteq Keys
  BY <1>1, <1>4, <1>6 DEF TurnsInv, CountExact
<1>10. \A j \in DOMAIN slots' \ {k} :
          j \in DOMAIN slots /\ (PairOK(j) => PairOK(j)') /\ (ValueKept(j) => ValueKept(j)')
  BY <1>1, <1>6 DEF PairOK, ValueKept
<1>11. conn'[c].pc \in Unset /\ conn'[c].pc \in Unset \cup {"RemoveSlot"} /\ conn'[c].pc \in Unlogged
  BY <1>2 DEF Unset, Unlogged
<1>12. ~At(c, "Idle") /\ ConnInv
  BY <1>1 DEF IInv, At
<1> QED
  BY <1>0, <1>2, <1>7, <1>8, <1>9, <1>10, <1>11, <1>12, TurnStep

\* It puts one bundle more into the content store and counts it, or none.
LEMMA PersistTurns ==
    ASSUME IInv, TurnsInv, TakingTurns, NEW c \in Conns, PersistBundle(c) PROVE TurnsInv'
<1>0. PICK k : k = Arg(c).key
  OBVIOUS
<1> DEFINE b == slot_to_bundle(slots[k])
<1>1. At(c, "Persist") /\ Goto(c, "EngineSet") /\ UNCHANGED <<slots, engine, audit>>
  BY DEF PersistBundle
<1>2. Moves(c) /\ conn'[c].pc = "EngineSet" /\ conn'[c].req = conn[c].req
  BY <1>1, GotoMoves DEF IInv, At, SetPlaces, OtherPlaces
<1>3. CountExact'
  <2>1. \/ UNCHANGED <<store, count>>
        \/ store' = store \cup {b} /\ count' = count + 1
    BY <1>0 DEF PersistBundle, put, TakingTurns
  <2>2. b.id = slots[k].id
    BY DEF slot_to_bundle
  <2>3. \A e \in store : e.id # slots[k].id
    BY <1>0, <1>1 DEF TurnsInv, PlaceOK, At
  <2>4. b \notin store
    BY <2>2, <2>3
  <2>5. IsFiniteSet(store) /\ count = Cardinality(store)
    BY DEF IInv, CountInv, TurnsInv, CountExact
  <2> HIDE DEF b
  <2>6. CASE UNCHANGED <<store, count>>
    BY <2>5, <2>6 DEF CountExact
  <2>7. CASE store' = store \cup {b} /\ count' = count + 1
    BY <2>4, <2>5, <2>7, FS_AddElement DEF CountExact
  <2> QED
    BY <2>1, <2>6, <2>7
<1> HIDE DEF b
<1>4. PlaceOK(c)'
  BY <1>1, <1>2 DEF TurnsInv, PlaceOK, At, Arg
<1>5. ASSUME NEW j \in Keys \ {k}, Replays(j) PROVE Replays(j)'
  BY <1>1, <1>5, SameLog
<1>6. /\ DOMAIN slots' \subseteq Keys
      /\ \A j \in DOMAIN slots' \ {k} :
            j \in DOMAIN slots /\ (PairOK(j) => PairOK(j)') /\ (ValueKept(j) => ValueKept(j)')
  BY <1>1 DEF TurnsInv, PairOK, ValueKept
<1>7. conn'[c].pc \in Unset /\ conn'[c].pc \in Unset \cup {"RemoveSlot"} /\ conn'[c].pc \in Unlogged
  BY <1>2 DEF Unset, Unlogged
<1>8. ~At(c, "Idle") /\ ConnInv
  BY <1>1 DEF IInv, At
<1> QED
  BY <1>0, <1>2, <1>3, <1>4, <1>5, <1>6, <1>7, <1>8, TurnStep

\* It brings the engine up to its slot.
LEMMA EngineSetTurns == ASSUME IInv, TurnsInv, NEW c \in Conns, EngineSet(c) PROVE TurnsInv'
<1>0. PICK k : k = Arg(c).key
  OBVIOUS
<1>1. /\ At(c, "EngineSet") /\ engine' = Put(engine, k, Arg(c).value) /\ Goto(c, "LockForAudit")
      /\ UNCHANGED <<slots, store, count, audit>>
  BY <1>0 DEF EngineSet
<1>2. Moves(c) /\ conn'[c].pc = "LockForAudit" /\ conn'[c].req = conn[c].req
  BY <1>1, GotoMoves DEF IInv, At, SetPlaces, OtherPlaces
<1>3. /\ DOMAIN engine' = DOMAIN engine \cup {k} /\ engine'[k] = Arg(c).value
      /\ \A j \in DOMAIN engine \ {k} : engine'[j] = engine[j]
  BY <1>1 DEF Put
<1>4. slots[k].value = Arg(c).value
  BY <1>0, <1>1 DEF TurnsInv, PlaceOK, At
<1>5. PairOK(k)' /\ ValueKept(k)'
  BY <1>1, <1>3, <1>4 DEF PairOK, ValueKept
<1>6. PlaceOK(c)'
  BY <1>1, <1>2 DEF TurnsInv, PlaceOK, At, Arg
<1>7. ASSUME NEW j \in Keys \ {k}, Replays(j) PROVE Replays(j)'
  BY <1>1, <1>7, SameLog
<1>8. /\ CountExact' /\ DOMAIN slots' \subseteq Keys
      /\ \A j \in DOMAIN slots' \ {k} :
            j \in DOMAIN slots /\ (PairOK(j) => PairOK(j)') /\ (ValueKept(j) => ValueKept(j)')
  BY <1>1, <1>3 DEF TurnsInv, CountExact, PairOK, ValueKept
<1>9. conn'[c].pc \in Unlogged /\ ~At(c, "Idle") /\ ConnInv
  BY <1>1, <1>2 DEF Unlogged, IInv, At
<1> QED
  BY <1>0, <1>2, <1>5, <1>6, <1>7, <1>8, <1>9, TurnStep

\* It finds its slot where it left it, and locks the registry.
LEMMA LockForAuditTurns == ASSUME IInv, TurnsInv, NEW c \in Conns, LockForAudit(c) PROVE TurnsInv'
<1>0. PICK k : k = Arg(c).key
  OBVIOUS
<1>1. At(c, "LockForAudit") /\ UNCHANGED <<slots, engine, store, count, audit>>
  BY DEF LockForAudit, stores
<1>2. k \in DOMAIN slots
  BY <1>0, <1>1 DEF TurnsInv, PlaceOK, At
<1>3. Goto(c, "LogCreated")
  BY <1>0, <1>2 DEF LockForAudit
<1>4. Moves(c) /\ conn'[c].pc = "LogCreated" /\ conn'[c].req = conn[c].req
  BY <1>1, <1>3, GotoMoves DEF IInv, At, SetPlaces, OtherPlaces
<1>5. ~Busy(k, Unset) /\ ~Busy(k, Unset \cup {"RemoveSlot"})
  BY <1>1, NotBusy DEF At, Unset
<1>6. PairOK(k) /\ ValueKept(k)
  BY <1>2, <1>5 DEF TurnsInv
<1>7. PlaceOK(c)'
  BY <1>1, <1>4 DEF TurnsInv, PlaceOK, At, Arg
<1>8. ASSUME NEW j \in Keys \ {k}, Replays(j) PROVE Replays(j)'
  BY <1>1, <1>8, SameLog
<1>9. /\ CountExact' /\ DOMAIN slots' \subseteq Keys
      /\ \A j \in DOMAIN slots' :
            j \in DOMAIN slots /\ (PairOK(j) => PairOK(j)') /\ (ValueKept(j) => ValueKept(j)')
  BY <1>1 DEF TurnsInv, CountExact, PairOK, ValueKept
<1>10. PairOK(k)' /\ ValueKept(k)'
  BY <1>1, <1>6 DEF PairOK, ValueKept
<1>11. conn'[c].pc \in Unlogged /\ ~At(c, "Idle") /\ ConnInv
  BY <1>1, <1>4 DEF Unlogged, IInv, At
<1> QED
  BY <1>0, <1>4, <1>7, <1>8, <1>9, <1>10, <1>11, TurnStep

\* A handler logs what it did to its key, and is done.
LEMMA LoggedTurns ==
    ASSUME IInv, RegistryInv, TurnsInv, TakingTurns, NEW c \in Conns, NEW k, k = Arg(c).key,
           conn[c].pc \in {"LogCreated", "LogDeleted", "LogTransition"}, Reply(c),
           UNCHANGED <<slots, engine, store, count>>, NEW event, Log(event),
           event.key = k, event.type \in {"EntryCreated", "EntryDeleted", "StateTransition"},
           IF k \in DOMAIN slots
           THEN /\ event.id = slots[k].id
                /\ slots[k].state[1] = IF event.type = "StateTransition" THEN event.to ELSE "Active"
           ELSE event.type = "EntryDeleted"
    PROVE  TurnsInv'
<1>1. Moves(c) /\ conn'[c].pc = "Idle"
  BY ReplyMoves DEF IInv
<1>2. audit' = Append(audit, event) /\ audit \in Seq(Logged)
  BY DEF Log, TakingTurns, RegistryInv, LogInv
<1>3. ~Busy(k, Unset) /\ ~Busy(k, Unset \cup {"RemoveSlot"})
  BY NotBusy DEF At, Unset
<1>4. Replays(k)'
  BY <1>2, AppendOwn
<1>5. ASSUME NEW j \in Keys \ {k}, Replays(j) PROVE Replays(j)'
  BY <1>2, <1>5, AppendElsewhere
<1>6. LogOK(k)'
  BY <1>4 DEF LogOK
<1>7. k \in DOMAIN slots => PairOK(k) /\ ValueKept(k)
  BY <1>3 DEF TurnsInv
<1>8. /\ CountExact' /\ DOMAIN slots' \subseteq Keys
      /\ \A j \in DOMAIN slots' :
            j \in DOMAIN slots /\ (PairOK(j) => PairOK(j)') /\ (ValueKept(j) => ValueKept(j)')
  BY DEF TurnsInv, CountExact, PairOK, ValueKept
<1>9. k \in DOMAIN slots' => PairOK(k)' /\ ValueKept(k)'
  BY <1>7, <1>8
<1>10. PlaceOK(c)'
  BY <1>1 DEF PlaceOK, At
<1>11. ~At(c, "Idle") /\ ConnInv
  BY DEF IInv, At
<1> QED
  BY <1>1, <1>5, <1>6, <1>8, <1>9, <1>10, <1>11, TurnStep

\* A creation, a deletion and a transition are logged.
LEMMA LogTurns ==
    ASSUME IInv, RegistryInv, TurnsInv, TakingTurns, NEW c \in Conns,
           LogCreated(c) \/ LogDeleted(c) \/ LogTransition(c)
    PROVE  TurnsInv'
<1>0. PICK k : k = Arg(c).key
  OBVIOUS
<1>1. CASE LogCreated(c)
  <2>1. PICK event : event = Event("EntryCreated", k, slots[k].id)
    OBVIOUS
  <2>2. event.type = "EntryCreated" /\ event.key = k /\ event.id = slots[k].id
    BY <2>1 DEF Event
  <2>3. At(c, "LogCreated") /\ Log(event) /\ Reply(c) /\ UNCHANGED <<slots, engine, store, count>>
    BY <1>0, <1>1, <2>1 DEF LogCreated
  <2>4. k \in DOMAIN slots /\ slots[k].state[1] = "Active"
    BY <1>0, <2>3 DEF TurnsInv, PlaceOK, At
  <2> QED
    BY <1>0, <2>2, <2>3, <2>4, LoggedTurns DEF At
<1>2. CASE LogDeleted(c)
  <2>1. PICK event : event = Event("EntryDeleted", k, 0)
    OBVIOUS
  <2>2. event.type = "EntryDeleted" /\ event.key = k
    BY <2>1 DEF Event
  <2>3. At(c, "LogDeleted") /\ Log(event) /\ Reply(c) /\ UNCHANGED <<slots, engine, store, count>>
    BY <1>0, <1>2, <2>1 DEF LogDeleted
  <2>4. k \notin DOMAIN slots
    BY <1>0, <2>3 DEF TurnsInv, PlaceOK, At
  <2> QED
    BY <1>0, <2>2, <2>3, <2>4, LoggedTurns DEF At
<1>3. CASE LogTransition(c)
  <2>1. PICK event : event = [type |-> "StateTransition", key |-> k, id |-> slots[k].id,
                              from |-> "Active", to |-> slots[k].state[1]]
    OBVIOUS
  <2>2. /\ event.type = "StateTransition" /\ event.key = k /\ event.id = slots[k].id
        /\ event.to = slots[k].state[1]
    BY <2>1
  <2>3. At(c, "LogTransition") /\ Log(event) /\ Reply(c) /\ UNCHANGED <<slots, engine, store, count>>
    BY <1>0, <1>3, <2>1 DEF LogTransition, history
  <2>4. k \in DOMAIN slots
    BY <1>0, <2>3 DEF IInv, LockInv, At
  <2> QED
    BY <1>0, <2>2, <2>3, <2>4, LoggedTurns DEF At
<1> QED
  BY <1>1, <1>2, <1>3

\* A verified read, and a command that is refused, leave the stores.
LEMMA GetTurns ==
    ASSUME IInv, RegistryInv, TurnsInv, NEW c \in Conns, GetValue(c) \/ GetSlot(c) \/ LogRead(c)
    PROVE  TurnsInv'
<1>1. /\ conn[c].pc \in {"GETVERIFIED", "GetSlot", "LogRead"}
      /\ UNCHANGED <<slots, engine, store, count>>
  BY DEF GetValue, GetSlot, LogRead, stores, At
<1>2. ~At(c, "Idle") /\ conn[c].pc \notin Unset \cup Unlogged \cup {"RemoveSlot"}
  BY <1>1 DEF At, Unset, Unlogged
<1>3. Moves(c) /\ conn'[c].pc \in {"GetSlot", "LogRead", "Idle"}
  <2>0. DOMAIN conn = Conns
    BY DEF IInv, ConnInv
  <2>1. CASE Reply(c)
    BY <2>1, ReplyMoves DEF IInv
  <2>2. CASE GetValue(c) /\ ~Reply(c)
    <3> DEFINE next == [pc |-> "GetSlot", req |-> Arg(c), value |-> engine[Arg(c).key]]
    <3>1. next.pc = "GetSlot" /\ next.req = Arg(c) /\ DOMAIN next = {"pc", "req", "value"}
      OBVIOUS
    <3>2. conn' = [conn EXCEPT ![c] = next]
      BY <2>2 DEF GetValue
    <3> HIDE DEF next
    <3>3. conn'[c] = next /\ DOMAIN conn' = Conns /\ \A d \in Conns \ {c} : conn'[d] = conn[d]
      BY <2>0, <3>2
    <3> QED
      BY <3>1, <3>3 DEF Moves, Arg, OtherPlaces, SetPlaces
  <2>3. CASE GetSlot(c)
    <3> DEFINE next == [pc |-> "LogRead", req |-> Arg(c), value |-> conn[c].value,
                        slot |-> IF Arg(c).key \in DOMAIN slots THEN {slots[Arg(c).key]} ELSE {},
                        verification |-> IF Arg(c).key \in DOMAIN slots
                                         THEN Verification(slots[Arg(c).key]) ELSE "Unverified"]
    <3>1. next.pc = "LogRead" /\ next.req = Arg(c) /\ {"pc", "req"} \subseteq DOMAIN next
      OBVIOUS
    <3>2. conn' = [conn EXCEPT ![c] = next]
      BY <2>3 DEF GetSlot
    <3> HIDE DEF next
    <3>3. conn'[c] = next /\ DOMAIN conn' = Conns /\ \A d \in Conns \ {c} : conn'[d] = conn[d]
      BY <2>0, <3>2
    <3> QED
      BY <3>1, <3>3 DEF Moves, Arg, OtherPlaces, SetPlaces
  <2> QED
    BY <2>1, <2>2, <2>3 DEF LogRead
<1>4. PICK event : /\ event.type \notin {"EntryCreated", "EntryDeleted", "StateTransition"}
                   /\ audit' = audit \/ audit' = Append(audit, event)
  <2>1. CASE LogRead(c) /\ audit' # audit
    <3>1. PICK event : event = Event(conn[c].verification, Arg(c).key, 0)
      OBVIOUS
    <3>2. event.type = conn[c].verification
      BY <3>1 DEF Event
    <3>3. conn[c].verification \in {"FullyVerified", "VerificationFailed"} /\ audit' = Append(audit, event)
      BY <2>1, <3>1 DEF LogRead, Log
    <3> QED
      BY <3>2, <3>3
  <2>2. CASE audit' = audit
    <3>1. [type |-> "DaemonStart"].type \notin {"EntryCreated", "EntryDeleted", "StateTransition"}
      OBVIOUS
    <3> QED
      BY <2>2, <3>1
  <2> QED
    BY <2>1, <2>2 DEF GetValue, GetSlot, stores
<1>5. audit \in Seq(Logged) /\ ConnInv
  BY DEF IInv, RegistryInv, LogInv
<1> QED
  BY <1>1, <1>2, <1>3, <1>4, <1>5, ReadTurns

\* A deletion takes the value out of the engine; if it found one, it goes on to log
\* that, and a slot without a value was dropped by the engine ...
LEMMA EngineDeleteTurns == ASSUME IInv, TurnsInv, NEW c \in Conns, EngineDelete(c) PROVE TurnsInv'
<1>0. PICK k : k = Arg(c).key
  OBVIOUS
<1> DEFINE next == [pc |-> "RemoveSlot", req |-> Arg(c), deleted |-> k \in DOMAIN engine]
<1>1. /\ At(c, "DEL") /\ engine' = Drop(engine, k) /\ conn' = [conn EXCEPT ![c] = next]
      /\ UNCHANGED <<slots, store, count, audit>>
  BY <1>0 DEF EngineDelete
<1>2. /\ next.pc = "RemoveSlot" /\ next.req = Arg(c) /\ {"pc", "req"} \subseteq DOMAIN next
      /\ next.deleted <=> k \in DOMAIN engine
  OBVIOUS
<1> HIDE DEF next
<1>3. conn'[c] = next /\ DOMAIN conn' = Conns /\ \A d \in Conns \ {c} : conn'[d] = conn[d]
  BY <1>1 DEF IInv, ConnInv
<1>4. Moves(c) /\ conn'[c].pc = "RemoveSlot" /\ conn'[c].req = conn[c].req
  BY <1>2, <1>3 DEF Moves, Arg, OtherPlaces, SetPlaces
<1>5. DOMAIN engine' = DOMAIN engine \ {k} /\ \A j \in DOMAIN engine \ {k} : engine'[j] = engine[j]
  BY <1>1, DropShape
<1>6. ~Busy(k, Unset \cup {"RemoveSlot"}) /\ ~Busy(k, Unlogged)
  BY <1>1, NotBusy DEF At, Unset, Unlogged
<1>7. k \in DOMAIN slots => ValueKept(k)
  BY <1>6 DEF TurnsInv
<1>8. PlaceOK(c)'
  <2>1. (Evictions \/ conn[c].deleted \/ Arg(c).key \notin DOMAIN slots)'
    <3>1. Arg(c)'.key = k
      BY <1>0, <1>4 DEF Arg
    <3>2. CASE k \in DOMAIN engine
      BY <1>2, <1>3, <3>2
    <3>3. CASE k \notin DOMAIN engine
      BY <1>1, <1>7, <3>1, <3>3 DEF ValueKept
    <3> QED
      BY <3>2, <3>3
  <2> QED
    BY <1>4, <2>1 DEF PlaceOK, At
<1>9. ASSUME NEW j \in Keys, Replays(j) PROVE Replays(j)'
  BY <1>1, <1>9, SameLog
<1>10. PairOK(k)'
  BY <1>5 DEF PairOK
<1>11. ASSUME k \in Keys PROVE LogOK(k)'
  <2>1. LogOK(k)
    BY <1>6, <1>11 DEF TurnsInv
  <2> QED
    BY <1>9, <1>11, <2>1 DEF LogOK
<1>12. /\ CountExact' /\ DOMAIN slots' \subseteq Keys
       /\ \A j \in DOMAIN slots' \ {k} :
             j \in DOMAIN slots /\ (PairOK(j) => PairOK(j)') /\ (ValueKept(j) => ValueKept(j)')
  BY <1>1, <1>5 DEF TurnsInv, CountExact, PairOK, ValueKept
<1>13. conn'[c].pc \in Unset \cup {"RemoveSlot"} /\ ~At(c, "Idle") /\ ConnInv
  BY <1>1, <1>4 DEF IInv, At
<1> QED
  BY <1>0, <1>4, <1>8, <1>9, <1>10, <1>11, <1>12, <1>13, TurnStep

\* ... and then the slot out of the registry.
LEMMA RemoveSlotTurns == ASSUME IInv, TurnsInv, NEW c \in Conns, RemoveSlot(c) PROVE TurnsInv'
<1>0. PICK k : k = Arg(c).key
  OBVIOUS
<1>1. At(c, "RemoveSlot") /\ slots' = Drop(slots, k) /\ UNCHANGED <<engine, store, count, audit>>
  BY <1>0 DEF RemoveSlot
<1>2. DOMAIN slots' = DOMAIN slots \ {k} /\ \A j \in DOMAIN slots \ {k} : slots'[j] = slots[j]
  BY <1>1, DropShape
<1>3. Moves(c) /\ \/ conn[c].deleted /\ conn'[c].pc = "LogDeleted" /\ conn'[c].req = conn[c].req
                  \/ ~conn[c].deleted /\ conn'[c].pc = "Idle"
  <2>1. CASE conn[c].deleted
    <3>1. Goto(c, "LogDeleted")
      BY <2>1 DEF RemoveSlot
    <3> QED
      BY <1>1, <2>1, <3>1, GotoMoves DEF IInv, At, SetPlaces, OtherPlaces
  <2>2. CASE ~conn[c].deleted
    <3>1. Reply(c)
      BY <2>2 DEF RemoveSlot
    <3> QED
      BY <2>2, <3>1, ReplyMoves DEF IInv
  <2> QED
    BY <2>1, <2>2
<1>4. ASSUME NEW j \in Keys \ {k}, Replays(j) PROVE Replays(j)'
  BY <1>1, <1>2, <1>4, SameLog
<1>5. ASSUME k \in Keys, conn'[c].pc \notin Unlogged PROVE LogOK(k)'
  <2>1. ~conn[c].deleted
    BY <1>3, <1>5 DEF Unlogged
  <2>2. CASE Evictions
    BY <2>2 DEF LogOK
  <2>3. CASE ~Evictions
    <3>1. k \notin DOMAIN slots
      BY <1>0, <1>1, <2>1, <2>3 DEF TurnsInv, PlaceOK
    <3>2. ~Busy(k, Unlogged)
      BY <1>1, NotBusy DEF At, Unlogged
    <3>3. Replays(k)
      BY <1>5, <2>3, <3>2 DEF TurnsInv, LogOK
    <3>4. Replays(k)'
      BY <1>1, <1>2, <3>1, <3>3, SameLog
    <3> QED
      BY <3>4 DEF LogOK
  <2> QED
    BY <2>2, <2>3
<1>6. PlaceOK(c)'
  BY <1>0, <1>2, <1>3 DEF PlaceOK, At, Arg
<1>7. /\ CountExact' /\ DOMAIN slots' \subseteq Keys /\ k \notin DOMAIN slots'
      /\ \A j \in DOMAIN slots' \ {k} :
            j \in DOMAIN slots /\ (PairOK(j) => PairOK(j)') /\ (ValueKept(j) => ValueKept(j)')
  BY <1>1, <1>2 DEF TurnsInv, CountExact, PairOK, ValueKept
<1>8. ~At(c, "Idle") /\ ConnInv
  BY <1>1 DEF IInv, At
<1> QED
  BY <1>0, <1>3, <1>4, <1>5, <1>6, <1>7, <1>8, TurnStep

\* A transition changes the state of its entry and is about to be logged.
LEMMA TransitionTurns ==
    ASSUME IInv, RegistryInv, TurnsInv, NEW c \in Conns, Transition(c) PROVE TurnsInv'
<1>0. PICK k : k = Arg(c).key
  OBVIOUS
<1>1. /\ conn[c].pc \in {"INVALIDATE", "SUPERSEDE"} /\ ~At(c, "Idle")
      /\ UNCHANGED <<engine, store, count, audit>>
  BY DEF Transition, At
<1>2. ConnInv /\ audit \in Seq(Logged)
  BY DEF IInv, RegistryInv, LogInv
<1>3. CASE slots' = slots /\ Reply(c)
  <2>1. Moves(c) /\ conn'[c].pc = "Idle"
    BY <1>2, <1>3, ReplyMoves
  <2>2. conn[c].pc \notin Unset \cup Unlogged \cup {"RemoveSlot"}
    BY <1>1 DEF Unset, Unlogged
  <2>3. PICK event : event = [type |-> "DaemonStart"]
    OBVIOUS
  <2>4. event.type \notin {"EntryCreated", "EntryDeleted", "StateTransition"}
    BY <2>3
  <2> QED
    BY <1>1, <1>2, <1>3, <2>1, <2>2, <2>4, ReadTurns
<1>4. CASE ~(slots' = slots /\ Reply(c))
  <2>1. /\ k \in DOMAIN slots /\ Goto(c, "LogTransition")
        /\ slots' = [slots EXCEPT ![k].state = NewState(Arg(c))]
    BY <1>0, <1>4 DEF Transition, Found
  <2>2. Moves(c) /\ conn'[c].pc = "LogTransition" /\ conn'[c].req = conn[c].req
    BY <1>1, <1>2, <2>1, GotoMoves DEF SetPlaces, OtherPlaces
  <2>3. DOMAIN slots[k] = {"id", "value", "fp", "state"}
    BY <2>1 DEF IInv, SlotInv
  <2>4. /\ DOMAIN slots' = DOMAIN slots /\ slots'[k].value = slots[k].value
        /\ \A j \in DOMAIN slots \ {k} : slots'[j] = slots[j]
    BY <2>1, <2>3
  <2>5. ~Busy(k, Unset) /\ ~Busy(k, Unset \cup {"RemoveSlot"})
    BY <1>1, NotBusy DEF Unset
  <2>6. PairOK(k) /\ ValueKept(k)
    BY <2>1, <2>5 DEF TurnsInv
  <2>7. PairOK(k)' /\ ValueKept(k)'
    BY <1>1, <2>4, <2>6 DEF PairOK, ValueKept
  <2>8. ASSUME NEW j \in Keys \ {k}, Replays(j) PROVE Replays(j)'
    BY <1>1, <2>4, <2>8, SameLog
  <2>9. /\ CountExact' /\ DOMAIN slots' \subseteq Keys
        /\ \A j \in DOMAIN slots' \ {k} :
              j \in DOMAIN slots /\ (PairOK(j) => PairOK(j)') /\ (ValueKept(j) => ValueKept(j)')
    BY <1>1, <2>4 DEF TurnsInv, CountExact, PairOK, ValueKept
  <2>10. PlaceOK(c)'
    BY <2>2 DEF PlaceOK, At
  <2>11. conn'[c].pc \in Unlogged
    BY <2>2 DEF Unlogged
  <2> QED
    BY <1>0, <1>1, <1>2, <2>2, <2>7, <2>8, <2>9, <2>10, <2>11, TurnStep
<1> QED
  BY <1>3, <1>4

\* What leaves handlers, registry, log and content store alone can only take
\* values out of the engine, if it drops keys at all.
LEMMA EvictTurns ==
    ASSUME TurnsInv, UNCHANGED <<conn, slots, store, count, audit>>,
           engine' = engine \/ (Evictions /\ \E k \in Keys : engine' = Drop(engine, k))
    PROVE  TurnsInv'
<1>1. \A j \in DOMAIN engine' : j \in DOMAIN engine /\ engine'[j] = engine[j]
  <2>1. ASSUME NEW k \in Keys, engine' = Drop(engine, k)
        PROVE  \A j \in DOMAIN engine' : j \in DOMAIN engine /\ engine'[j] = engine[j]
    BY <2>1, DropShape
  <2> QED
    BY <2>1
<1>2. ASSUME NEW j \in DOMAIN slots'
      PROVE  (PairOK(j) \/ Busy(j, Unset))' /\ (ValueKept(j) \/ Busy(j, Unset \cup {"RemoveSlot"}))'
  <2>1. (PairOK(j) \/ Busy(j, Unset)) /\ (ValueKept(j) \/ Busy(j, Unset \cup {"RemoveSlot"}))
    BY <1>2 DEF TurnsInv
  <2>2. (PairOK(j) => PairOK(j)') /\ (ValueKept(j) => ValueKept(j)')
    BY <1>1 DEF PairOK, ValueKept
  <2>3. (Busy(j, Unset) => Busy(j, Unset)') /\ (Busy(j, Unset \cup {"RemoveSlot"}) => Busy(j, Unset \cup {"RemoveSlot"})')
    BY DEF Busy, Arg, Unset
  <2> QED
    BY <2>1, <2>2, <2>3
<1>3. ASSUME NEW j \in Keys PROVE (LogOK(j) \/ Busy(j, Unlogged))'
  <2>1. LogOK(j) \/ Busy(j, Unlogged)
    BY <1>3 DEF TurnsInv
  <2>2. Replays(j) => Replays(j)'
    BY SameLog
  <2>3. Busy(j, Unlogged) => Busy(j, Unlogged)'
    BY DEF Busy, Arg, Unlogged
  <2> QED
    BY <2>1, <2>2, <2>3 DEF LogOK
<1>4. ASSUME NEW d \in Conns PROVE PlaceOK(d)'
  <2>1. PlaceOK(d)
    BY DEF TurnsInv
  <2> QED
    BY <2>1 DEF PlaceOK, At, Arg
<1>5. OneCommand' /\ CountExact' /\ DOMAIN slots' \subseteq Keys
  BY DEF TurnsInv, OneCommand, CountExact, At
<1> QED
  BY <1>2, <1>3, <1>4, <1>5 DEF TurnsInv

\* At first nothing is under way and nothing is stored.
LEMMA TurnsInit == Init => TurnsInv
<1> SUFFICES ASSUME Init PROVE TurnsInv
  OBVIOUS
<1>1. \A c \in Conns : At(c, "Idle")
  BY DEF Init, At, Idle
<1>2. CountExact
  BY FS_EmptySet DEF Init, CountExact
<1>3. \A k : Replays(k)
  <2>1. \A k : EventsOf(k) = {} /\ k \notin DOMAIN slots
    BY DEF Init, EventsOf
  <2> QED
    BY <2>1 DEF Replays
<1> QED
  BY <1>1, <1>2, <1>3 DEF Init, TurnsInv, OneCommand, PlaceOK, LogOK, At

\* As long as clients take turns, a step keeps the stores in agreement.
LEMMA TurnsStep ==
    IInv /\ FirstRun /\ (TakingTurns => TurnsInv) /\ [Next]_vars => (TakingTurns => TurnsInv)'
<1> SUFFICES ASSUME IInv, FirstRun, TakingTurns => TurnsInv, [Next]_vars, TakingTurns' PROVE TurnsInv'
  OBVIOUS
<1>1. CASE Restart
  <2>1. restarts \in Nat /\ restarts' = restarts + 1 /\ restarts' = 0
    BY <1>1, DaemonAssumption DEF Restart, IInv, RunInv, TakingTurns
  <2> QED
    BY <2>1
<1>2. ASSUME restarts' = restarts, overlapped => overlapped'
      PROVE  TurnsInv /\ TakingTurns /\ RegistryInv
  BY <1>2 DEF TakingTurns, FirstRun
<1>3. ASSUME NEW c \in Conns, Receive(c) PROVE TurnsInv'
  <2>1. restarts' = restarts /\ ~overlapped /\ ~overlapped'
    BY <1>3 DEF Receive, TakingTurns
  <2> QED
    BY <1>2, <1>3, <2>1, ReceiveTurns DEF IInv
<1>4. ASSUME NEW c \in Conns, Step(c) PROVE TurnsInv'
  <2>1. restarts' = restarts /\ overlapped' = overlapped
    BY <1>4 DEF Step, InsertSlot, PersistBundle, EngineSet, LockForAudit, LogCreated, GetValue, GetSlot,
                LogRead, EngineDelete, RemoveSlot, LogDeleted, Transition, LogTransition, history
  <2>2. TurnsInv /\ TakingTurns /\ RegistryInv
    BY <1>2, <2>1
  <2> QED
    BY <1>4, <2>2, InsertSlotTurns, PersistTurns, EngineSetTurns, LockForAuditTurns, LogTurns, GetTurns,
       EngineDeleteTurns, RemoveSlotTurns, TransitionTurns DEF Step
<1>5. ASSUME UNCHANGED <<conn, slots, store, count, audit, overlapped, restarts>>,
             engine' = engine \/ (Evictions /\ \E k \in Keys : engine' = Drop(engine, k))
      PROVE  TurnsInv'
  BY <1>2, <1>5, EvictTurns
<1>6. ASSUME NEW k \in Keys, Evict(k) PROVE TurnsInv'
  BY <1>5, <1>6 DEF Evict, history
<1>7. CASE UNCHANGED vars
  <2>1. UNCHANGED <<conn, slots, store, count, audit, overlapped, restarts>> /\ engine' = engine
    BY <1>7 DEF vars, stores, history
  <2> QED
    BY <1>5, <2>1
<1> QED
  BY <1>1, <1>3, <1>4, <1>6, <1>7 DEF Next

\* As long as clients take turns and nothing fails, the stores agree whenever no
\* command is under way, with any number of keys and commands (daemon.rs:648-880).
THEOREM SerialAlwaysConsistent == Spec => []SerialConsistent
<1>1. Init => IInv /\ FirstRun /\ (TakingTurns => TurnsInv)
  BY IInvInit, FirstRunInit, TurnsInit
<1>2. IInv /\ FirstRun /\ (TakingTurns => TurnsInv) /\ [Next]_vars
         => (IInv /\ FirstRun /\ (TakingTurns => TurnsInv))'
  BY IInvStep, FirstRunStep, TurnsStep
<1>3. FirstRun /\ (TakingTurns => TurnsInv) => SerialConsistent
  BY TurnsSuffice DEF SerialConsistent, TakingTurns, FirstRun, RegistryInv, LogInv
<1> QED
  BY <1>1, <1>2, <1>3, PTL DEF Spec

=============================================================================

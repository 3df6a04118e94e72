----------------------------- MODULE QuotaMeter -----------------------------
(***************************************************************************)
(* Quota metering of the daemon (src/src/daemon.rs): the per-key counters  *)
(* that every connection charges, and the background thread that reports   *)
(* them to the usage server every 15 seconds.                              *)
(*                                                                         *)
(* A connection task looks the counter up under a read lock, creates it    *)
(* under the write lock when it is missing, and charges it with fetch_add; *)
(* over the limit it takes the charge back with a separate fetch_sub.  The *)
(* flusher holds the read lock for a whole round, takes each counter with  *)
(* swap(0), posts it, and adds it back when the post did not succeed.      *)
(* Every atomic operation and lock acquisition is a step of its own.       *)
(*                                                                         *)
(* The model covers one life of the daemon and the metered keys: a key     *)
(* with ops_limit 0 is unlimited and never touches a counter.              *)
(***************************************************************************)
EXTENDS Integers, FiniteSets

CONSTANTS
    Conns,          \* connections
    Keys,           \* key_ids with a limit
    KeyOf,          \* the key each connection is authenticated with
    Limit,          \* ops_limit of each key
    Width,          \* number of values of the atomic counter: 2^64
    MaxCommands     \* bound on the commands sent

ASSUME ConnsAssumption == IsFiniteSet(Conns) /\ KeyOf \in [Conns -> Keys]
ASSUME LimitAssumption ==
    /\ Limit \in [Keys -> Nat \ {0}]
    /\ MaxCommands \in Nat
    /\ Width \in Nat \ {0}
    /\ \A k \in Keys : Width > Limit[k] + Cardinality(Conns)

VARIABLES
    metering,    \* "flushed" if credentials.toml has an api_key at start, so
                 \* that the flusher runs, "local" otherwise
    created,     \* keys that have an entry in ops_counters
    counter,     \* value of each key's AtomicU64
    pc,          \* where each connection is in the quota check
    flusher,     \* where the flusher thread is
    todo,        \* keys the current round has still to visit
    flushed,     \* the key being flushed and the ops taken from its counter
    sent,        \* history: commands sent so far
    admitted,    \* history: commands let through, per key
    acked        \* history: ops the server confirmed, per key

connVars    == <<created, pc, sent, admitted>>
flusherVars == <<metering, flusher, todo, flushed, acked>>
vars        == <<counter, connVars, flusherVars>>

-----------------------------------------------------------------------------
(* AtomicU64: arithmetic wraps around *)

Plus(x, y)  == IF x + y >= Width THEN x + y - Width ELSE x + y
Minus(x, y) == IF x < y THEN x - y + Width ELSE x - y

\* ops_counters is an RwLock: the flusher is its only long-lived reader.
Goto(c, label) == pc' = [pc EXCEPT ![c] = label]
WriterWaiting == \E c \in Conns : pc[c] = "write"
ReadLocked == flusher # "sleep"

-----------------------------------------------------------------------------
(* Connections: the quota block of the command loop *)

\* A command arrives: look up the counter under the read lock, which a waiting
\* writer keeps others from taking.
Lookup(c) ==
    /\ pc[c] = "idle"
    /\ sent < MaxCommands
    /\ ~WriterWaiting
    /\ sent' = sent + 1
    /\ Goto(c, IF KeyOf[c] \in created THEN "add" ELSE "missing")
    /\ UNCHANGED <<counter, created, admitted, flusherVars>>

\* No counter yet: ask for the write lock.
RequestWrite(c) ==
    /\ pc[c] = "missing"
    /\ Goto(c, "write")
    /\ UNCHANGED <<counter, created, sent, admitted, flusherVars>>

\* Seeded fault (see PROJECT.json): insert instead of entry().or_insert_with.
CreateAnew(c) ==
    /\ pc[c] = "write"
    /\ ~ReadLocked
    /\ created' = created \cup {KeyOf[c]}
    /\ counter' = [counter EXCEPT ![KeyOf[c]] = 0]
    /\ Goto(c, "add")
    /\ UNCHANGED <<sent, admitted, flusherVars>>

\* entry().or_insert_with: a counter another connection made meanwhile is kept.
Create(c) ==
    /\ pc[c] = "write"
    /\ ~ReadLocked
    /\ created' = created \cup {KeyOf[c]}
    /\ counter' = IF KeyOf[c] \in created THEN counter
                  ELSE [counter EXCEPT ![KeyOf[c]] = 0]
    /\ Goto(c, "add")
    /\ UNCHANGED <<sent, admitted, flusherVars>>

\* fetch_add(1): admitted below the limit, rejected at or above it.
FetchAdd(c) ==
    LET k == KeyOf[c]
        overLimit == counter[k] >= Limit[k]
    IN  /\ pc[c] = "add"
        /\ counter' = [counter EXCEPT ![k] = Plus(@, 1)]
        /\ \/ overLimit /\ Goto(c, "undo") /\ UNCHANGED admitted
           \/ ~overLimit /\ Goto(c, "idle")
                         /\ admitted' = [admitted EXCEPT ![k] = @ + 1]
        /\ UNCHANGED <<created, sent, flusherVars>>

\* fetch_sub(1) of a rejected command, which is then answered -QUOTA.
FetchSub(c) ==
    /\ pc[c] = "undo"
    /\ counter' = [counter EXCEPT ![KeyOf[c]] = Minus(@, 1)]
    /\ Goto(c, "idle")
    /\ UNCHANGED <<created, sent, admitted, flusherVars>>

Check(c) == RequestWrite(c) \/ Create(c) \/ FetchAdd(c) \/ FetchSub(c)

-----------------------------------------------------------------------------
(* The flusher thread *)

\* Seeded fault: the round visits every key of the credentials.
StartRoundOverAll ==
    /\ metering = "flushed"
    /\ flusher = "sleep"
    /\ ~WriterWaiting
    /\ flusher' = "walk"
    /\ todo' = Keys
    /\ UNCHANGED <<metering, counter, connVars, flushed, acked>>

\* The interval is over: take the read lock and walk the map.
StartRound ==
    /\ metering = "flushed"
    /\ flusher = "sleep"
    /\ ~WriterWaiting
    /\ flusher' = "walk"
    /\ todo' = created
    /\ UNCHANGED <<metering, counter, connVars, flushed, acked>>

\* swap(0): a counter at 0 is skipped.
Swap(k) ==
    /\ flusher = "walk"
    /\ k \in todo
    /\ todo' = todo \ {k}
    /\ counter' = [counter EXCEPT ![k] = 0]
    /\ flushed' = [key |-> k, ops |-> counter[k]]
    /\ flusher' = IF counter[k] = 0 THEN "walk" ELSE "post"
    /\ UNCHANGED <<metering, connVars, acked>>

\* The post succeeds.
PostOk ==
    /\ flusher = "post"
    /\ flusher' = "walk"
    /\ acked' = [acked EXCEPT ![flushed.key] = @ + flushed.ops]
    /\ UNCHANGED <<metering, counter, connVars, todo, flushed>>

\* It is refused, does not arrive, or its answer does not arrive in time: the
\* daemon cannot tell the last case, where the server has recorded the ops.
PostFailed ==
    /\ flusher = "post"
    /\ flusher' = "addback"
    /\ UNCHANGED <<metering, counter, connVars, todo, flushed, acked>>

\* Seeded faults: store(ops) instead of fetch_add(ops); the failed post is
\* retried within the round.
StoreBack ==
    /\ flusher = "addback"
    /\ counter' = [counter EXCEPT ![flushed.key] = flushed.ops]
    /\ flusher' = "walk"
    /\ UNCHANGED <<metering, connVars, todo, flushed, acked>>
AddBackAndRetry ==
    /\ flusher = "addback"
    /\ counter' = [counter EXCEPT ![flushed.key] = Plus(@, flushed.ops)]
    /\ todo' = todo \cup {flushed.key}
    /\ flusher' = "walk"
    /\ UNCHANGED <<metering, connVars, flushed, acked>>

\* fetch_add(ops): the ops of a failed post go back to the counter.
AddBack ==
    /\ flusher = "addback"
    /\ counter' = [counter EXCEPT ![flushed.key] = Plus(@, flushed.ops)]
    /\ flusher' = "walk"
    /\ UNCHANGED <<metering, connVars, todo, flushed, acked>>

\* Seeded fault: the read guard outlives the loop.
EndRoundLocked ==
    /\ flusher = "walk"
    /\ todo = {}
    /\ UNCHANGED vars

\* The walk is over: the read lock is dropped.
EndRound ==
    /\ flusher = "walk"
    /\ todo = {}
    /\ flusher' = "sleep"
    /\ UNCHANGED <<metering, counter, connVars, todo, flushed, acked>>

Post == PostOk \/ PostFailed

-----------------------------------------------------------------------------
Init ==
    /\ metering \in {"local", "flushed"}
    /\ created = {}
    /\ counter = [k \in Keys |-> 0]
    /\ pc = [c \in Conns |-> "idle"]
    /\ flusher = "sleep"
    /\ todo = {}
    /\ flushed \in [key : Keys, ops : {0}]
    /\ sent = 0
    /\ admitted = [k \in Keys |-> 0]
    /\ acked = [k \in Keys |-> 0]

Next ==
    \/ \E c \in Conns : Lookup(c) \/ Check(c)
    \/ StartRound
    \/ \E k \in Keys : Swap(k)
    \/ Post
    \/ AddBack
    \/ EndRound

Spec == Init /\ [][Next]_vars

\* Scheduling: a task in the middle of a command and a flusher in the middle of
\* a round keep running; a post ends at the latest with its timeout.  Nobody has
\* to send a command, and a round need not start.
Fairness ==
    /\ \A c \in Conns : WF_vars(Check(c))
    /\ \A k \in Keys : WF_vars(Swap(k))
    /\ WF_vars(Post) /\ WF_vars(AddBack) /\ WF_vars(EndRound)

FairSpec == Spec /\ Fairness

-----------------------------------------------------------------------------
(* Properties *)

TypeOK ==
    /\ metering \in {"local", "flushed"}
    /\ created \subseteq Keys
    /\ counter \in [Keys -> 0..(Width - 1)]
    /\ pc \in [Conns -> {"idle", "missing", "write", "add", "undo"}]
    /\ flusher \in {"sleep", "walk", "post", "addback"}
    /\ todo \subseteq created
    /\ flushed \in [key : Keys, ops : 0..(Width - 1)]
    /\ sent \in 0..MaxCommands
    /\ admitted \in [Keys -> Nat]
    /\ acked \in [Keys -> Nat]

\* Rejected commands whose charge is still on the counter of k.
Undoing(k) == {c \in Conns : KeyOf[c] = k /\ pc[c] = "undo"}

\* Ops taken from k's counter that are neither confirmed nor added back.
InFlight(k) ==
    IF flusher \in {"post", "addback"} /\ flushed.key = k THEN flushed.ops ELSE 0

\* "cannot exceed cap" (test_concurrent_ops_cannot_exceed_cap): however the
\* connections of a key interleave, no more than ops_limit of their commands
\* are let through.
CapRespected == \A k \in Keys : admitted[k] <= Limit[k]

\* A command is rejected only when the key's whole quota has been used: charges
\* that other rejected commands are about to take back turn nobody away.
RejectionsJustified ==
    \A k \in Keys : Undoing(k) # {} => admitted[k] = Limit[k]

\* The counter is the number of commands let through plus the charges not yet
\* taken back: it is exact whenever no rejection is in progress.
CounterExact ==
    \A k \in Keys : counter[k] = admitted[k] + Cardinality(Undoing(k))

\* A daemon without a flusher meters exactly, however the connections of a key
\* interleave in creating its counter, charging it and taking charges back: the
\* cap holds, nobody is turned away early, and the counter is exact.
LocallyExact ==
    metering = "local" => CapRespected /\ RejectionsJustified /\ CounterExact

\* The counter without the charges that are about to be taken back, and the
\* commands between their arrival and their fetch_add.
Uncancelled == [k \in Keys |-> counter[k] - Cardinality(Undoing(k))]
Undecided == {c \in Conns : pc[c] \in {"missing", "write", "add"}}

Atomic == INSTANCE Meter WITH used <- Uncancelled, asking <- Undecided

\* Although looking the counter up, creating, charging and taking back are steps
\* of their own, between which other connections do theirs, a daemon without a
\* flusher is a meter that decides each command in one.
MeterImplemented ==
    /\ metering = "local" => Atomic!Init
    /\ [][metering = "local" => [Atomic!Next]_(Atomic!vars)]_vars

\* "add ops back so they're not lost": what was let through is on the counter,
\* in flight or confirmed by the server, up to the pending rejections and to
\* multiples of 2^64, whatever posts failed or went unanswered.
NoOpLost ==
    \A k \in Keys :
        (counter[k] + InFlight(k) + acked[k]) % Width
            = (admitted[k] + Cardinality(Undoing(k))) % Width

\* The counter never stands for more commands than were ever charged to it.
CounterPlausible ==
    \A k \in Keys : counter[k] <= admitted[k] + Cardinality(Undoing(k))

\* A command that has entered the quota check is answered, even if its
\* connection has to wait for a flush round to release the map.
CommandDecided == \A c \in Conns : pc[c] # "idle" ~> pc[c] = "idle"

\* A flush round always ends, so a connection waiting to create a counter is
\* never kept out for good.
RoundEnds == (flusher # "sleep") ~> (flusher = "sleep")
=============================================================================

--------------------------- MODULE ConnectionProofs ---------------------------
(***************************************************************************)
(* TypeOK and ChargesAccounted hold for any number of clients, secrets,    *)
(* limits and programs; client and server stay in step, one answer to each *)
(* request; and ToldTruth: a request is followed from the words sent for   *)
(* it, over what the daemon does for them and its answer, to what the      *)
(* client prints (TruthInv).                                               *)
(*                                                                         *)
(* The counts are sums over the connections.  A step changes one of them,  *)
(* so each sum changes by what that connection adds after the step less    *)
(* what it added before (CountStep).                                       *)
(***************************************************************************)
EXTENDS Connection, FiniteSetTheorems, SequenceTheorems, TLAPS

-----------------------------------------------------------------------------
(* The invariant.                                                          *)

\* What a connection adds to the counts of secret s.
PendBit(s, r) == IF r.at \in {"undo", "validate", "run"} /\ r.secret = s /\ r.limit > 0 THEN 1 ELSE 0
HoldBit(s, r) == IF r.secret = s THEN 1 ELSE 0
UndoBit(s, r) == IF r.at = "undo" /\ r.secret = s THEN 1 ELSE 0

Pending(s) == {c \in Clients : PendBit(s, srv[c]) = 1}
Holders(s) == {c \in Clients : HoldBit(s, srv[c]) = 1}
Undoing(s) == {c \in Clients : UndoBit(s, srv[c]) = 1}

ServerSideOK(r) ==
    /\ r = [at |-> r.at, words |-> r.words, auth |-> r.auth, secret |-> r.secret, limit |-> r.limit,
            out |-> r.out, did |-> r.did]
    /\ r.at \in {"closed", "read", "received", "charge", "undo", "validate", "run"}
    /\ r.auth \in {"yes", "no"}
    /\ r.secret \in Secrets \cup {"none"}
    /\ r.limit \in Limits \cup {0}
    /\ r.secret # "none" => r.auth = "yes"
    /\ r.at \in {"charge", "undo"} => r.secret # "none" /\ r.limit > 0

ClientSideOK(k) ==
    /\ k = [at |-> k.at, todo |-> k.todo, said |-> k.said]
    /\ k.at \in {"idle", "send", "wait", "told"}

\* One answer to each request, heard before the next is sent.
InStep(k, r) ==
    /\ k.at = "idle" => r.at = "closed" /\ r.out = << >>
    /\ k.at = "send" => r.at = "read" /\ r.out = << >>
    /\ k.at = "told" => r.at \in {"read", "closed"} /\ r.out = << >>
    /\ k.at = "wait" => IF r.at = "read" THEN \E reply : r.out = << reply >> ELSE r.out = << >>

Connections ==
    /\ srv = [c \in Clients |-> srv[c]] /\ cl = [c \in Clients |-> cl[c]]
    /\ \A c \in Clients : ServerSideOK(srv[c]) /\ ClientSideOK(cl[c]) /\ InStep(cl[c], srv[c])

Tables ==
    /\ mode \in Modes
    /\ registry \in [Secrets -> Limits \cup {Revoked}]
    /\ counter \in [Secrets -> Int]
    /\ account \in [Secrets -> [served : Nat, refused : Nat, auths : Nat, late : Nat]]
    /\ used \in [programs : 0..MaxPrograms, reloads : 0..MaxReloads]

CountsOf(s) ==
    /\ counter[s] = account[s].served + account[s].refused + Cardinality(Pending(s))
    /\ account[s].late + Cardinality(Holders(s)) <= account[s].auths
    /\ counter[s] <= MaxLimit + Cardinality(Undoing(s))

ConnInv == Tables /\ Connections /\ \A s \in Secrets : CountsOf(s)

-----------------------------------------------------------------------------
(* Counting.                                                               *)

\* Sets of clients that differ in one client at most.
LEMMA CardinalityStep ==
    ASSUME NEW S \in SUBSET Clients, NEW T \in SUBSET Clients, NEW c \in Clients,
           \A d \in Clients : d # c => (d \in S <=> d \in T)
    PROVE  /\ Cardinality(S) \in Nat /\ Cardinality(T) \in Nat
           /\ Cardinality(T) = Cardinality(S) + (IF c \in T THEN 1 ELSE 0) - (IF c \in S THEN 1 ELSE 0)
<1>1. IsFiniteSet(S) /\ IsFiniteSet(T)
  BY ConnectionAssumption, FS_Subset
<1>2. Cardinality(S) \in Nat /\ Cardinality(T) \in Nat
  BY <1>1, FS_CardinalityType
<1>3. CASE c \in S <=> c \in T
  <2>1. S = T
    BY <1>3
  <2> QED
    BY <1>2, <2>1
<1>4. CASE c \in S /\ c \notin T
  <2>1. T = S \ {c}
    BY <1>4
  <2>2. Cardinality(T) = Cardinality(S) - 1
    BY <1>1, <1>4, <2>1, FS_RemoveElement
  <2> QED
    BY <1>2, <1>4, <2>2
<1>5. CASE c \notin S /\ c \in T
  <2>1. T = S \cup {c}
    BY <1>5
  <2>2. Cardinality(T) = Cardinality(S) + 1
    BY <1>1, <1>5, <2>1, FS_AddElement
  <2> QED
    BY <1>2, <1>5, <2>2
<1> QED
  BY <1>3, <1>4, <1>5

\* A connection that becomes n changes the counts of s by what it adds less what
\* it added.
LEMMA CountStep ==
    ASSUME Connections, NEW c \in Clients, NEW n, srv' = [srv EXCEPT ![c] = n], NEW s \in Secrets
    PROVE  /\ Cardinality(Pending(s)) \in Nat /\ Cardinality(Holders(s)) \in Nat /\ Cardinality(Undoing(s)) \in Nat
           /\ Cardinality(Pending(s)') = Cardinality(Pending(s)) + PendBit(s, n) - PendBit(s, srv[c])
           /\ Cardinality(Holders(s)') = Cardinality(Holders(s)) + HoldBit(s, n) - HoldBit(s, srv[c])
           /\ Cardinality(Undoing(s)') = Cardinality(Undoing(s)) + UndoBit(s, n) - UndoBit(s, srv[c])
<1>1. srv'[c] = n /\ \A d \in Clients : d # c => srv'[d] = srv[d]
  BY DEF Connections
<1>2. \A r : PendBit(s, r) \in {0, 1} /\ HoldBit(s, r) \in {0, 1} /\ UndoBit(s, r) \in {0, 1}
  BY DEF PendBit, HoldBit, UndoBit
<1>3. /\ Cardinality(Pending(s)) \in Nat
      /\ Cardinality(Pending(s)') = Cardinality(Pending(s)) + PendBit(s, n) - PendBit(s, srv[c])
  <2> DEFINE S == Pending(s)
             T == Pending(s)'
  <2>1. S \in SUBSET Clients /\ T \in SUBSET Clients /\ \A d \in Clients : d # c => (d \in S <=> d \in T)
    BY <1>1 DEF Pending
  <2>2. (IF c \in S THEN 1 ELSE 0) = PendBit(s, srv[c]) /\ (IF c \in T THEN 1 ELSE 0) = PendBit(s, n)
    BY <1>1, <1>2 DEF Pending
  <2> HIDE DEF S, T
  <2>3. Cardinality(S) \in Nat /\ Cardinality(T) = Cardinality(S) + PendBit(s, n) - PendBit(s, srv[c])
    BY <2>1, <2>2, CardinalityStep
  <2> QED
    BY <2>3 DEF S, T
<1>4. /\ Cardinality(Holders(s)) \in Nat
      /\ Cardinality(Holders(s)') = Cardinality(Holders(s)) + HoldBit(s, n) - HoldBit(s, srv[c])
  <2> DEFINE S == Holders(s)
             T == Holders(s)'
  <2>1. S \in SUBSET Clients /\ T \in SUBSET Clients /\ \A d \in Clients : d # c => (d \in S <=> d \in T)
    BY <1>1 DEF Holders
  <2>2. (IF c \in S THEN 1 ELSE 0) = HoldBit(s, srv[c]) /\ (IF c \in T THEN 1 ELSE 0) = HoldBit(s, n)
    BY <1>1, <1>2 DEF Holders
  <2> HIDE DEF S, T
  <2>3. Cardinality(S) \in Nat /\ Cardinality(T) = Cardinality(S) + HoldBit(s, n) - HoldBit(s, srv[c])
    BY <2>1, <2>2, CardinalityStep
  <2> QED
    BY <2>3 DEF S, T
<1>5. /\ Cardinality(Undoing(s)) \in Nat
      /\ Cardinality(Undoing(s)') = Cardinality(Undoing(s)) + UndoBit(s, n) - UndoBit(s, srv[c])
  <2> DEFINE S == Undoing(s)
             T == Undoing(s)'
  <2>1. S \in SUBSET Clients /\ T \in SUBSET Clients /\ \A d \in Clients : d # c => (d \in S <=> d \in T)
    BY <1>1 DEF Undoing
  <2>2. (IF c \in S THEN 1 ELSE 0) = UndoBit(s, srv[c]) /\ (IF c \in T THEN 1 ELSE 0) = UndoBit(s, n)
    BY <1>1, <1>2 DEF Undoing
  <2> HIDE DEF S, T
  <2>3. Cardinality(S) \in Nat /\ Cardinality(T) = Cardinality(S) + UndoBit(s, n) - UndoBit(s, srv[c])
    BY <2>1, <2>2, CardinalityStep
  <2> QED
    BY <2>3 DEF S, T
<1> QED
  BY <1>3, <1>4, <1>5

\* The largest limit.
LEMMA MaxLimitIs == MaxLimit \in Nat /\ \A limit \in Limits \cup {0} : limit \in Nat /\ limit <= MaxLimit
<1>1. PICK most \in Limits \cup {0} : \A limit \in Limits : limit <= most
  BY ConnectionAssumption
<1>2. MaxLimit \in Limits \cup {0} /\ \A limit \in Limits : limit <= MaxLimit
  BY <1>1 DEF MaxLimit
<1> QED
  BY <1>2, ConnectionAssumption

\* A step of one connection keeps the counts of s if the tables change as the
\* connection does.
LEMMA CountsKept ==
    ASSUME ConnInv, Tables', NEW c \in Clients, NEW n, srv' = [srv EXCEPT ![c] = n], NEW s \in Secrets,
           counter'[s] - counter[s] = (account'[s].served - account[s].served)
               + (account'[s].refused - account[s].refused) + (PendBit(s, n) - PendBit(s, srv[c])),
           (account'[s].late - account[s].late) + (HoldBit(s, n) - HoldBit(s, srv[c]))
               <= account'[s].auths - account[s].auths,
           \/ counter'[s] - counter[s] <= UndoBit(s, n) - UndoBit(s, srv[c])
           \/ UndoBit(s, srv[c]) = 0 /\ counter'[s] <= MaxLimit
    PROVE  CountsOf(s)'
<1>1. /\ Cardinality(Pending(s)) \in Nat /\ Cardinality(Holders(s)) \in Nat /\ Cardinality(Undoing(s)) \in Nat
      /\ Cardinality(Pending(s)') = Cardinality(Pending(s)) + PendBit(s, n) - PendBit(s, srv[c])
      /\ Cardinality(Holders(s)') = Cardinality(Holders(s)) + HoldBit(s, n) - HoldBit(s, srv[c])
      /\ Cardinality(Undoing(s)') = Cardinality(Undoing(s)) + UndoBit(s, n) - UndoBit(s, srv[c])
  BY CountStep DEF ConnInv
<1>2. /\ counter[s] \in Int /\ counter'[s] \in Int
      /\ account[s].served \in Nat /\ account[s].refused \in Nat
      /\ account[s].late \in Nat /\ account[s].auths \in Nat
      /\ account'[s].served \in Nat /\ account'[s].refused \in Nat
      /\ account'[s].late \in Nat /\ account'[s].auths \in Nat
  BY DEF ConnInv, Tables
<1>3. /\ PendBit(s, n) \in {0, 1} /\ HoldBit(s, n) \in {0, 1} /\ UndoBit(s, n) \in {0, 1}
      /\ PendBit(s, srv[c]) \in {0, 1} /\ HoldBit(s, srv[c]) \in {0, 1} /\ UndoBit(s, srv[c]) \in {0, 1}
  BY DEF PendBit, HoldBit, UndoBit
<1>4. /\ counter[s] = account[s].served + account[s].refused + Cardinality(Pending(s))
      /\ account[s].late + Cardinality(Holders(s)) <= account[s].auths
      /\ counter[s] <= MaxLimit + Cardinality(Undoing(s))
  BY DEF ConnInv, CountsOf
<1>5. counter'[s] = account'[s].served + account'[s].refused + Cardinality(Pending(s)')
  <2>1. counter'[s] - counter[s] = (account'[s].served - account[s].served)
           + (account'[s].refused - account[s].refused) + (Cardinality(Pending(s)') - Cardinality(Pending(s)))
    BY <1>1, <1>3
  <2>2. Cardinality(Pending(s)') \in Int
    BY <1>1, <1>3
  <2>3. PICK a \in Int, b \in Int : a = Cardinality(Pending(s)) /\ b = Cardinality(Pending(s)')
    BY <1>1, <2>2
  <2>4. PICK k \in Int, l \in Int : k = counter[s] /\ l = counter'[s]
    BY <1>2
  <2>5. PICK u \in Int, v \in Int : u = account[s].served /\ v = account'[s].served
    BY <1>2
  <2>6. PICK x \in Int, y \in Int : x = account[s].refused /\ y = account'[s].refused
    BY <1>2
  <2>7. k = u + x + a
    BY <1>4, <2>3, <2>4, <2>5, <2>6
  <2>8. l - k = (v - u) + (y - x) + (b - a)
    BY <2>1, <2>3, <2>4, <2>5, <2>6
  <2>9. l = v + y + b
    BY <2>7, <2>8
  <2> QED
    BY <2>3, <2>4, <2>5, <2>6, <2>9
<1>6. account'[s].late + Cardinality(Holders(s)') <= account'[s].auths
  BY <1>1, <1>2, <1>3, <1>4
<1>7. counter'[s] <= MaxLimit + Cardinality(Undoing(s)')
  BY <1>1, <1>2, <1>3, <1>4, MaxLimitIs
<1>8. (Pending(s))' = Pending(s)' /\ MaxLimit' = MaxLimit
  BY DEF MaxLimit
<1> QED
  BY <1>5, <1>6, <1>7, <1>8 DEF CountsOf

\* A step that charges nothing, authenticates nobody and leaves no undoing behind.
LEMMA CountsAlone ==
    ASSUME ConnInv, NEW c \in Clients, NEW n, srv' = [srv EXCEPT ![c] = n], UNCHANGED <<counter, account>>, Tables',
           \A s \in Secrets : PendBit(s, n) = PendBit(s, srv[c]) /\ UndoBit(s, srv[c]) = 0,
           \A s \in Secrets : HoldBit(s, n) <= HoldBit(s, srv[c])
    PROVE  \A s \in Secrets : CountsOf(s)'
<1> TAKE s \in Secrets
<1>1. /\ PendBit(s, n) \in {0, 1} /\ HoldBit(s, n) \in {0, 1} /\ UndoBit(s, n) \in {0, 1}
      /\ PendBit(s, srv[c]) \in {0, 1} /\ HoldBit(s, srv[c]) \in {0, 1}
  BY DEF PendBit, HoldBit, UndoBit
<1>2. /\ counter[s] \in Int
      /\ account[s].served \in Nat /\ account[s].refused \in Nat
      /\ account[s].late \in Nat /\ account[s].auths \in Nat
  BY DEF ConnInv, Tables
<1>3. PendBit(s, n) = PendBit(s, srv[c]) /\ UndoBit(s, srv[c]) = 0 /\ HoldBit(s, n) <= HoldBit(s, srv[c])
  OBVIOUS
<1>4. counter'[s] = counter[s] /\ account'[s] = account[s]
  OBVIOUS
<1>5. counter'[s] - counter[s] = (account'[s].served - account[s].served)
               + (account'[s].refused - account[s].refused) + (PendBit(s, n) - PendBit(s, srv[c]))
  BY <1>1, <1>2, <1>3, <1>4
<1>6. (account'[s].late - account[s].late) + (HoldBit(s, n) - HoldBit(s, srv[c]))
               <= account'[s].auths - account[s].auths
  BY <1>1, <1>2, <1>3, <1>4
<1>7. counter'[s] - counter[s] <= UndoBit(s, n) - UndoBit(s, srv[c])
  BY <1>1, <1>2, <1>3, <1>4
<1> QED
  BY <1>5, <1>6, <1>7, CountsKept

-----------------------------------------------------------------------------
(* The two sides of a connection.                                          *)

\* The daemon's side changes and stays in step.
LEMMA ServerSide ==
    ASSUME Connections, NEW c \in Clients, NEW n, srv' = [srv EXCEPT ![c] = n], UNCHANGED cl,
           ServerSideOK(n), InStep(cl[c], n)
    PROVE  Connections'
  BY DEF Connections

\* What handles a request has the client waiting, and nothing said yet.
LEMMA Handling ==
    ASSUME Connections, NEW c \in Clients, srv[c].at \in {"received", "charge", "undo", "validate", "run"}
    PROVE  cl[c].at = "wait" /\ srv[c].out = << >> /\ ServerSideOK(srv[c])
  BY DEF Connections, ClientSideOK, InStep

\* An answer ends the handling of a request.
LEMMA Answered ==
    ASSUME Connections, NEW c \in Clients, srv[c].at \in {"received", "charge", "undo", "validate", "run"},
           NEW r, ServerSideOK(r), r.out = << >>, NEW reply, Answer(c, r, reply), UNCHANGED cl
    PROVE  /\ Connections'
           /\ \E n : /\ srv' = [srv EXCEPT ![c] = n]
                     /\ n.at = "read" /\ n.secret = r.secret /\ n.limit = r.limit
<1> DEFINE n == [r EXCEPT !.at = "read", !.out = Append(@, reply)]
<1>1. srv' = [srv EXCEPT ![c] = n]
  BY DEF Answer
<1>2. n = [at |-> "read", words |-> r.words, auth |-> r.auth, secret |-> r.secret, limit |-> r.limit,
           out |-> << reply >>, did |-> r.did]
  <2>1. r = [at |-> r.at, words |-> r.words, auth |-> r.auth, secret |-> r.secret, limit |-> r.limit,
             out |-> << >>, did |-> r.did]
    BY DEF ServerSideOK
  <2>2. Append(r.out, reply) = << reply >>
    OBVIOUS
  <2>3. n = [r EXCEPT !.at = "read", !.out = << reply >>]
    BY <2>2
  <2> HIDE DEF n
  <2> QED
    BY <2>1, <2>3
<1> HIDE DEF n
<1>3. /\ n.at = "read" /\ n.words = r.words /\ n.auth = r.auth /\ n.secret = r.secret /\ n.limit = r.limit
      /\ n.out = << reply >> /\ n.did = r.did
  BY <1>2
<1>4. ServerSideOK(n)
  <2>1. n = [at |-> n.at, words |-> n.words, auth |-> n.auth, secret |-> n.secret, limit |-> n.limit,
             out |-> n.out, did |-> n.did]
    BY <1>2, <1>3
  <2> QED
    BY <1>3, <2>1 DEF ServerSideOK
<1>5. InStep(cl[c], n)
  BY <1>3, Handling DEF InStep
<1>6. Connections'
  BY <1>1, <1>4, <1>5, ServerSide
<1> QED
  BY <1>1, <1>3, <1>6

\* A request goes on.
LEMMA GoneOn ==
    ASSUME Connections, NEW c \in Clients, srv[c].at \in {"received", "charge", "undo", "validate", "run"},
           NEW at \in {"charge", "undo", "validate", "run"}, GoOn(c, at), UNCHANGED cl,
           at \in {"charge", "undo"} => srv[c].secret # "none" /\ srv[c].limit > 0
    PROVE  /\ Connections'
           /\ \E n : /\ srv' = [srv EXCEPT ![c] = n]
                     /\ n.at = at /\ n.secret = srv[c].secret /\ n.limit = srv[c].limit
<1> DEFINE r == srv[c]
           n == [r EXCEPT !.at = at]
<1>1. srv' = [srv EXCEPT ![c] = n]
  BY DEF GoOn, Connections
<1>2. ServerSideOK(r) /\ r.out = << >> /\ cl[c].at = "wait"
  BY Handling
<1>3. n = [at |-> at, words |-> r.words, auth |-> r.auth, secret |-> r.secret, limit |-> r.limit,
           out |-> r.out, did |-> r.did]
  <2>1. r = [at |-> r.at, words |-> r.words, auth |-> r.auth, secret |-> r.secret, limit |-> r.limit,
             out |-> r.out, did |-> r.did]
    BY <1>2 DEF ServerSideOK
  <2> HIDE DEF r
  <2> QED
    BY <2>1
<1> HIDE DEF n
<1>4. /\ n.at = at /\ n.words = r.words /\ n.auth = r.auth /\ n.secret = r.secret /\ n.limit = r.limit
      /\ n.out = r.out /\ n.did = r.did
  BY <1>3
<1>5. ServerSideOK(n)
  <2>1. n = [at |-> n.at, words |-> n.words, auth |-> n.auth, secret |-> n.secret, limit |-> n.limit,
             out |-> n.out, did |-> n.did]
    BY <1>3, <1>4
  <2> QED
    BY <1>2, <1>4, <2>1 DEF ServerSideOK
<1>6. InStep(cl[c], n)
  BY <1>2, <1>4 DEF InStep
<1>7. Connections'
  BY <1>1, <1>5, <1>6, ServerSide
<1> QED
  BY <1>1, <1>4, <1>7

\* A connection that is no longer authenticated holds no secret.
LEMMA NotAuthenticatedOK ==
    ASSUME NEW r, ServerSideOK(r), r.at \notin {"charge", "undo"}
    PROVE  LET n == NotAuthenticated(r)
           IN  ServerSideOK(n) /\ n.secret = "none" /\ n.limit = 0 /\ n.at = r.at /\ n.out = r.out
<1> DEFINE n == NotAuthenticated(r)
<1>1. r = [at |-> r.at, words |-> r.words, auth |-> r.auth, secret |-> r.secret, limit |-> r.limit,
           out |-> r.out, did |-> r.did]
  BY DEF ServerSideOK
<1>2. n = [at |-> r.at, words |-> r.words, auth |-> "no", secret |-> "none", limit |-> 0,
           out |-> r.out, did |-> r.did]
  <2>1. n = [r EXCEPT !.auth = "no", !.secret = "none", !.limit = 0]
    BY DEF NotAuthenticated
  <2> HIDE DEF n
  <2> QED
    BY <1>1, <2>1
<1> HIDE DEF n
<1>3. /\ n.at = r.at /\ n.words = r.words /\ n.auth = "no" /\ n.secret = "none" /\ n.limit = 0
      /\ n.out = r.out /\ n.did = r.did
  BY <1>2
<1>4. n = [at |-> n.at, words |-> n.words, auth |-> n.auth, secret |-> n.secret, limit |-> n.limit,
           out |-> n.out, did |-> n.did]
  BY <1>2, <1>3
<1>5. ServerSideOK(n)
  BY <1>3, <1>4 DEF ServerSideOK
<1> QED
  BY <1>3, <1>5 DEF n

-----------------------------------------------------------------------------
(* The command loop.                                                       *)

\* A successful AUTH: the key is counted as held once more at most, and one more
\* authentication is on its account.
LEMMA AuthStep ==
    ASSUME ConnInv, NEW c \in Clients, srv[c].at = "received", NEW s \in Secrets, registry[s] # Revoked,
           Answer(c, [srv[c] EXCEPT !.auth = "yes", !.secret = s, !.limit = registry[s]], Ok),
           account' = [account EXCEPT ![s].auths = @ + 1],
           UNCHANGED <<mode, registry, counter, engine, cl, used>>
    PROVE  ConnInv'
<1> DEFINE old == srv[c]
           r == [srv[c] EXCEPT !.auth = "yes", !.secret = s, !.limit = registry[s]]
<1>1. registry[s] \in Limits /\ "none" \notin Secrets
  BY ConnectionAssumption DEF ConnInv, Tables
<1>2. ServerSideOK(old) /\ old.out = << >>
  BY Handling DEF ConnInv
<1>3. r = [at |-> "received", words |-> old.words, auth |-> "yes", secret |-> s, limit |-> registry[s],
           out |-> << >>, did |-> old.did]
  <2>1. old = [at |-> old.at, words |-> old.words, auth |-> old.auth, secret |-> old.secret, limit |-> old.limit,
               out |-> old.out, did |-> old.did]
    BY <1>2 DEF ServerSideOK
  <2>2. r = [old EXCEPT !.auth = "yes", !.secret = s, !.limit = registry[s]]
    OBVIOUS
  <2>3. old.at = "received"
    OBVIOUS
  <2> HIDE DEF old, r
  <2> QED
    BY <1>2, <2>1, <2>2, <2>3
<1>4. Answer(c, r, Ok)
  OBVIOUS
<1> HIDE DEF r
<1>5. /\ r.at = "received" /\ r.words = old.words /\ r.auth = "yes" /\ r.secret = s /\ r.limit = registry[s]
      /\ r.out = << >> /\ r.did = old.did
  BY <1>3
<1>6. ServerSideOK(r)
  <2>1. r = [at |-> r.at, words |-> r.words, auth |-> r.auth, secret |-> r.secret, limit |-> r.limit,
             out |-> r.out, did |-> r.did]
    BY <1>3, <1>5
  <2> QED
    BY <1>1, <1>5, <2>1 DEF ServerSideOK
<1>7. Connections' /\ \E n : srv' = [srv EXCEPT ![c] = n] /\ n.at = "read" /\ n.secret = s /\ n.limit = r.limit
  <2>1. Connections
    BY DEF ConnInv
  <2> QED
    BY <1>4, <1>5, <1>6, <2>1, Answered
<1>8. PICK n : srv' = [srv EXCEPT ![c] = n] /\ n.at = "read" /\ n.secret = s
  BY <1>7
<1>9. Tables'
  BY DEF ConnInv, Tables
<1>10. \A t \in Secrets : CountsOf(t)'
  <2> TAKE t \in Secrets
  <2>1. PendBit(t, n) = 0 /\ PendBit(t, srv[c]) = 0 /\ UndoBit(t, n) = 0 /\ UndoBit(t, srv[c]) = 0
    BY <1>8 DEF PendBit, UndoBit
  <2>2. HoldBit(t, n) = (IF t = s THEN 1 ELSE 0) /\ HoldBit(t, srv[c]) \in {0, 1}
    BY <1>8 DEF HoldBit
  <2>3. /\ account'[t].served = account[t].served /\ account'[t].refused = account[t].refused
        /\ account'[t].late = account[t].late
        /\ account'[t].auths = account[t].auths + (IF t = s THEN 1 ELSE 0)
    BY DEF ConnInv, Tables
  <2>4. /\ counter'[t] = counter[t] /\ counter[t] \in Int
        /\ account[t].served \in Nat /\ account[t].refused \in Nat
        /\ account[t].late \in Nat /\ account[t].auths \in Nat
    BY DEF ConnInv, Tables
  <2>5. counter'[t] - counter[t] = (account'[t].served - account[t].served)
            + (account'[t].refused - account[t].refused) + (PendBit(t, n) - PendBit(t, srv[c]))
    BY <2>1, <2>3, <2>4
  <2>6. (account'[t].late - account[t].late) + (HoldBit(t, n) - HoldBit(t, srv[c]))
            <= account'[t].auths - account[t].auths
    BY <2>2, <2>3, <2>4
  <2>7. counter'[t] - counter[t] <= UndoBit(t, n) - UndoBit(t, srv[c])
    BY <2>1, <2>4
  <2> QED
    BY <1>8, <1>9, <2>5, <2>6, <2>7, CountsKept
<1> QED
  BY <1>7, <1>9, <1>10 DEF ConnInv

\* An answer that charges nothing, to a connection that holds no more than before.
LEMMA PlainAnswer ==
    ASSUME ConnInv, NEW c \in Clients, srv[c].at = "received", NEW r, ServerSideOK(r), r.out = << >>,
           r.secret \in {srv[c].secret, "none"}, NEW reply, Answer(c, r, reply),
           UNCHANGED <<mode, registry, counter, engine, cl, account, used>>
    PROVE  ConnInv'
<1>1. Connections' /\ \E n : srv' = [srv EXCEPT ![c] = n] /\ n.at = "read" /\ n.secret = r.secret /\ n.limit = r.limit
  <2>1. Connections
    BY DEF ConnInv
  <2> QED
    BY <2>1, Answered
<1>2. PICK n : srv' = [srv EXCEPT ![c] = n] /\ n.at = "read" /\ n.secret = r.secret
  BY <1>1
<1>3. Tables'
  BY DEF ConnInv, Tables
<1>4. \A s \in Secrets : PendBit(s, n) = PendBit(s, srv[c]) /\ UndoBit(s, srv[c]) = 0
  BY <1>2 DEF PendBit, UndoBit
<1>5. \A s \in Secrets : HoldBit(s, n) <= HoldBit(s, srv[c])
  BY <1>2, ConnectionAssumption DEF HoldBit
<1>6. \A s \in Secrets : CountsOf(s)'
  BY <1>2, <1>3, <1>4, <1>5, CountsAlone
<1> QED
  BY <1>1, <1>3, <1>6 DEF ConnInv

\* A request is received.
LEMMA ReceiveStep == ASSUME ConnInv, NEW c \in Clients, Receive(c) PROVE ConnInv'
<1>1. srv[c].at = "received" /\ UNCHANGED <<mode, registry, counter, engine, cl, used>>
  BY DEF Receive
<1>2. ServerSideOK(srv[c]) /\ srv[c].out = << >>
  BY <1>1, Handling DEF ConnInv
<1>3. CASE srv[c].words[1] = "AUTH" /\ handle_auth(c)
  <2> DEFINE s == Named(c)
             unnamed == Len(srv[c].words) < 2
  <2>1. CASE ~unnamed /\ s \in Secrets /\ registry[s] # Revoked
    <3>1. /\ Answer(c, [srv[c] EXCEPT !.auth = "yes", !.secret = s, !.limit = registry[s]], Ok)
          /\ account' = [account EXCEPT ![s].auths = @ + 1]
      BY <1>3, <2>1 DEF handle_auth
    <3> QED
      BY <1>1, <2>1, <3>1, AuthStep
  <2>2. CASE ~unnamed /\ ~(s \in Secrets /\ registry[s] # Revoked)
    <3> DEFINE r == NotAuthenticated(srv[c])
    <3>1. Answer(c, r, Error) /\ UNCHANGED account
      BY <1>3, <2>2 DEF handle_auth
    <3>2. ServerSideOK(r) /\ r.secret = "none" /\ r.out = srv[c].out
      BY <1>1, <1>2, NotAuthenticatedOK
    <3> HIDE DEF r
    <3> QED
      BY <1>1, <1>2, <3>1, <3>2, PlainAnswer
  <2>3. CASE unnamed
    <3>1. Answer(c, srv[c], Error) /\ UNCHANGED account
      BY <1>3, <2>3 DEF handle_auth
    <3> QED
      BY <1>1, <1>2, <3>1, PlainAnswer
  <2> QED
    BY <2>1, <2>2, <2>3
<1>4. ASSUME NEW reply, Answer(c, srv[c], reply), UNCHANGED account PROVE ConnInv'
  BY <1>1, <1>2, <1>4, PlainAnswer
<1>5. ASSUME GoOn(c, IF Limited(c) THEN "charge" ELSE "validate"), UNCHANGED account PROVE ConnInv'
  <2> DEFINE at == IF Limited(c) THEN "charge" ELSE "validate"
  <2>1. at \in {"charge", "undo", "validate", "run"} /\ GoOn(c, at)
        /\ (at \in {"charge", "undo"} => srv[c].secret # "none" /\ srv[c].limit > 0)
    BY <1>5 DEF Limited
  <2>2. at = "validate" => ~Limited(c)
    OBVIOUS
  <2>3. at \in {"charge", "validate"}
    OBVIOUS
  <2> HIDE DEF at
  <2>4. Connections' /\ \E n : srv' = [srv EXCEPT ![c] = n] /\ n.at = at /\ n.secret = srv[c].secret /\ n.limit = srv[c].limit
    <3>1. Connections
      BY DEF ConnInv
    <3> QED
      BY <1>1, <2>1, <3>1, GoneOn
  <2>5. PICK n : srv' = [srv EXCEPT ![c] = n] /\ n.at = at /\ n.secret = srv[c].secret /\ n.limit = srv[c].limit
    BY <2>4
  <2>6. Tables'
    BY <1>1, <1>5 DEF ConnInv, Tables
  <2>7. \A s \in Secrets : PendBit(s, n) = PendBit(s, srv[c]) /\ UndoBit(s, srv[c]) = 0
    BY <1>1, <2>2, <2>3, <2>5, ConnectionAssumption DEF PendBit, UndoBit, Limited
  <2>8. \A s \in Secrets : HoldBit(s, n) <= HoldBit(s, srv[c])
    BY <2>5 DEF HoldBit
  <2>9. \A s \in Secrets : CountsOf(s)'
    BY <1>1, <1>5, <2>5, <2>6, <2>7, <2>8, CountsAlone
  <2> QED
    BY <2>4, <2>6, <2>9 DEF ConnInv
<1> QED
  BY <1>3, <1>4, <1>5 DEF Receive

\* A command is charged.  Below the limit the counter stays below the largest
\* limit; otherwise it is counted as being undone.
LEMMA ChargeStep == ASSUME ConnInv, NEW c \in Clients, Charge(c) PROVE ConnInv'
<1> DEFINE old == srv[c]
           at == IF counter[old.secret] >= old.limit THEN "undo" ELSE "validate"
<1>1. /\ old.at = "charge" /\ UNCHANGED <<mode, registry, engine, cl, account, used>>
      /\ counter' = [counter EXCEPT ![old.secret] = @ + 1] /\ GoOn(c, at)
  BY DEF Charge
<1>2. /\ old.secret \in Secrets /\ old.limit > 0 /\ old.limit \in Limits
      /\ counter[old.secret] \in Int
  <2>1. ServerSideOK(old)
    BY DEF ConnInv, Connections
  <2> QED
    BY <1>1, <2>1 DEF ServerSideOK, ConnInv, Tables
<1>3. /\ at \in {"undo", "validate"}
      /\ at = "validate" => counter[old.secret] < old.limit
  <2>1. old.limit \in Nat /\ counter[old.secret] \in Int
    BY <1>2, ConnectionAssumption
  <2>2. \A k \in Int, l \in Nat : ~(k >= l) => k < l
    OBVIOUS
  <2>3. ~(counter[old.secret] >= old.limit) => counter[old.secret] < old.limit
    BY <2>1, <2>2
  <2> HIDE DEF old
  <2> QED
    BY <2>3
<1> HIDE DEF at
<1>4. Connections' /\ \E n : srv' = [srv EXCEPT ![c] = n] /\ n.at = at /\ n.secret = old.secret /\ n.limit = old.limit
  <2>1. Connections
    BY DEF ConnInv
  <2>2. old.secret # "none"
    BY <1>2, ConnectionAssumption
  <2> QED
    BY <1>1, <1>2, <1>3, <2>1, <2>2, GoneOn
<1>5. PICK n : srv' = [srv EXCEPT ![c] = n] /\ n.at = at /\ n.secret = old.secret /\ n.limit = old.limit
  BY <1>4
<1>6. Tables'
  BY <1>1, <1>2 DEF ConnInv, Tables
<1>7. \A s \in Secrets : CountsOf(s)'
  <2> TAKE s \in Secrets
  <2>1. PendBit(s, old) = 0 /\ UndoBit(s, old) = 0 /\ HoldBit(s, n) = HoldBit(s, old)
    BY <1>1, <1>5 DEF PendBit, UndoBit, HoldBit
  <2>2. account'[s] = account[s] /\ HoldBit(s, old) \in {0, 1}
    BY <1>1 DEF HoldBit
  <2>3. /\ counter[s] \in Int
        /\ account[s].served \in Nat /\ account[s].refused \in Nat
        /\ account[s].late \in Nat /\ account[s].auths \in Nat
    BY DEF ConnInv, Tables
  <2>4. (account'[s].late - account[s].late) + (HoldBit(s, n) - HoldBit(s, old))
            <= account'[s].auths - account[s].auths
    BY <2>1, <2>2, <2>3
  <2>5. CASE s # old.secret
    <3>1. counter'[s] = counter[s] /\ PendBit(s, n) = 0 /\ UndoBit(s, n) = 0
      BY <1>1, <1>5, <2>5 DEF PendBit, UndoBit
    <3>2. counter'[s] - counter[s] = (account'[s].served - account[s].served)
              + (account'[s].refused - account[s].refused) + (PendBit(s, n) - PendBit(s, old))
      BY <2>1, <2>2, <2>3, <3>1
    <3>3. counter'[s] - counter[s] <= UndoBit(s, n) - UndoBit(s, old)
      BY <2>1, <2>3, <3>1
    <3> QED
      BY <1>5, <1>6, <2>4, <3>2, <3>3, CountsKept
  <2>6. CASE s = old.secret
    <3>1. counter'[s] = counter[s] + 1 /\ PendBit(s, n) = 1
      <4>1. counter'[s] = counter[s] + 1
        BY <1>1, <2>6 DEF ConnInv, Tables
      <4>2. n.at \in {"undo", "validate", "run"} /\ n.secret = s /\ n.limit > 0
        BY <1>2, <1>3, <1>5, <2>6
      <4> QED
        BY <4>1, <4>2 DEF PendBit
    <3>2. counter'[s] - counter[s] = (account'[s].served - account[s].served)
              + (account'[s].refused - account[s].refused) + (PendBit(s, n) - PendBit(s, old))
      BY <2>1, <2>2, <2>3, <3>1
    <3>3. CASE at = "undo"
      <4>1. UndoBit(s, n) = 1
        BY <1>5, <2>6, <3>3 DEF UndoBit
      <4>2. counter'[s] - counter[s] <= UndoBit(s, n) - UndoBit(s, old)
        BY <2>1, <2>3, <3>1, <4>1
      <4> QED
        BY <1>5, <1>6, <2>4, <3>2, <4>2, CountsKept
    <3>4. CASE at = "validate"
      <4>1. old.limit \in Nat /\ old.limit <= MaxLimit /\ MaxLimit \in Nat
        BY <1>2, MaxLimitIs
      <4>2. counter[s] < old.limit
        BY <1>3, <2>6, <3>4
      <4> HIDE DEF old
      <4>3. counter'[s] <= MaxLimit
        BY <2>3, <3>1, <4>1, <4>2
      <4> QED
        BY <1>5, <1>6, <2>1, <2>4, <3>2, <4>3, CountsKept DEF old
    <3> QED
      BY <1>3, <3>3, <3>4
  <2> QED
    BY <2>5, <2>6
<1> QED
  BY <1>4, <1>6, <1>7 DEF ConnInv

\* A charge is taken back.
LEMMA UndoStep == ASSUME ConnInv, NEW c \in Clients, Undo(c) PROVE ConnInv'
<1> DEFINE old == srv[c]
<1>1. /\ old.at = "undo" /\ UNCHANGED <<mode, registry, engine, cl, account, used>>
      /\ counter' = [counter EXCEPT ![old.secret] = @ - 1] /\ Answer(c, old, Error)
  BY DEF Undo
<1>2. ServerSideOK(old) /\ old.out = << >>
  BY <1>1, Handling DEF ConnInv
<1>3. old.secret \in Secrets /\ old.limit > 0 /\ counter[old.secret] \in Int
  BY <1>1, <1>2 DEF ServerSideOK, ConnInv, Tables
<1>4. Connections' /\ \E n : srv' = [srv EXCEPT ![c] = n] /\ n.at = "read" /\ n.secret = old.secret /\ n.limit = old.limit
  <2>1. Connections
    BY DEF ConnInv
  <2> QED
    BY <1>1, <1>2, <2>1, Answered
<1>5. PICK n : srv' = [srv EXCEPT ![c] = n] /\ n.at = "read" /\ n.secret = old.secret
  BY <1>4
<1>6. Tables'
  BY <1>1, <1>3 DEF ConnInv, Tables
<1>7. \A s \in Secrets : CountsOf(s)'
  <2> TAKE s \in Secrets
  <2> DEFINE bit == IF s = old.secret THEN 1 ELSE 0
  <2>1. /\ PendBit(s, old) = bit /\ UndoBit(s, old) = bit /\ PendBit(s, n) = 0 /\ UndoBit(s, n) = 0
        /\ HoldBit(s, n) = HoldBit(s, old) /\ HoldBit(s, old) \in {0, 1}
    BY <1>1, <1>3, <1>5 DEF PendBit, UndoBit, HoldBit
  <2>2. account'[s] = account[s] /\ counter'[s] = counter[s] - bit
    BY <1>1 DEF ConnInv, Tables
  <2>3. /\ counter[s] \in Int
        /\ account[s].served \in Nat /\ account[s].refused \in Nat
        /\ account[s].late \in Nat /\ account[s].auths \in Nat
    BY DEF ConnInv, Tables
  <2>4. bit \in {0, 1}
    OBVIOUS
  <2> HIDE DEF bit
  <2>5. (account'[s].late - account[s].late) + (HoldBit(s, n) - HoldBit(s, old))
            <= account'[s].auths - account[s].auths
    BY <2>1, <2>2, <2>3
  <2>6. counter'[s] - counter[s] = (account'[s].served - account[s].served)
            + (account'[s].refused - account[s].refused) + (PendBit(s, n) - PendBit(s, old))
    BY <2>1, <2>2, <2>3, <2>4
  <2>7. counter'[s] - counter[s] <= UndoBit(s, n) - UndoBit(s, old)
    BY <2>1, <2>2, <2>3, <2>4
  <2> QED
    BY <1>5, <1>6, <2>5, <2>6, <2>7, CountsKept
<1> QED
  BY <1>4, <1>6, <1>7 DEF ConnInv

\* An answer to a command that may have been charged, and whose account is settled:
\* one more command of its secret if it was, and late if the secret is let go.
LEMMA SettledAnswer ==
    ASSUME ConnInv, NEW c \in Clients, srv[c].at \in {"validate", "run"},
           NEW n, srv' = [srv EXCEPT ![c] = n], n.at \in {"read", "closed"},
           n.secret \in {srv[c].secret, "none"}, UNCHANGED counter, Connections', Tables',
           \A s \in Secrets :
              /\ (account'[s].served - account[s].served) + (account'[s].refused - account[s].refused)
                    = PendBit(s, srv[c])
              /\ account'[s].auths = account[s].auths
              /\ account'[s].late - account[s].late <= HoldBit(s, srv[c]) - HoldBit(s, n)
    PROVE  ConnInv'
<1>1. \A s \in Secrets : CountsOf(s)'
  <2> TAKE s \in Secrets
  <2>1. /\ PendBit(s, n) = 0 /\ UndoBit(s, n) = 0 /\ UndoBit(s, srv[c]) = 0
        /\ PendBit(s, srv[c]) \in {0, 1} /\ HoldBit(s, srv[c]) \in {0, 1} /\ HoldBit(s, n) \in {0, 1}
    BY DEF PendBit, UndoBit, HoldBit
  <2>2. /\ (account'[s].served - account[s].served) + (account'[s].refused - account[s].refused)
              = PendBit(s, srv[c])
        /\ account'[s].auths = account[s].auths
        /\ account'[s].late - account[s].late <= HoldBit(s, srv[c]) - HoldBit(s, n)
    OBVIOUS
  <2>3. /\ counter'[s] = counter[s] /\ counter[s] \in Int
        /\ account[s].served \in Nat /\ account[s].refused \in Nat
        /\ account[s].late \in Nat /\ account[s].auths \in Nat
        /\ account'[s].served \in Nat /\ account'[s].refused \in Nat
        /\ account'[s].late \in Nat /\ account'[s].auths \in Nat
    BY DEF ConnInv, Tables
  <2>4. counter'[s] - counter[s] = (account'[s].served - account[s].served)
            + (account'[s].refused - account[s].refused) + (PendBit(s, n) - PendBit(s, srv[c]))
    BY <2>1, <2>2, <2>3
  <2>5. (account'[s].late - account[s].late) + (HoldBit(s, n) - HoldBit(s, srv[c]))
            <= account'[s].auths - account[s].auths
    BY <2>1, <2>2, <2>3
  <2>6. counter'[s] - counter[s] <= UndoBit(s, n) - UndoBit(s, srv[c])
    BY <2>1, <2>3
  <2> QED
    BY <2>4, <2>5, <2>6, CountsKept
<1> QED
  BY <1>1 DEF ConnInv

\* The bit of a charged command, by the code's own condition.
LEMMA LimitedBit ==
    ASSUME NEW c \in Clients, srv[c].at \in {"validate", "run"}, NEW s \in Secrets
    PROVE  PendBit(s, srv[c]) = IF Limited(c) /\ s = srv[c].secret THEN 1 ELSE 0
  BY ConnectionAssumption DEF PendBit, Limited

\* What is on an account when one more command of srv[c]'s secret is refused.
LEMMA RefusedAccount ==
    ASSUME Tables, NEW c \in Clients, srv[c].secret \in Secrets
    PROVE  /\ Refused(c) \in [Secrets -> [served : Nat, refused : Nat, auths : Nat, late : Nat]]
           /\ \A s \in Secrets :
                 /\ Refused(c)[s].served = account[s].served /\ Refused(c)[s].auths = account[s].auths
                 /\ Refused(c)[s].late = account[s].late
                 /\ Refused(c)[s].refused = account[s].refused
                       + (IF Limited(c) /\ s = srv[c].secret THEN 1 ELSE 0)
<1> DEFINE one == IF Limited(c) THEN 1 ELSE 0
<1>1. one \in Nat /\ (Limited(c) => one = 1) /\ (~Limited(c) => one = 0)
  OBVIOUS
<1>2. Refused(c) = [account EXCEPT ![srv[c].secret].refused = account[srv[c].secret].refused + one]
  BY DEF Refused, Tables
<1>3. account \in [Secrets -> [served : Nat, refused : Nat, auths : Nat, late : Nat]]
  BY DEF Tables
<1> HIDE DEF one
<1>4. Refused(c) \in [Secrets -> [served : Nat, refused : Nat, auths : Nat, late : Nat]]
  BY <1>1, <1>2, <1>3
<1>5. ASSUME NEW s \in Secrets
      PROVE  /\ Refused(c)[s].served = account[s].served /\ Refused(c)[s].auths = account[s].auths
             /\ Refused(c)[s].late = account[s].late
             /\ Refused(c)[s].refused = account[s].refused
                   + (IF Limited(c) /\ s = srv[c].secret THEN 1 ELSE 0)
  <2>1. CASE s = srv[c].secret
    BY <1>1, <1>2, <1>3, <2>1
  <2>2. CASE s # srv[c].secret
    BY <1>1, <1>2, <1>3, <2>2
  <2> QED
    BY <2>1, <2>2
<1> QED
  BY <1>4, <1>5

\* The key is looked up again: a command of a revoked one is late, and its
\* connection lets the key go.
LEMMA ValidateStep == ASSUME ConnInv, NEW c \in Clients, Validate(c) PROVE ConnInv'
<1> DEFINE old == srv[c]
<1>1. old.at = "validate" /\ UNCHANGED <<mode, registry, counter, engine, cl, used>>
  BY DEF Validate
<1>2. Connections /\ ServerSideOK(old) /\ old.out = << >>
  BY <1>1, Handling DEF ConnInv
<1>3. CASE StillValid(c)
  <2>1. GoOn(c, "run") /\ UNCHANGED account
    BY <1>3 DEF Validate
  <2>2. Connections' /\ \E n : srv' = [srv EXCEPT ![c] = n] /\ n.at = "run" /\ n.secret = old.secret /\ n.limit = old.limit
    BY <1>1, <1>2, <2>1, GoneOn
  <2>3. PICK n : srv' = [srv EXCEPT ![c] = n] /\ n.at = "run" /\ n.secret = old.secret /\ n.limit = old.limit
    BY <2>2
  <2>4. Tables'
    BY <1>1, <2>1 DEF ConnInv, Tables
  <2>5. \A s \in Secrets : PendBit(s, n) = PendBit(s, old) /\ UndoBit(s, old) = 0
    BY <1>1, <2>3 DEF PendBit, UndoBit
  <2>6. \A s \in Secrets : HoldBit(s, n) <= HoldBit(s, old)
    BY <2>3 DEF HoldBit
  <2>7. \A s \in Secrets : CountsOf(s)'
    BY <1>1, <2>1, <2>3, <2>4, <2>5, <2>6, CountsAlone
  <2> QED
    BY <2>2, <2>4, <2>7 DEF ConnInv
<1>4. CASE ~StillValid(c)
  <2> DEFINE r == NotAuthenticated(old)
  <2>1. Answer(c, r, Error) /\ account' = [Refused(c) EXCEPT ![old.secret].late = @ + 1]
    BY <1>4 DEF Validate
  <2>2. old.secret \in Secrets
    BY <1>2, <1>4 DEF StillValid, ServerSideOK
  <2>3. ServerSideOK(r) /\ r.secret = "none" /\ r.out = old.out
    BY <1>1, <1>2, NotAuthenticatedOK
  <2> HIDE DEF r
  <2>4. Connections' /\ \E n : srv' = [srv EXCEPT ![c] = n] /\ n.at = "read" /\ n.secret = "none" /\ n.limit = r.limit
    BY <1>1, <1>2, <2>1, <2>3, Answered
  <2>5. PICK n : srv' = [srv EXCEPT ![c] = n] /\ n.at = "read" /\ n.secret = "none"
    BY <2>4
  <2> DEFINE refused == Refused(c)
  <2>6. /\ refused \in [Secrets -> [served : Nat, refused : Nat, auths : Nat, late : Nat]]
        /\ \A s \in Secrets :
              /\ refused[s].served = account[s].served /\ refused[s].auths = account[s].auths
              /\ refused[s].late = account[s].late
              /\ refused[s].refused = account[s].refused
                    + (IF Limited(c) /\ s = old.secret THEN 1 ELSE 0)
    BY <2>2, RefusedAccount DEF ConnInv
  <2> HIDE DEF refused
  <2>7. account' = [refused EXCEPT ![old.secret].late = @ + 1]
    BY <2>1 DEF refused
  <2>8. Tables'
    BY <1>1, <2>2, <2>6, <2>7 DEF ConnInv, Tables
  <2>9. ASSUME NEW s \in Secrets
        PROVE  /\ (account'[s].served - account[s].served) + (account'[s].refused - account[s].refused)
                     = PendBit(s, old)
               /\ account'[s].auths = account[s].auths
               /\ account'[s].late - account[s].late <= HoldBit(s, old) - HoldBit(s, n)
    <3>1. PendBit(s, old) = IF Limited(c) /\ s = old.secret THEN 1 ELSE 0
      BY <1>1, LimitedBit
    <3>2. account[s].served \in Nat /\ account[s].refused \in Nat /\ account[s].late \in Nat
      BY DEF ConnInv, Tables
    <3>3. HoldBit(s, n) = 0 /\ HoldBit(s, old) = IF s = old.secret THEN 1 ELSE 0
      BY <2>5, ConnectionAssumption DEF HoldBit
    <3>4. /\ account'[s].served = account[s].served /\ account'[s].auths = account[s].auths
          /\ account'[s].refused = account[s].refused + (IF Limited(c) /\ s = old.secret THEN 1 ELSE 0)
          /\ account'[s].late = account[s].late + (IF s = old.secret THEN 1 ELSE 0)
      <4>1. CASE s = old.secret
        BY <2>6, <2>7, <4>1
      <4>2. CASE s # old.secret
        BY <2>2, <2>6, <2>7, <3>2, <4>2
      <4> QED
        BY <4>1, <4>2
    <3> QED
      BY <3>1, <3>2, <3>3, <3>4
  <2> QED
    BY <1>1, <2>4, <2>5, <2>8, <2>9, SettledAnswer
<1> QED
  BY <1>3, <1>4

\* A command is run, or refused by permission, or its connection panics.
LEMMA RunStep == ASSUME ConnInv, NEW c \in Clients, Run(c) PROVE ConnInv'
<1> DEFINE old == srv[c]
           result == IF Permitted(c) THEN handle_resp(srv[c].words) ELSE Failed
           r == [old EXCEPT !.did = result.did]
<1>1. /\ old.at = "run" /\ UNCHANGED <<mode, registry, counter, cl, used>>
      /\ IF result.reply = NoReply THEN srv' = [srv EXCEPT ![c] = NoConnection] ELSE Answer(c, r, result.reply)
      /\ account' = IF ~Limited(c) THEN account
                    ELSE IF Permitted(c) THEN [account EXCEPT ![old.secret].served = @ + 1]
                    ELSE Refused(c)
  BY DEF Run
<1>2. Connections /\ ServerSideOK(old) /\ old.out = << >> /\ cl[c].at = "wait"
  BY <1>1, Handling DEF ConnInv
<1> HIDE DEF result
<1>3. Connections' /\ \E n : srv' = [srv EXCEPT ![c] = n] /\ n.at \in {"read", "closed"} /\ n.secret \in {old.secret, "none"}
  <2>1. CASE result.reply = NoReply
    <3>1. srv' = [srv EXCEPT ![c] = NoConnection]
      BY <1>1, <2>1
    <3>2. ServerSideOK(NoConnection) /\ InStep(cl[c], NoConnection)
      BY <1>2 DEF ServerSideOK, InStep, NoConnection
    <3>3. Connections'
      BY <1>1, <1>2, <3>1, <3>2, ServerSide
    <3>4. NoConnection.at = "closed" /\ NoConnection.secret = "none"
      BY DEF NoConnection
    <3> QED
      BY <3>1, <3>3, <3>4
  <2>2. CASE result.reply # NoReply
    <3>1. Answer(c, r, result.reply)
      BY <1>1, <2>2
    <3>2. r = [at |-> old.at, words |-> old.words, auth |-> old.auth, secret |-> old.secret, limit |-> old.limit,
               out |-> old.out, did |-> result.did]
      <4>1. old = [at |-> old.at, words |-> old.words, auth |-> old.auth, secret |-> old.secret, limit |-> old.limit,
                   out |-> old.out, did |-> old.did]
        BY <1>2 DEF ServerSideOK
      <4>2. r = [old EXCEPT !.did = result.did]
        OBVIOUS
      <4> HIDE DEF old, r
      <4> QED
        BY <4>1, <4>2
    <3> HIDE DEF r
    <3>3. /\ r.at = old.at /\ r.words = old.words /\ r.auth = old.auth /\ r.secret = old.secret
          /\ r.limit = old.limit /\ r.out = old.out /\ r.did = result.did
      BY <3>2
    <3>4. ServerSideOK(r) /\ r.out = << >>
      <4>1. r = [at |-> r.at, words |-> r.words, auth |-> r.auth, secret |-> r.secret, limit |-> r.limit,
                 out |-> r.out, did |-> r.did]
        BY <3>2, <3>3
      <4> QED
        BY <1>2, <3>3, <4>1 DEF ServerSideOK
    <3>5. Connections' /\ \E n : srv' = [srv EXCEPT ![c] = n] /\ n.at = "read" /\ n.secret = r.secret /\ n.limit = r.limit
      BY <1>1, <1>2, <3>1, <3>4, Answered
    <3> QED
      BY <3>3, <3>5
  <2> QED
    BY <2>1, <2>2
<1>4. PICK n : srv' = [srv EXCEPT ![c] = n] /\ n.at \in {"read", "closed"} /\ n.secret \in {old.secret, "none"}
  BY <1>3
<1>5. Limited(c) => old.secret \in Secrets
  BY <1>2 DEF Limited, ServerSideOK
<1>6. /\ account' \in [Secrets -> [served : Nat, refused : Nat, auths : Nat, late : Nat]]
      /\ \A s \in Secrets :
            /\ (account'[s].served - account[s].served) + (account'[s].refused - account[s].refused)
                  = IF Limited(c) /\ s = old.secret THEN 1 ELSE 0
            /\ account'[s].auths = account[s].auths /\ account'[s].late = account[s].late
  <2>0. account \in [Secrets -> [served : Nat, refused : Nat, auths : Nat, late : Nat]]
    BY DEF ConnInv, Tables
  <2>1. CASE ~Limited(c)
    BY <1>1, <2>0, <2>1
  <2>2. CASE Limited(c) /\ Permitted(c)
    <3>1. account' = [account EXCEPT ![old.secret].served = @ + 1] /\ old.secret \in Secrets
      BY <1>1, <1>5, <2>2
    <3> HIDE DEF old
    <3>2. account' \in [Secrets -> [served : Nat, refused : Nat, auths : Nat, late : Nat]]
      BY <2>0, <3>1
    <3>3. \A s \in Secrets :
            /\ (account'[s].served - account[s].served) + (account'[s].refused - account[s].refused)
                  = IF s = old.secret THEN 1 ELSE 0
            /\ account'[s].auths = account[s].auths /\ account'[s].late = account[s].late
      BY <2>0, <3>1
    <3> QED
      BY <2>2, <3>2, <3>3
  <2>3. CASE Limited(c) /\ ~Permitted(c)
    <3> DEFINE refused == Refused(c)
    <3>1. /\ refused \in [Secrets -> [served : Nat, refused : Nat, auths : Nat, late : Nat]]
          /\ \A s \in Secrets :
                /\ refused[s].served = account[s].served /\ refused[s].auths = account[s].auths
                /\ refused[s].late = account[s].late
                /\ refused[s].refused = account[s].refused
                      + (IF Limited(c) /\ s = old.secret THEN 1 ELSE 0)
      BY <1>5, <2>3, RefusedAccount DEF ConnInv
    <3> HIDE DEF refused
    <3>2. account' = refused
      BY <1>1, <2>3 DEF refused
    <3>3. \A s \in Secrets : account[s].served \in Nat /\ account[s].refused \in Nat
      BY <2>0
    <3> QED
      BY <2>3, <3>1, <3>2, <3>3
  <2> QED
    BY <2>1, <2>2, <2>3
<1>7. Tables'
  BY <1>1, <1>6 DEF ConnInv, Tables
<1>8. ASSUME NEW s \in Secrets
      PROVE  /\ (account'[s].served - account[s].served) + (account'[s].refused - account[s].refused)
                   = PendBit(s, old)
             /\ account'[s].auths = account[s].auths
             /\ account'[s].late - account[s].late <= HoldBit(s, old) - HoldBit(s, n)
  <2>1. PendBit(s, old) = IF Limited(c) /\ s = old.secret THEN 1 ELSE 0
    BY <1>1, LimitedBit
  <2>2. account[s].late \in Nat /\ account'[s].late = account[s].late
    BY <1>6 DEF ConnInv, Tables
  <2>3. HoldBit(s, old) \in {0, 1} /\ HoldBit(s, n) \in {0, 1} /\ HoldBit(s, n) <= HoldBit(s, old)
    BY <1>4, ConnectionAssumption DEF HoldBit
  <2> QED
    BY <1>6, <2>1, <2>2, <2>3
<1> QED
  BY <1>1, <1>3, <1>4, <1>7, <1>8, SettledAnswer

-----------------------------------------------------------------------------
(* Clients and reloads.                                                    *)

\* A client's step between requests: the connection, before and after, has no
\* command under way.
LEMMA ClientStep ==
    ASSUME ConnInv, NEW c \in Clients, NEW n, srv' = [srv EXCEPT ![c] = n], NEW k, cl' = [cl EXCEPT ![c] = k],
           srv[c].at \in {"closed", "read"}, n.at \in {"closed", "read", "received"},
           n.secret \in {srv[c].secret, "none"},
           ServerSideOK(n), ClientSideOK(k), InStep(k, n), UNCHANGED <<counter, account>>, Tables'
    PROVE  ConnInv'
<1>1. Connections'
  BY DEF ConnInv, Connections
<1>2. \A s \in Secrets : PendBit(s, n) = PendBit(s, srv[c]) /\ UndoBit(s, srv[c]) = 0
  BY DEF PendBit, UndoBit
<1>3. \A s \in Secrets : HoldBit(s, n) <= HoldBit(s, srv[c])
  BY ConnectionAssumption DEF HoldBit
<1>4. \A s \in Secrets : CountsOf(s)'
  BY <1>2, <1>3, CountsAlone
<1> QED
  BY <1>1, <1>4 DEF ConnInv

\* The two sides of one connection.
LEMMA Sides ==
    ASSUME ConnInv, NEW c \in Clients
    PROVE  /\ ServerSideOK(srv[c]) /\ ClientSideOK(cl[c]) /\ InStep(cl[c], srv[c])
           /\ DOMAIN srv = Clients /\ DOMAIN cl = Clients
  BY DEF ConnInv, Connections

\* The fields of a client that changes.
LEMMA ClientFields ==
    ASSUME NEW k, ClientSideOK(k), NEW at, NEW other
    PROVE  /\ [k EXCEPT !.at = at] = [at |-> at, todo |-> k.todo, said |-> k.said]
           /\ [k EXCEPT !.at = at, !.todo = other] = [at |-> at, todo |-> other, said |-> k.said]
<1>1. k = [at |-> k.at, todo |-> k.todo, said |-> k.said]
  BY DEF ClientSideOK
<1>2. [k EXCEPT !.at = at] = [at |-> at, todo |-> k.todo, said |-> k.said]
  BY <1>1
<1>3. PICK arrived : arrived = [at |-> at, todo |-> k.todo, said |-> k.said]
  OBVIOUS
<1>4. [k EXCEPT !.at = at, !.todo = other] = [arrived EXCEPT !.todo = other]
  BY <1>2, <1>3
<1>5. [arrived EXCEPT !.todo = other] = [at |-> at, todo |-> other, said |-> k.said]
  BY <1>3
<1> QED
  BY <1>2, <1>4, <1>5

\* The fields of a client that has its answer.
LEMMA ClientHeard ==
    ASSUME NEW k, ClientSideOK(k), NEW now
    PROVE  [k EXCEPT !.at = "told", !.said = now] = [at |-> "told", todo |-> k.todo, said |-> now]
<1>1. PICK told : told = [at |-> "told", todo |-> k.todo, said |-> k.said]
  OBVIOUS
<1>2. [k EXCEPT !.at = "told"] = told
  BY <1>1, ClientFields
<1>3. [k EXCEPT !.at = "told", !.said = now] = [told EXCEPT !.said = now]
  BY <1>2
<1>4. [told EXCEPT !.said = now] = [at |-> "told", todo |-> k.todo, said |-> now]
  BY <1>1
<1> QED
  BY <1>3, <1>4

\* A client connects.
LEMMA ConnectStep == ASSUME ConnInv, NEW c \in Clients, NEW program, connect(c, program) PROVE ConnInv'
<1> DEFINE k == [cl[c] EXCEPT !.at = "send", !.todo = program]
<1>1. /\ cl[c].at = "idle" /\ used.programs < MaxPrograms
      /\ cl' = [cl EXCEPT ![c] = k] /\ srv' = [srv EXCEPT ![c] = Fresh]
      /\ used' = [used EXCEPT !.programs = @ + 1]
      /\ UNCHANGED <<mode, registry, counter, engine, account>>
  BY Sides DEF connect
<1>2. k = [at |-> "send", todo |-> program, said |-> cl[c].said]
  BY Sides, ClientFields
<1> HIDE DEF k
<1>3. srv[c].at = "closed"
  BY <1>1, Sides DEF InStep
<1>4. /\ Fresh.at = "read" /\ Fresh.secret = "none" /\ Fresh.out = << >> /\ ServerSideOK(Fresh)
  BY DEF Fresh, ServerSideOK
<1>5. ClientSideOK(k) /\ InStep(k, Fresh)
  BY <1>2, <1>4 DEF ClientSideOK, InStep
<1>6. Tables'
  <2>1. used.programs \in 0..MaxPrograms /\ MaxPrograms \in Nat
    BY ConnectionAssumption DEF ConnInv, Tables
  <2>2. used.programs + 1 \in 0..MaxPrograms
    BY <1>1, <2>1
  <2> QED
    BY <1>1, <2>2 DEF ConnInv, Tables
<1> QED
  BY <1>1, <1>3, <1>4, <1>5, <1>6, ClientStep

\* A request is sent.
LEMMA SendStep == ASSUME ConnInv, NEW c \in Clients, Send(c) PROVE ConnInv'
<1> DEFINE r == srv[c]
           words == Words(Head(cl[c].todo))
           n == [r EXCEPT !.at = "received", !.words = words, !.did = Nothing]
           k == [cl[c] EXCEPT !.at = "wait"]
<1>1. /\ cl[c].at = "send" /\ cl' = [cl EXCEPT ![c] = k] /\ srv' = [srv EXCEPT ![c] = n]
      /\ UNCHANGED <<mode, registry, counter, engine, account, used>>
  BY Sides DEF Send
<1> HIDE DEF words
<1>2. k = [at |-> "wait", todo |-> cl[c].todo, said |-> cl[c].said]
  BY Sides, ClientFields
<1>3. n = [at |-> "received", words |-> words, auth |-> r.auth, secret |-> r.secret, limit |-> r.limit,
           out |-> r.out, did |-> Nothing]
  <2>1. r = [at |-> r.at, words |-> r.words, auth |-> r.auth, secret |-> r.secret, limit |-> r.limit,
             out |-> r.out, did |-> r.did]
    BY Sides DEF ServerSideOK
  <2>2. n = [r EXCEPT !.at = "received", !.words = words, !.did = Nothing]
    OBVIOUS
  <2> HIDE DEF n, r
  <2> QED
    BY <2>1, <2>2
<1> HIDE DEF k, n
<1>4. r.at = "read" /\ r.out = << >> /\ ServerSideOK(r)
  BY <1>1, Sides DEF InStep
<1>5. /\ n.at = "received" /\ n.words = words /\ n.auth = r.auth /\ n.secret = r.secret /\ n.limit = r.limit
      /\ n.out = r.out /\ n.did = Nothing
  BY <1>3
<1>6. ServerSideOK(n)
  <2>1. n = [at |-> n.at, words |-> n.words, auth |-> n.auth, secret |-> n.secret, limit |-> n.limit,
             out |-> n.out, did |-> n.did]
    BY <1>3, <1>5
  <2> QED
    BY <1>4, <1>5, <2>1 DEF ServerSideOK
<1>7. ClientSideOK(k) /\ InStep(k, n)
  BY <1>2, <1>4, <1>5 DEF ClientSideOK, InStep
<1>8. Tables'
  BY <1>1 DEF ConnInv, Tables
<1> QED
  BY <1>1, <1>4, <1>5, <1>6, <1>7, <1>8, ClientStep

\* The answer is heard, or the end of the connection.
LEMMA HearStep == ASSUME ConnInv, NEW c \in Clients, Hear(c) PROVE ConnInv'
<1> DEFINE r == srv[c]
           said == Printed(Head(cl[c].todo), IF srv[c].out = << >> THEN NoReply ELSE Head(srv[c].out))
           left == IF r.out = << >> THEN r.out ELSE Tail(r.out)
           n == [r EXCEPT !.out = left]
           k == [cl[c] EXCEPT !.at = "told", !.said = said]
<1>1. /\ cl[c].at = "wait" /\ (srv[c].out # << >> \/ srv[c].at = "closed")
      /\ cl' = [cl EXCEPT ![c] = k] /\ srv' = [srv EXCEPT ![c] = n]
      /\ UNCHANGED <<mode, registry, counter, engine, account, used>>
  BY Sides DEF Hear
<1> HIDE DEF said
<1>2. k = [at |-> "told", todo |-> cl[c].todo, said |-> said]
  <2>1. ClientSideOK(cl[c])
    BY Sides
  <2>2. k = [cl[c] EXCEPT !.at = "told", !.said = said]
    OBVIOUS
  <2>3. [cl[c] EXCEPT !.at = "told", !.said = said] = [at |-> "told", todo |-> cl[c].todo, said |-> said]
    BY <2>1, ClientHeard
  <2> QED
    BY <2>2, <2>3
<1>3. r.at \in {"read", "closed"} /\ left = << >> /\ ServerSideOK(r)
  <2>1. IF r.at = "read" THEN \E reply : r.out = << reply >> ELSE r.out = << >>
    BY <1>1, Sides DEF InStep
  <2>2. CASE r.at = "read"
    <3>1. PICK reply : r.out = << reply >>
      BY <2>1, <2>2
    <3>2. Tail(<< reply >>) = << >> /\ << reply >> # << >>
      OBVIOUS
    <3> QED
      BY <2>2, <3>1, <3>2, Sides
  <2>3. CASE r.at # "read"
    BY <1>1, <2>1, <2>3, Sides
  <2> QED
    BY <2>2, <2>3
<1> HIDE DEF left
<1>4. n = [at |-> r.at, words |-> r.words, auth |-> r.auth, secret |-> r.secret, limit |-> r.limit,
           out |-> << >>, did |-> r.did]
  <2>1. r = [at |-> r.at, words |-> r.words, auth |-> r.auth, secret |-> r.secret, limit |-> r.limit,
             out |-> r.out, did |-> r.did]
    BY <1>3 DEF ServerSideOK
  <2>2. n = [r EXCEPT !.out = << >>]
    BY <1>3
  <2> HIDE DEF n, r
  <2> QED
    BY <2>1, <2>2
<1> HIDE DEF k, n
<1>5. /\ n.at = r.at /\ n.words = r.words /\ n.auth = r.auth /\ n.secret = r.secret /\ n.limit = r.limit
      /\ n.out = << >> /\ n.did = r.did
  BY <1>4
<1>6. ServerSideOK(n)
  <2>1. n = [at |-> n.at, words |-> n.words, auth |-> n.auth, secret |-> n.secret, limit |-> n.limit,
             out |-> n.out, did |-> n.did]
    BY <1>4, <1>5
  <2> QED
    BY <1>3, <1>5, <2>1 DEF ServerSideOK
<1>7. ClientSideOK(k) /\ InStep(k, n)
  BY <1>2, <1>3, <1>5 DEF ClientSideOK, InStep
<1>8. Tables'
  BY <1>1 DEF ConnInv, Tables
<1> QED
  BY <1>1, <1>3, <1>5, <1>6, <1>7, <1>8, ClientStep

\* The client goes on, or hangs up.
LEMMA ContinueStep == ASSUME ConnInv, NEW c \in Clients, Continue(c) PROVE ConnInv'
<1>1. cl[c].at = "told" /\ UNCHANGED <<mode, registry, counter, engine, account, used>>
  BY DEF Continue
<1>2. srv[c].at \in {"read", "closed"} /\ srv[c].out = << >> /\ ServerSideOK(srv[c])
  BY <1>1, Sides DEF InStep
<1>3. Tables'
  BY <1>1 DEF ConnInv, Tables
<1>4. CASE Len(cl[c].todo) > 1 /\ srv[c].at # "closed"
  <2> DEFINE k == [at |-> "send", todo |-> Tail(cl[c].todo), said |-> Empty]
  <2>1. cl' = [cl EXCEPT ![c] = k] /\ UNCHANGED srv
    BY <1>4 DEF Continue
  <2>2. srv' = [srv EXCEPT ![c] = srv[c]]
    <3>1. srv = [d \in Clients |-> srv[d]]
      BY DEF ConnInv, Connections
    <3> QED
      BY <2>1, <3>1
  <2>3. ClientSideOK(k) /\ InStep(k, srv[c])
    BY <1>2, <1>4 DEF ClientSideOK, InStep
  <2> HIDE DEF k
  <2> QED
    BY <1>1, <1>2, <1>3, <2>1, <2>2, <2>3, ClientStep
<1>5. CASE ~(Len(cl[c].todo) > 1 /\ srv[c].at # "closed")
  <2> DEFINE k == [at |-> "idle", todo |-> << >>, said |-> Empty]
  <2>1. cl' = [cl EXCEPT ![c] = k] /\ srv' = [srv EXCEPT ![c] = NoConnection]
    BY <1>5 DEF Continue
  <2>2. /\ NoConnection.at = "closed" /\ NoConnection.secret = "none" /\ NoConnection.out = << >>
        /\ ServerSideOK(NoConnection)
    BY DEF NoConnection, ServerSideOK
  <2>3. ClientSideOK(k) /\ InStep(k, NoConnection)
    BY <2>2 DEF ClientSideOK, InStep
  <2> HIDE DEF k
  <2> QED
    BY <1>1, <1>2, <1>3, <2>1, <2>2, <2>3, ClientStep
<1> QED
  BY <1>4, <1>5

\* A reload changes the registry, and nothing that is counted.
LEMMA ReloadStep ==
    ASSUME ConnInv, NEW s \in Secrets, NEW limit \in Limits \cup {Revoked}, Reload(s, limit) PROVE ConnInv'
<1>1. /\ registry' = [registry EXCEPT ![s] = limit] /\ used.reloads < MaxReloads
      /\ used' = [used EXCEPT !.reloads = @ + 1]
      /\ UNCHANGED <<mode, counter, engine, srv, cl, account>>
  BY DEF Reload
<1>2. Tables'
  <2>1. used.reloads \in 0..MaxReloads /\ MaxReloads \in Nat
    BY ConnectionAssumption DEF ConnInv, Tables
  <2>2. used.reloads + 1 \in 0..MaxReloads
    BY <1>1, <2>1
  <2> QED
    BY <1>1, <2>2 DEF ConnInv, Tables
<1>3. Connections'
  BY <1>1 DEF ConnInv, Connections
<1>4. \A t \in Secrets : CountsOf(t)'
  BY <1>1 DEF ConnInv, CountsOf, Pending, Holders, Undoing, MaxLimit
<1> QED
  BY <1>2, <1>3, <1>4 DEF ConnInv

-----------------------------------------------------------------------------
(* The theorems.                                                           *)

\* The invariant holds initially: nobody is connected.
LEMMA ConnInit == Init => ConnInv
<1> SUFFICES ASSUME Init PROVE ConnInv
  OBVIOUS
<1>1. Tables
  BY ConnectionAssumption DEF Init, Tables
<1>2. Connections
  BY DEF Init, Connections, ServerSideOK, ClientSideOK, InStep, NoConnection
<1>3. ASSUME NEW s \in Secrets PROVE CountsOf(s)
  <2>1. Pending(s) = {} /\ Holders(s) = {} /\ Undoing(s) = {}
    BY <1>3, ConnectionAssumption DEF Init, Pending, Holders, Undoing, PendBit, HoldBit, UndoBit, NoConnection
  <2>2. Cardinality({}) = 0
    BY FS_EmptySet
  <2>3. counter[s] = 0 /\ account[s] = [served |-> 0, refused |-> 0, auths |-> 0, late |-> 0]
    BY DEF Init
  <2> QED
    BY <2>1, <2>2, <2>3, MaxLimitIs DEF CountsOf
<1> QED
  BY <1>1, <1>2, <1>3 DEF ConnInv

\* The invariant holds of every reachable state.
LEMMA ConnInvariance == Spec => []ConnInv
<1>1. ConnInv /\ [Next]_vars => ConnInv'
  <2> SUFFICES ASSUME ConnInv, [Next]_vars PROVE ConnInv'
    OBVIOUS
  <2>1. CASE UNCHANGED vars
    BY <2>1 DEF vars, ConnInv, Tables, Connections, CountsOf, Pending, Holders, Undoing, MaxLimit
  <2>2. ASSUME NEW c \in Clients, NEW program \in Programs, connect(c, program) PROVE ConnInv'
    BY <2>2, ConnectStep
  <2>3. ASSUME NEW c \in Clients, Send(c) PROVE ConnInv'
    BY <2>3, SendStep
  <2>4. ASSUME NEW c \in Clients, Hear(c) PROVE ConnInv'
    BY <2>4, HearStep
  <2>5. ASSUME NEW c \in Clients, Continue(c) PROVE ConnInv'
    BY <2>5, ContinueStep
  <2>6. ASSUME NEW c \in Clients, Receive(c) PROVE ConnInv'
    BY <2>6, ReceiveStep
  <2>7. ASSUME NEW c \in Clients, Charge(c) PROVE ConnInv'
    BY <2>7, ChargeStep
  <2>8. ASSUME NEW c \in Clients, Undo(c) PROVE ConnInv'
    BY <2>8, UndoStep
  <2>9. ASSUME NEW c \in Clients, Validate(c) PROVE ConnInv'
    BY <2>9, ValidateStep
  <2>10. ASSUME NEW c \in Clients, Run(c) PROVE ConnInv'
    BY <2>10, RunStep
  <2>11. ASSUME NEW s \in Secrets, NEW limit \in Limits \cup {Revoked}, Reload(s, limit) PROVE ConnInv'
    BY <2>11, ReloadStep
  <2> QED
    BY <2>1, <2>2, <2>3, <2>4, <2>5, <2>6, <2>7, <2>8, <2>9, <2>10, <2>11 DEF Next
<1> QED
  BY <1>1, ConnInit, PTL DEF Spec

\* Sessions, keys and counters stay what they are; a counter is over the largest
\* limit only by commands that are being taken back, one for each connection.
THEOREM TypeCorrect == Spec => []TypeOK
<1>1. ConnInv => TypeOK
  <2> SUFFICES ASSUME ConnInv PROVE TypeOK
    OBVIOUS
  <2>1. ASSUME NEW s \in Secrets PROVE counter[s] \in 0..(MaxLimit + Cardinality(Clients))
    <3>1. /\ Pending(s) \subseteq Clients /\ Undoing(s) \subseteq Clients
      BY DEF Pending, Undoing
    <3>2. /\ IsFiniteSet(Clients) /\ IsFiniteSet(Pending(s)) /\ IsFiniteSet(Undoing(s))
          /\ Cardinality(Undoing(s)) <= Cardinality(Clients)
      BY <3>1, ConnectionAssumption, FS_Subset
    <3>3. /\ Cardinality(Clients) \in Nat /\ Cardinality(Pending(s)) \in Nat /\ Cardinality(Undoing(s)) \in Nat
      BY <3>2, FS_CardinalityType
    <3>4. /\ counter[s] = account[s].served + account[s].refused + Cardinality(Pending(s))
          /\ counter[s] <= MaxLimit + Cardinality(Undoing(s))
      BY DEF ConnInv, CountsOf
    <3>5. counter[s] \in Int /\ account[s].served \in Nat /\ account[s].refused \in Nat
      BY DEF ConnInv, Tables
    <3>6. counter[s] >= 0
      BY <3>3, <3>4, <3>5
    <3>7. counter[s] <= MaxLimit + Cardinality(Clients)
      BY <3>2, <3>3, <3>4, <3>5, MaxLimitIs
    <3> QED
      BY <3>3, <3>5, <3>6, <3>7, MaxLimitIs
  <2>2. counter \in [Secrets -> 0..(MaxLimit + Cardinality(Clients))]
    BY <2>1 DEF ConnInv, Tables
  <2>3. ASSUME NEW c \in Clients
        PROVE  /\ srv[c].at \in {"closed", "read", "received", "charge", "undo", "validate", "run"}
               /\ srv[c].auth \in {"yes", "no"}
               /\ srv[c].secret \in Secrets \cup {"none"}
               /\ srv[c].limit \in Limits \cup {0}
               /\ srv[c].secret # "none" => srv[c].auth = "yes"
               /\ cl[c].at \in {"idle", "send", "wait", "told"}
    BY Sides DEF ServerSideOK, ClientSideOK
  <2> QED
    BY <2>2, <2>3 DEF TypeOK, ConnInv, Tables
<1> QED
  BY <1>1, ConnInvariance, PTL

\* With any number of clients, every charge of a key is accounted for, whatever
\* reloads happen between the charge and the checks that come after it; and a
\* revoked key is charged late at most once for each AUTH (daemon.rs:513-568).
THEOREM ChargesAlwaysAccounted == Spec => []ChargesAccounted
<1>1. ConnInv => ChargesAccounted
  <2> SUFFICES ASSUME ConnInv, NEW s \in Secrets
               PROVE  /\ counter[s] = account[s].served + account[s].refused
                           + Cardinality({c \in Clients : /\ srv[c].at \in {"undo", "validate", "run"}
                                                          /\ srv[c].secret = s /\ Limited(c)})
                      /\ account[s].late <= account[s].auths
    BY DEF ChargesAccounted
  <2>1. Pending(s) = {c \in Clients : /\ srv[c].at \in {"undo", "validate", "run"}
                                      /\ srv[c].secret = s /\ Limited(c)}
    BY ConnectionAssumption DEF Pending, PendBit, Limited
  <2>2. Holders(s) \subseteq Clients
    BY DEF Holders
  <2>3. Cardinality(Holders(s)) \in Nat
    BY <2>2, ConnectionAssumption, FS_Subset, FS_CardinalityType
  <2>4. /\ counter[s] = account[s].served + account[s].refused + Cardinality(Pending(s))
        /\ account[s].late + Cardinality(Holders(s)) <= account[s].auths
        /\ account[s].late \in Nat /\ account[s].auths \in Nat
    BY DEF ConnInv, CountsOf, Tables
  <2>5. account[s].late <= account[s].auths
    BY <2>3, <2>4
  <2> QED
    BY <2>1, <2>4, <2>5
<1> QED
  BY <1>1, ConnInvariance, PTL

\* The answer to a request is read before the next request is sent, and none is
\* left over: client and server never get out of step (resp.rs:15-79).
THEOREM OneAnswerEach ==
    Spec => [](\A c \in Clients : cl[c].at \in {"idle", "send", "told"} => srv[c].out = << >>)
<1>1. ConnInv => \A c \in Clients : cl[c].at \in {"idle", "send", "told"} => srv[c].out = << >>
  BY DEF ConnInv, Connections, InStep
<1> QED
  BY <1>1, ConnInvariance, PTL

-----------------------------------------------------------------------------
(* What is printed.  A command under way is the client's request, and has  *)
(* done nothing yet; an answer, on its way or heard, says what was done.   *)

Handled == {"received", "charge", "undo", "validate", "run"}
Heard(out) == IF out = << >> THEN NoReply ELSE Head(out)

\* Where keys are required, a connection that is authenticated has one.
SessionOK(r) ==
    /\ r.at \in {"charge", "undo", "validate", "run"} => r.auth = "yes"
    /\ mode.require_auth = "yes" /\ r.auth = "yes" => r.secret # "none"
ProgramOK(k) == k.at # "idle" => k.todo \in Seq(Requests) /\ k.todo # << >>
RequestOK(k, r) ==
    /\ r.at \in Handled => r.words = Words(Head(k.todo)) /\ r.did = Nothing
    /\ k.at = "wait" /\ r.at \in {"read", "closed"} =>
          Truth(Head(k.todo), Printed(Head(k.todo), Heard(r.out)), r.did, r.secret)
    /\ k.at = "told" => Truth(Head(k.todo), k.said, r.did, r.secret)
TruthInv == \A c \in Clients : SessionOK(srv[c]) /\ ProgramOK(cl[c]) /\ RequestOK(cl[c], srv[c])

\* A piece that comes behind does not change what is in front.
LEMMA Behind ==
    ASSUME NEW W, NEW s \in Seq(W), NEW t \in Seq(W)
    PROVE  /\ s \o t \in Seq(W) /\ Len(s \o t) = Len(s) + Len(t) /\ Len(s) \in Nat /\ Len(t) \in Nat
           /\ \A i \in 1..Len(s) : (s \o t)[i] = s[i]
<1>1. s \o t \in Seq(W) /\ Len(s \o t) = Len(s) + Len(t)
  BY ConcatProperties
<1>2. \A i \in 1..(Len(s) + Len(t)) : (s \o t)[i] = IF i <= Len(s) THEN s[i] ELSE t[i - Len(s)]
  BY ConcatProperties
<1>3. Len(s) \in Nat /\ Len(t) \in Nat
  OBVIOUS
<1>4. \A i \in 1..Len(s) : i \in 1..(Len(s) + Len(t)) /\ i <= Len(s)
  BY <1>3
<1> QED
  BY <1>1, <1>2, <1>3, <1>4

\* It is found behind it.
LEMMA BehindIt ==
    ASSUME NEW W, NEW s \in Seq(W), NEW t \in Seq(W), NEW i \in 1..Len(t)
    PROVE  (s \o t)[Len(s) + i] = t[i]
<1>1. \A j \in 1..(Len(s) + Len(t)) : (s \o t)[j] = IF j <= Len(s) THEN s[j] ELSE t[j - Len(s)]
  BY ConcatProperties
<1>2. Len(s) \in Nat /\ Len(t) \in Nat
  OBVIOUS
<1>3. PICK j : j = Len(s) + i
  OBVIOUS
<1>4. j \in 1..(Len(s) + Len(t)) /\ ~(j <= Len(s)) /\ j - Len(s) = i
  BY <1>2, <1>3
<1> QED
  BY <1>1, <1>3, <1>4

\* Sequences of two elements at most.
LEMMA ShortSequences ==
    ASSUME NEW W
    PROVE  /\ << >> \in Seq(W)
           /\ \A x \in W : << x >> \in Seq(W)
           /\ \A x \in W, y \in W : << x, y >> \in Seq(W)
OBVIOUS

\* The words of a request begin with its command and those of its key; of a SET with a
\* key of one word and without EX, those of its value follow, and FP if one is given.
LEMMA WordsOf ==
    ASSUME NEW q \in Requests
    PROVE  /\ Words(q) \in Seq(STRING \cup {"EX", "FP", q.op, q.ttl, q.fp})
           /\ Words(q)[1] = q.op
           /\ q.key.words # << >> => Len(Words(q)) >= 2 /\ Words(q)[2] = q.key.words[1]
           /\ (Len(q.key.words) = 1 /\ q.ttl = "none") =>
                 /\ Len(Words(q)) = 2 + Len(q.value.words) + (IF q.fp = "none" THEN 0 ELSE 2)
                 /\ \A i \in 1..Len(q.value.words) : Words(q)[2 + i] = q.value.words[i]
                 /\ q.fp # "none" => Words(q)[3 + Len(q.value.words)] = "FP"
<1> DEFINE W == STRING \cup {"EX", "FP", q.op, q.ttl, q.fp}
           A == q.key.words
           B == q.value.words
           C == Given(<< "EX", q.ttl >>, q.ttl)
           D == Given(<< "FP", q.fp >>, q.fp)
           a == << q.op >> \o A
           b == a \o B
           c == b \o C
           words == c \o D
<1>1. << q.op >> \in Seq(W) /\ A \in Seq(W) /\ B \in Seq(W) /\ C \in Seq(W) /\ D \in Seq(W)
  <2>1. {"EX", "FP", q.op, q.ttl, q.fp} \subseteq W /\ STRING \subseteq W
    OBVIOUS
  <2>2. q.key \in [words : Seq(STRING), gaps : {"single", "other"}]
        /\ q.value \in [words : Seq(STRING), gaps : {"single", "other"}]
    BY ConnectionAssumption
  <2>3. A \in Seq(STRING) /\ B \in Seq(STRING)
    BY <2>2
  <2> HIDE DEF W, A, B
  <2>4. A \in Seq(W) /\ B \in Seq(W)
    BY <2>1, <2>3, SeqMonotonic
  <2>5. << q.op >> \in Seq(W)
    BY <2>1, ShortSequences
  <2>6. C \in Seq(W)
    BY <2>1, ShortSequences DEF Given
  <2>7. D \in Seq(W)
    BY <2>1, ShortSequences DEF Given
  <2> QED
    BY <2>4, <2>5, <2>6, <2>7
<1>2. Words(q) = words
  BY DEF Words
<1>3. Len(<< q.op >>) = 1 /\ << q.op >>[1] = q.op
  OBVIOUS
<1>4. q.ttl = "none" => Len(C) = 0
  BY DEF Given
<1>5. Len(D) = (IF q.fp = "none" THEN 0 ELSE 2) /\ (q.fp # "none" => D[1] = "FP")
  BY DEF Given
<1> HIDE DEF W, A, B, C, D
<1>6. /\ a \in Seq(W) /\ Len(a) = 1 + Len(A) /\ Len(A) \in Nat /\ a[1] = q.op
      /\ \A i \in 1..Len(A) : a[1 + i] = A[i]
  <2>1. PICK one : one = << q.op >>
    OBVIOUS
  <2>2. one \in Seq(W) /\ Len(one) = 1 /\ one[1] = q.op /\ a = one \o A
    BY <1>1, <1>3, <2>1
  <2>3. PICK l : l = Len(one)
    OBVIOUS
  <2>4. /\ a \in Seq(W) /\ Len(a) = l + Len(A) /\ Len(A) \in Nat
        /\ \A i \in 1..l : a[i] = one[i]
        /\ \A i \in 1..Len(A) : a[l + i] = A[i]
    BY <1>1, <2>2, <2>3, Behind, BehindIt
  <2> HIDE DEF a
  <2> QED
    BY <2>2, <2>3, <2>4
<1> HIDE DEF a
<1>7. /\ b \in Seq(W) /\ Len(b) = Len(a) + Len(B) /\ Len(a) \in Nat /\ Len(B) \in Nat
      /\ \A i \in 1..Len(a) : b[i] = a[i]
      /\ \A i \in 1..Len(B) : b[Len(a) + i] = B[i]
  <2>1. a \in Seq(W) /\ B \in Seq(W)
    BY <1>1, <1>6
  <2>2. /\ b \in Seq(W) /\ Len(b) = Len(a) + Len(B) /\ Len(a) \in Nat /\ Len(B) \in Nat
        /\ \A i \in 1..Len(a) : b[i] = a[i]
    BY <2>1, Behind
  <2>3. \A i \in 1..Len(B) : b[Len(a) + i] = B[i]
    BY <2>1, BehindIt
  <2> QED
    BY <2>2, <2>3
<1> HIDE DEF b
<1>8. /\ c \in Seq(W) /\ Len(c) = Len(b) + Len(C) /\ Len(C) \in Nat
      /\ \A i \in 1..Len(b) : c[i] = b[i]
  <2>1. b \in Seq(W) /\ C \in Seq(W)
    BY <1>1, <1>7
  <2> QED
    BY <2>1, Behind
<1> HIDE DEF c
<1>9. /\ words \in Seq(W) /\ Len(words) = Len(c) + Len(D)
      /\ \A i \in 1..Len(c) : words[i] = c[i]
      /\ \A i \in 1..Len(D) : words[Len(c) + i] = D[i]
  <2>1. c \in Seq(W) /\ D \in Seq(W)
    BY <1>1, <1>8
  <2>2. /\ words \in Seq(W) /\ Len(words) = Len(c) + Len(D)
        /\ \A i \in 1..Len(c) : words[i] = c[i]
    BY <2>1, Behind
  <2>3. \A i \in 1..Len(D) : words[Len(c) + i] = D[i]
    BY <2>1, BehindIt
  <2> QED
    BY <2>2, <2>3
<1>10. Len(c) \in Nat /\ Len(D) \in Nat /\ Len(words) \in Nat
  BY <1>5, <1>7, <1>8, <1>9
<1> HIDE DEF words
<1>11. \A i \in 1..Len(a) : words[i] = a[i]
  <2>1. \A i \in 1..Len(a) : i \in 1..Len(b) /\ i \in 1..Len(c)
    BY <1>7, <1>8
  <2> QED
    BY <1>7, <1>8, <1>9, <2>1
<1>12. words[1] = q.op
  <2>1. 1 \in 1..Len(a)
    BY <1>6
  <2> QED
    BY <1>6, <1>11, <2>1
<1>13. ASSUME A # << >> PROVE Len(words) >= 2 /\ words[2] = A[1]
  <2>1. Len(A) >= 1
    BY <1>1, <1>6, <1>13
  <2>2. 1 \in 1..Len(A) /\ 2 \in 1..Len(a) /\ Len(words) >= Len(a)
    BY <1>6, <1>7, <1>8, <1>9, <1>10, <2>1
  <2>3. PICK one : one = 1
    OBVIOUS
  <2>4. a[1 + one] = A[one] /\ 1 + one = 2
    BY <1>6, <2>2, <2>3
  <2>5. words[2] = a[2]
    BY <1>11, <2>2
  <2> QED
    BY <1>6, <1>10, <2>1, <2>2, <2>3, <2>4, <2>5
<1>14. ASSUME Len(A) = 1, q.ttl = "none"
       PROVE  /\ Len(words) = 2 + Len(B) + (IF q.fp = "none" THEN 0 ELSE 2)
              /\ \A i \in 1..Len(B) : words[2 + i] = B[i]
              /\ q.fp # "none" => words[3 + Len(B)] = "FP"
  <2>1. Len(a) = 2 /\ Len(b) = 2 + Len(B) /\ Len(c) = 2 + Len(B)
    BY <1>4, <1>6, <1>7, <1>8, <1>14
  <2>2. Len(words) = 2 + Len(B) + (IF q.fp = "none" THEN 0 ELSE 2)
    BY <1>5, <1>9, <2>1
  <2>3. ASSUME NEW i \in 1..Len(B) PROVE words[2 + i] = B[i]
    <3>1. PICK j : j = 2 + i
      OBVIOUS
    <3>2. j \in 1..Len(b) /\ j \in 1..Len(c)
      BY <1>7, <2>1, <3>1
    <3>3. words[j] = b[j]
      BY <1>8, <1>9, <3>2
    <3>4. PICK l : l = Len(a)
      OBVIOUS
    <3>5. b[l + i] = B[i] /\ l + i = j
      BY <1>7, <2>1, <3>1, <3>4
    <3> QED
      BY <3>1, <3>3, <3>5
  <2>4. ASSUME q.fp # "none" PROVE words[3 + Len(B)] = "FP"
    <3>1. 1 \in 1..Len(D) /\ D[1] = "FP"
      BY <1>5, <2>4
    <3>2. PICK one : one = 1
      OBVIOUS
    <3>3. words[Len(c) + one] = D[one]
      BY <1>9, <3>1, <3>2
    <3>4. Len(c) + one = 3 + Len(B)
      BY <1>7, <2>1, <3>2
    <3> QED
      BY <3>1, <3>2, <3>3, <3>4
  <2> QED
    BY <2>2, <2>3, <2>4
<1> QED
  BY <1>2, <1>9, <1>12, <1>13, <1>14 DEF A, B, W

\* What the handler says and does, command by command.
LEMMA Handler ==
    ASSUME mode \in Modes, NEW words
    PROVE  LET h == handle_resp(words)
           IN  /\ words[1] = "SET" =>
                     \/ h.reply \in {Error, NoReply} /\ h.did = Nothing
                     \/ /\ h.reply = Ok /\ 2 \notin FpAt(words)
                        /\ h.did = Did("stored", words[2], Joined(Value(words)))
               /\ words[1] = "GET" =>
                     \/ h.reply.kind \in {"error", "nil"} /\ h.did = Nothing
                     \/ /\ h.reply = Reply("bulk", engine[words[2]])
                        /\ h.did = Did("read", words[2], engine[words[2]])
               /\ words[1] = "DEL" =>
                     \/ h.reply = Error /\ h.did = Nothing
                     \/ h.reply = Reply("int", Line("0")) /\ h.did = Nothing
                     \/ h.reply = Reply("int", Line("1")) /\ h.did = Did("deleted", words[2], Absent)
<1> DEFINE h == handle_resp(words)
<1>0. mode.strict \in {"yes", "no"} /\ mode.safe \in {"yes", "no"}
  BY ConnectionAssumption
<1>1. CASE words[1] = "SET"
  <2>1. h = handle_set(words)
    BY <1>1 DEF handle_resp
  <2> HIDE DEF h
  <2>2. \/ h = Failed
        \/ h = [reply |-> NoReply, did |-> Nothing]
        \/ h = [reply |-> Ok, did |-> Did("stored", words[2], Joined(Value(words)))] /\ 2 \notin FpAt(words)
    BY <2>1 DEF handle_set
  <2>3. \/ h.reply \in {Error, NoReply} /\ h.did = Nothing
        \/ h.reply = Ok /\ 2 \notin FpAt(words) /\ h.did = Did("stored", words[2], Joined(Value(words)))
    BY <2>2 DEF Failed
  <2> QED
    BY <1>1, <2>3 DEF h
<1>2. CASE words[1] = "GET"
  <2>1. \/ h = Failed
        \/ h = [reply |-> Reply("nil", Empty), did |-> Nothing]
        \/ h = [reply |-> Reply("bulk", engine[words[2]]), did |-> Did("read", words[2], engine[words[2]])]
    BY <1>0, <1>2 DEF handle_resp
  <2> HIDE DEF h
  <2>2. \/ h.reply.kind \in {"error", "nil"} /\ h.did = Nothing
        \/ h.reply = Reply("bulk", engine[words[2]]) /\ h.did = Did("read", words[2], engine[words[2]])
    BY <2>1 DEF Error, Reply, Failed
  <2> QED
    BY <1>2, <2>2 DEF h
<1>3. CASE words[1] = "DEL"
  <2>1. \/ h = Failed
        \/ h = [reply |-> Reply("int", Line("0")), did |-> Nothing]
        \/ h = [reply |-> Reply("int", Line("1")), did |-> Did("deleted", words[2], Absent)]
    BY <1>3 DEF handle_resp
  <2> HIDE DEF h
  <2> QED
    BY <1>3, <2>1 DEF h, Failed
<1> QED
  BY <1>1, <1>2, <1>3

\* Lines of different words are different texts.
LEMMA Lines == Line("OK") # Line("not OK") /\ Line("0") # Line("1")
<1>1. << "OK" >>[1] = "OK" /\ << "not OK" >>[1] = "not OK" /\ << "0" >>[1] = "0" /\ << "1" >>[1] = "1"
  OBVIOUS
<1>2. << "OK" >> # << "not OK" >> /\ << "0" >> # << "1" >>
  BY <1>1
<1> QED
  BY <1>2 DEF Line, Joined

\* What is printed of an answer.
LEMMA PrintedOf ==
    ASSUME NEW q, NEW reply
    PROVE  /\ q.op = "SET" => Printed(q, reply) = Line(IF reply.kind = "ok" THEN "OK" ELSE "not OK")
           /\ q.op = "DEL" => Printed(q, reply) = Line(IF reply = Reply("int", Line("1")) THEN "1" ELSE "0")
           /\ q.op = "GET" =>
                 /\ reply.kind = "nil" => Printed(q, reply) = Line("(nil)")
                 /\ reply.kind = "bulk" => Printed(q, reply) = reply.text
                 /\ reply.kind \notin {"nil", "bulk"} => Printed(q, reply) = Line("not found out")
  BY DEF Printed

\* A request that only failed, for whatever reason, is told so.
LEMMA FailureTruth ==
    ASSUME NEW q, NEW reply \in {Error, NoReply}, NEW secret
    PROVE  Truth(q, Printed(q, reply), Nothing, secret)
<1>1. reply.kind \in {"error", "none"} /\ reply # Reply("int", Line("1"))
  BY DEF Error, NoReply, Reply
<1>2. Nothing.op = "none"
  BY DEF Nothing, Did
<1>3. q.op = "SET" => Printed(q, reply) # Line("OK")
  BY <1>1, Lines, PrintedOf
<1>4. q.op = "DEL" => Printed(q, reply) # Line("1")
  BY <1>1, Lines, PrintedOf
<1>5. q.op = "GET" => Printed(q, reply) = Line("not found out")
  BY <1>1, PrintedOf
<1> QED
  BY <1>2, <1>3, <1>4, <1>5 DEF Truth

\* The value that SET takes from the words of a request that it takes as typed.
LEMMA ValueAsTyped ==
    ASSUME NEW q \in Requests, q.op = "SET", AsTyped(q), 2 \notin FpAt(Words(q))
    PROVE  Joined(Value(Words(q))) = q.value
<1> DEFINE W == STRING \cup {"EX", "FP", q.op, q.ttl, q.fp}
           words == Words(q)
           B == q.value.words
           n == Len(B)
<1>1. /\ words \in Seq(W) /\ words[1] = "SET"
      /\ Len(words) = 2 + n + (IF q.fp = "none" THEN 0 ELSE 2)
      /\ \A i \in 1..n : words[2 + i] = B[i]
      /\ q.fp # "none" => words[3 + n] = "FP"
  BY WordsOf DEF AsTyped
<1>2. /\ q.value \in [words : Seq(STRING), gaps : {"single", "other"}] /\ q.value.gaps = "single"
      /\ \A i \in DOMAIN B : B[i] # "FP"
  BY ConnectionAssumption DEF AsTyped
<1>3. B \in Seq(STRING) /\ n \in Nat /\ q.value = Joined(B)
  <2>1. B \in Seq(STRING) /\ q.value = [words |-> B, gaps |-> "single"]
    BY <1>2
  <2> QED
    BY <2>1 DEF Joined
<1>4. 2 \notin FpAt(words)
  OBVIOUS
<1> HIDE DEF W, words, B
<1>5. n = Len(B) /\ DOMAIN B = 1..n /\ DOMAIN words = 1..Len(words)
  BY <1>1, <1>3
<1> HIDE DEF n
<1>6. \A i \in FpAt(words) : i \in Int /\ i >= 3 + n
  <2> SUFFICES ASSUME NEW i \in FpAt(words), ~(i >= 3 + n) PROVE FALSE
    BY <1>1, <1>5 DEF FpAt
  <2>1. i \in 1..Len(words) /\ words[i] = "FP" /\ i # 2
    BY <1>4, <1>5 DEF FpAt
  <2>2. i # 1
    BY <1>1, <2>1
  <2>3. i \in 3..(2 + n)
    BY <1>1, <1>3, <2>1, <2>2
  <2>4. PICK j : j = i - 2
    OBVIOUS
  <2>5. j \in 1..n /\ 2 + j = i
    BY <1>3, <2>3, <2>4
  <2>6. words[i] = B[j]
    BY <1>1, <2>5
  <2> QED
    BY <1>2, <1>5, <2>1, <2>5, <2>6
<1>7. Value(words) = SubSeq(words, 3, 2 + n)
  <2>1. CASE q.fp = "none"
    <3>1. Len(words) = 2 + n
      BY <1>1, <1>3, <2>1
    <3>2. FpAt(words) = {}
      <4>1. FpAt(words) \subseteq 1..Len(words)
        BY <1>5 DEF FpAt
      <4> QED
        BY <1>3, <1>6, <3>1, <4>1
    <3> QED
      BY <3>1, <3>2 DEF Value
  <2>2. CASE q.fp # "none"
    <3>1. 3 + n \in FpAt(words)
      <4>1. 3 + n \in 1..Len(words) /\ words[3 + n] = "FP"
        BY <1>1, <1>3, <2>2
      <4> QED
        BY <1>5, <4>1 DEF FpAt
    <3>2. FirstFp(words) \in FpAt(words) /\ \A j \in FpAt(words) : FirstFp(words) <= j
      BY <1>3, <1>6, <3>1 DEF FirstFp
    <3>3. FirstFp(words) = 3 + n
      BY <1>3, <1>6, <3>1, <3>2
    <3>4. (3 + n) - 1 = 2 + n
      BY <1>3
    <3> QED
      BY <3>1, <3>3, <3>4 DEF Value
  <2> QED
    BY <2>1, <2>2
<1>8. SubSeq(words, 3, 2 + n) = B
  <2>1. PICK t : t = SubSeq(words, 3, 2 + n)
    OBVIOUS
  <2>2. 2 + n <= Len(words) /\ Len(words) \in Nat
    BY <1>1, <1>3
  <2>3. t \in Seq(W) /\ Len(t) = n /\ \A i \in 1..n : t[i] = words[2 + i]
    <3>1. t = [i \in 1..n |-> words[2 + i]]
      BY <1>1, <1>3, <2>1
    <3>2. \A i \in 1..n : words[2 + i] \in W
      <4>1. \A i \in 1..n : 2 + i \in 1..Len(words)
        BY <1>3, <2>2
      <4> QED
        BY <1>1, <4>1, ElementOfSeq
    <3> QED
      BY <1>3, <3>1, <3>2
  <2>4. t = B
    BY <1>1, <1>3, <1>5, <2>3, SeqEqual
  <2> QED
    BY <2>1, <2>4
<1> QED
  BY <1>3, <1>7, <1>8 DEF words

\* What the handler does is what is printed of it.
LEMMA HandlerTruth ==
    ASSUME mode \in Modes, NEW c \in Clients, ServerSideOK(srv[c]), SessionOK(srv[c]), srv[c].at = "run",
           Permitted(c), NEW q \in Requests, srv[c].words = Words(q)
    PROVE  LET h == handle_resp(srv[c].words) IN Truth(q, Printed(q, h.reply), h.did, srv[c].secret)
<1> DEFINE words == Words(q)
           h == handle_resp(words)
<1>1. words[1] = q.op /\ (q.key.words # << >> => words[2] = q.key.words[1])
  BY WordsOf
<1>2. CASE q.op = "SET"
  <2>1. words[1] = "SET"
    BY <1>1, <1>2
  <2>2. \/ h.reply \in {Error, NoReply} /\ h.did = Nothing
        \/ h.reply = Ok /\ 2 \notin FpAt(words) /\ h.did = Did("stored", words[2], Joined(Value(words)))
    BY <2>1, Handler
  <2>3. CASE h.reply \in {Error, NoReply} /\ h.did = Nothing
    BY <2>3, FailureTruth
  <2>4. CASE h.reply = Ok /\ 2 \notin FpAt(words) /\ h.did = Did("stored", words[2], Joined(Value(words)))
    <3>1. Printed(q, h.reply) = Line("OK")
      <4>1. Ok.kind = "ok"
        BY DEF Ok, Reply
      <4>2. h.reply.kind = "ok"
        BY <2>4, <4>1
      <4> HIDE DEF h, words
      <4> QED
        BY <1>2, <4>2, PrintedOf
    <3>2. h.did.op = "stored" /\ h.did.key = words[2] /\ h.did.text = Joined(Value(words))
      BY <2>4 DEF Did
    <3>3. mode.require_auth = "yes" => srv[c].secret \in Writers
      <4>1. mode.require_auth = "yes" => srv[c].secret # "none"
        BY DEF SessionOK
      <4>2. srv[c].words[1] = "SET"
        BY <2>1
      <4> QED
        BY <4>1, <4>2 DEF Permitted
    <3>4. AsTyped(q) => h.did.text = q.value
      BY <1>2, <2>4, <3>2, ValueAsTyped
    <3>5. q.key.words # << >> => h.did.key = q.key.words[1]
      BY <1>1, <3>2
    <3> HIDE DEF h, words
    <3> QED
      BY <1>2, <3>1, <3>2, <3>3, <3>4, <3>5 DEF Truth, h, words
  <2> QED
    BY <2>2, <2>3, <2>4
<1>3. CASE q.op = "GET"
  <2>1. words[1] = "GET"
    BY <1>1, <1>3
  <2>2. \/ h.reply.kind \in {"error", "nil"} /\ h.did = Nothing
        \/ h.reply = Reply("bulk", engine[words[2]]) /\ h.did = Did("read", words[2], engine[words[2]])
    BY <2>1, Handler
  <2> HIDE DEF h, words
  <2>3. CASE h.reply.kind \in {"error", "nil"} /\ h.did = Nothing
    <3>1. Printed(q, h.reply) \in {Line("(nil)"), Line("not found out")}
      BY <1>3, <2>3, PrintedOf
    <3>2. h.did.op = "none"
      BY <2>3 DEF Nothing, Did
    <3> QED
      BY <1>3, <3>1, <3>2 DEF Truth, h, words
  <2>4. CASE h.reply = Reply("bulk", engine[words[2]]) /\ h.did = Did("read", words[2], engine[words[2]])
    <3>1. h.reply.kind = "bulk" /\ h.reply.text = engine[words[2]]
      BY <2>4 DEF Reply
    <3>2. Printed(q, h.reply) = engine[words[2]]
      BY <1>3, <3>1, PrintedOf
    <3>3. h.did.op = "read" /\ h.did.key = words[2] /\ h.did.text = engine[words[2]]
      BY <2>4 DEF Did
    <3> QED
      BY <1>1, <1>3, <3>2, <3>3 DEF Truth, h, words
  <2> QED
    BY <2>2, <2>3, <2>4
<1>4. CASE q.op = "DEL"
  <2>1. words[1] = "DEL"
    BY <1>1, <1>4
  <2>2. \/ h.reply = Error /\ h.did = Nothing
        \/ h.reply = Reply("int", Line("0")) /\ h.did = Nothing
        \/ h.reply = Reply("int", Line("1")) /\ h.did = Did("deleted", words[2], Absent)
    BY <2>1, Handler
  <2> HIDE DEF h, words
  <2>3. CASE h.reply \in {Error, Reply("int", Line("0"))} /\ h.did = Nothing
    <3>1. Error # Reply("int", Line("1")) /\ Reply("int", Line("0")) # Reply("int", Line("1"))
      <4>1. Error.kind = "error" /\ Reply("int", Line("1")).kind = "int"
        BY DEF Error, Reply
      <4>2. Reply("int", Line("0")).text = Line("0") /\ Reply("int", Line("1")).text = Line("1")
        BY DEF Reply
      <4> QED
        BY <4>1, <4>2, Lines
    <3>2. Printed(q, h.reply) = Line("0")
      BY <1>4, <2>3, <3>1, PrintedOf
    <3>3. h.did.op = "none"
      BY <2>3 DEF Nothing, Did
    <3> QED
      BY <1>4, <3>2, <3>3, Lines DEF Truth, h, words
  <2>4. CASE h.reply = Reply("int", Line("1")) /\ h.did = Did("deleted", words[2], Absent)
    <3>1. Printed(q, h.reply) = Line("1")
      BY <1>4, <2>4, PrintedOf
    <3>2. h.did.op = "deleted" /\ h.did.key = words[2]
      BY <2>4 DEF Did
    <3> QED
      BY <1>1, <1>4, <3>1, <3>2 DEF Truth, h, words
  <2> QED
    BY <2>2, <2>3, <2>4
<1>5. CASE q.op \notin {"SET", "GET", "DEL"}
  BY <1>5 DEF Truth
<1> QED
  BY <1>2, <1>3, <1>4, <1>5

\* One connection changes, and its two sides still agree.
LEMMA OneConnection ==
    ASSUME ConnInv, TruthInv, NEW c \in Clients, NEW n, NEW k, srv' = [srv EXCEPT ![c] = n], cl' = [cl EXCEPT ![c] = k],
           UNCHANGED mode, SessionOK(n), ProgramOK(k), RequestOK(k, n)
    PROVE  TruthInv'
<1>1. DOMAIN srv = Clients /\ DOMAIN cl = Clients
  BY Sides
<1>2. mode' = mode
  OBVIOUS
<1> SUFFICES ASSUME NEW d \in Clients
             PROVE  SessionOK(srv[d])' /\ ProgramOK(cl[d])' /\ RequestOK(cl[d], srv[d])'
  BY DEF TruthInv
<1>3. CASE d = c
  <2>1. srv'[d] = n /\ cl'[d] = k
    BY <1>1, <1>3
  <2>2. SessionOK(srv[d])' /\ ProgramOK(cl[d])'
    BY <1>2, <2>1 DEF SessionOK, ProgramOK
  <2>3. RequestOK(cl[d], srv[d])'
    BY <1>2, <2>1 DEF RequestOK, Truth
  <2> QED
    BY <2>2, <2>3
<1>4. CASE d # c
  <2>1. srv'[d] = srv[d] /\ cl'[d] = cl[d]
    BY <1>1, <1>4
  <2>2. SessionOK(srv[d])' /\ ProgramOK(cl[d])'
    BY <1>2, <2>1 DEF TruthInv, SessionOK, ProgramOK
  <2>3. RequestOK(cl[d], srv[d])
    BY DEF TruthInv
  <2>4. RequestOK(cl[d], srv[d])'
    BY <1>2, <2>1, <2>3 DEF RequestOK, Truth
  <2> QED
    BY <2>2, <2>4
<1> QED
  BY <1>3, <1>4

\* An answer: what it says of the request under way is true.
LEMMA AnswerTruth ==
    ASSUME ConnInv, TruthInv, NEW c \in Clients, srv[c].at \in Handled,
           NEW r, ServerSideOK(r), r.out = << >>, NEW reply, Answer(c, r, reply), UNCHANGED <<mode, cl>>,
           mode.require_auth = "yes" /\ r.auth = "yes" => r.secret # "none",
           Truth(Head(cl[c].todo), Printed(Head(cl[c].todo), reply), r.did, r.secret)
    PROVE  TruthInv'
<1> DEFINE n == [r EXCEPT !.at = "read", !.out = Append(@, reply)]
<1>1. srv' = [srv EXCEPT ![c] = n]
  BY DEF Answer
<1>2. n = [at |-> "read", words |-> r.words, auth |-> r.auth, secret |-> r.secret, limit |-> r.limit,
           out |-> << reply >>, did |-> r.did]
  <2>1. r = [at |-> r.at, words |-> r.words, auth |-> r.auth, secret |-> r.secret, limit |-> r.limit,
             out |-> << >>, did |-> r.did]
    BY DEF ServerSideOK
  <2>2. Append(r.out, reply) = << reply >>
    OBVIOUS
  <2>3. n = [r EXCEPT !.at = "read", !.out = << reply >>]
    BY <2>2
  <2> HIDE DEF n
  <2> QED
    BY <2>1, <2>3
<1> HIDE DEF n
<1>3. n.at = "read" /\ n.auth = r.auth /\ n.secret = r.secret /\ n.out = << reply >> /\ n.did = r.did
  BY <1>2
<1>4. cl[c].at = "wait"
  <2>1. Connections
    BY DEF ConnInv
  <2> QED
    BY <2>1, Handling DEF Handled
<1>5. SessionOK(n) /\ ProgramOK(cl[c])
  BY <1>3 DEF SessionOK, TruthInv
<1>6. RequestOK(cl[c], n)
  <2>1. Heard(n.out) = reply
    BY <1>3 DEF Heard
  <2>2. n.at \notin Handled
    BY <1>3 DEF Handled
  <2> QED
    BY <1>3, <1>4, <2>1, <2>2 DEF RequestOK
<1>7. cl' = [cl EXCEPT ![c] = cl[c]]
  BY Sides DEF ConnInv, Connections
<1> QED
  BY <1>1, <1>5, <1>6, <1>7, OneConnection

\* A command goes on: it is the same request, and nothing has been done.
LEMMA OnwardTruth ==
    ASSUME ConnInv, TruthInv, NEW c \in Clients, srv[c].at \in Handled, srv[c].auth = "yes",
           NEW at \in {"charge", "undo", "validate", "run"}, GoOn(c, at), UNCHANGED <<mode, cl>>
    PROVE  TruthInv'
<1> DEFINE r == srv[c]
           n == [r EXCEPT !.at = at]
<1>1. srv' = [srv EXCEPT ![c] = n]
  BY DEF GoOn, ConnInv, Connections
<1>2. n.at = at /\ n.words = r.words /\ n.auth = r.auth /\ n.secret = r.secret /\ n.did = r.did
  <2>1. r = [at |-> r.at, words |-> r.words, auth |-> r.auth, secret |-> r.secret, limit |-> r.limit,
             out |-> r.out, did |-> r.did]
    BY Sides DEF ServerSideOK
  <2> HIDE DEF r
  <2> QED
    BY <2>1
<1> HIDE DEF n
<1>3. cl[c].at = "wait"
  <2>1. Connections
    BY DEF ConnInv
  <2> QED
    BY <2>1, Handling DEF Handled
<1>4. SessionOK(n) /\ ProgramOK(cl[c])
  BY <1>2 DEF SessionOK, TruthInv
<1>5. RequestOK(cl[c], n)
  <2>1. r.words = Words(Head(cl[c].todo)) /\ r.did = Nothing
    BY DEF TruthInv, RequestOK
  <2> QED
    BY <1>2, <1>3, <2>1 DEF RequestOK
<1>6. cl' = [cl EXCEPT ![c] = cl[c]]
  BY Sides DEF ConnInv, Connections
<1> QED
  BY <1>1, <1>4, <1>5, <1>6, OneConnection

\* What the daemon knows of a request under way.
LEMMA UnderWay ==
    ASSUME ConnInv, TruthInv, NEW c \in Clients, srv[c].at \in Handled
    PROVE  /\ ServerSideOK(srv[c]) /\ SessionOK(srv[c]) /\ srv[c].out = << >> /\ cl[c].at = "wait"
           /\ srv[c].words = Words(Head(cl[c].todo)) /\ srv[c].did = Nothing
           /\ Head(cl[c].todo) \in Requests
           /\ srv[c].at # "received" => srv[c].auth = "yes"
<1>1. Connections
  BY DEF ConnInv
<1>2. ServerSideOK(srv[c]) /\ srv[c].out = << >> /\ cl[c].at = "wait"
  BY <1>1, Handling DEF Handled
<1>3. SessionOK(srv[c]) /\ RequestOK(cl[c], srv[c]) /\ ProgramOK(cl[c])
  BY DEF TruthInv
<1>4. Head(cl[c].todo) \in Requests
  BY <1>2, <1>3, HeadTailProperties DEF ProgramOK
<1> QED
  BY <1>2, <1>3, <1>4 DEF RequestOK, SessionOK, Handled

\* A request that fails is told so.
LEMMA FailTruth ==
    ASSUME ConnInv, TruthInv, NEW c \in Clients, srv[c].at \in Handled, NEW r \in {srv[c], NotAuthenticated(srv[c])},
           srv[c].at \notin {"charge", "undo"} \/ r = srv[c], Answer(c, r, Error), UNCHANGED <<mode, cl>>
    PROVE  TruthInv'
<1>1. ServerSideOK(srv[c]) /\ SessionOK(srv[c]) /\ srv[c].out = << >> /\ srv[c].did = Nothing
  BY UnderWay
<1>2. ServerSideOK(r) /\ r.out = << >>
  BY <1>1, NotAuthenticatedOK
<1>3. r.did = Nothing /\ (mode.require_auth = "yes" /\ r.auth = "yes" => r.secret # "none")
  <2>1. CASE r = srv[c]
    BY <1>1, <2>1 DEF SessionOK
  <2>2. CASE r = NotAuthenticated(srv[c])
    <3>1. PICK old : old = srv[c]
      OBVIOUS
    <3>2. old = [at |-> old.at, words |-> old.words, auth |-> old.auth, secret |-> old.secret, limit |-> old.limit,
                 out |-> old.out, did |-> old.did]
      BY <1>1, <3>1 DEF ServerSideOK
    <3>3. r = [old EXCEPT !.auth = "no", !.secret = "none", !.limit = 0]
      BY <2>2, <3>1 DEF NotAuthenticated
    <3>4. r.did = old.did /\ r.auth = "no"
      BY <3>2, <3>3
    <3> QED
      BY <1>1, <3>1, <3>4
  <2> QED
    BY <2>1, <2>2
<1>4. Truth(Head(cl[c].todo), Printed(Head(cl[c].todo), Error), r.did, r.secret)
  BY <1>3, FailureTruth
<1> QED
  BY <1>2, <1>3, <1>4, AnswerTruth

\* AUTH, PING, a refusal, or the command goes on.
LEMMA ReceiveTruth == ASSUME ConnInv, TruthInv, NEW c \in Clients, Receive(c) PROVE TruthInv'
<1> DEFINE q == Head(cl[c].todo)
           old == srv[c]
<1>1. srv[c].at = "received" /\ srv[c].at \in Handled /\ UNCHANGED <<mode, cl>>
  BY DEF Receive, Handled
<1>2. /\ ServerSideOK(srv[c]) /\ SessionOK(srv[c]) /\ srv[c].out = << >> /\ srv[c].did = Nothing
      /\ srv[c].words[1] = q.op
  BY <1>1, UnderWay, WordsOf
<1>3. CASE srv[c].words[1] = "AUTH" /\ handle_auth(c)
  <2> DEFINE s == Named(c)
             unnamed == Len(srv[c].words) < 2
             r == [srv[c] EXCEPT !.auth = "yes", !.secret = s, !.limit = registry[s]]
  <2>1. CASE ~unnamed /\ s \in Secrets /\ registry[s] # Revoked
    <3>1. Answer(c, r, Ok)
      BY <1>3, <2>1 DEF handle_auth
    <3>2. registry[s] \in Limits /\ s # "none"
      BY <2>1, ConnectionAssumption DEF ConnInv, Tables
    <3>3. r = [at |-> "received", words |-> old.words, auth |-> "yes", secret |-> s, limit |-> registry[s],
               out |-> << >>, did |-> old.did]
      <4>1. old = [at |-> old.at, words |-> old.words, auth |-> old.auth, secret |-> old.secret, limit |-> old.limit,
                   out |-> old.out, did |-> old.did]
        BY <1>2 DEF ServerSideOK
      <4>2. r = [old EXCEPT !.auth = "yes", !.secret = s, !.limit = registry[s]]
        OBVIOUS
      <4>3. old.at = "received" /\ old.out = << >>
        BY <1>1, <1>2
      <4> HIDE DEF old, r, s
      <4> QED
        BY <4>1, <4>2, <4>3
    <3> HIDE DEF r
    <3>4. r.at = "received" /\ r.auth = "yes" /\ r.secret = s /\ r.limit = registry[s] /\ r.out = << >>
      BY <3>3
    <3>5. ServerSideOK(r)
      <4>1. r = [at |-> r.at, words |-> r.words, auth |-> r.auth, secret |-> r.secret, limit |-> r.limit,
                 out |-> r.out, did |-> r.did]
        BY <3>3
      <4> QED
        BY <2>1, <3>2, <3>4, <4>1 DEF ServerSideOK
    <3>6. Truth(q, Printed(q, Ok), r.did, r.secret)
      BY <1>2, <1>3 DEF Truth
    <3> QED
      BY <1>1, <3>1, <3>2, <3>4, <3>5, <3>6, AnswerTruth
  <2>2. CASE ~unnamed /\ ~(s \in Secrets /\ registry[s] # Revoked)
    <3>1. Answer(c, NotAuthenticated(srv[c]), Error)
      BY <1>3, <2>2 DEF handle_auth
    <3> QED
      BY <1>1, <3>1, FailTruth
  <2>3. CASE unnamed
    <3>1. Answer(c, srv[c], Error)
      BY <1>3, <2>3 DEF handle_auth
    <3> QED
      BY <1>1, <3>1, FailTruth
  <2> QED
    BY <2>1, <2>2, <2>3
<1>4. CASE srv[c].words[1] = "PING" /\ Answer(c, srv[c], Reply("pong", Line("PONG")))
  <2>1. Truth(q, Printed(q, Reply("pong", Line("PONG"))), srv[c].did, srv[c].secret)
    BY <1>2, <1>4 DEF Truth
  <2>2. mode.require_auth = "yes" /\ srv[c].auth = "yes" => srv[c].secret # "none"
    BY <1>2 DEF SessionOK
  <2> QED
    BY <1>1, <1>2, <1>4, <2>1, <2>2, AnswerTruth
<1>5. CASE srv[c].auth = "no" /\ Answer(c, srv[c], Error)
  BY <1>1, <1>5, FailTruth
<1>6. CASE srv[c].auth # "no" /\ GoOn(c, IF Limited(c) THEN "charge" ELSE "validate")
  <2>1. srv[c].auth = "yes"
    BY <1>2, <1>6 DEF ServerSideOK
  <2>2. CASE Limited(c)
    <3>1. GoOn(c, "charge")
      BY <1>6, <2>2
    <3> QED
      BY <1>1, <2>1, <3>1, OnwardTruth
  <2>3. CASE ~Limited(c)
    <3>1. GoOn(c, "validate")
      BY <1>6, <2>3
    <3> QED
      BY <1>1, <2>1, <3>1, OnwardTruth
  <2> QED
    BY <2>2, <2>3
<1> QED
  BY <1>3, <1>4, <1>5, <1>6 DEF Receive

\* A charge, and what is over the limit.
LEMMA ChargeTruth == ASSUME ConnInv, TruthInv, NEW c \in Clients, Charge(c) PROVE TruthInv'
<1>1. srv[c].at = "charge" /\ srv[c].at \in Handled /\ UNCHANGED <<mode, cl>>
  BY DEF Charge, Handled
<1>2. srv[c].auth = "yes"
  BY <1>1, UnderWay
<1>3. GoOn(c, "undo") \/ GoOn(c, "validate")
  BY DEF Charge
<1> QED
  BY <1>1, <1>2, <1>3, OnwardTruth

\* It is taken back, and the command fails.
LEMMA UndoTruth == ASSUME ConnInv, TruthInv, NEW c \in Clients, Undo(c) PROVE TruthInv'
<1>1. srv[c].at = "undo" /\ srv[c].at \in Handled /\ UNCHANGED <<mode, cl>> /\ Answer(c, srv[c], Error)
  BY DEF Undo, Handled
<1> QED
  BY <1>1, FailTruth

\* A key that is still valid; or the command fails.
LEMMA ValidateTruth == ASSUME ConnInv, TruthInv, NEW c \in Clients, Validate(c) PROVE TruthInv'
<1>1. srv[c].at = "validate" /\ srv[c].at \in Handled /\ UNCHANGED <<mode, cl>>
  BY DEF Validate, Handled
<1>2. srv[c].auth = "yes"
  BY <1>1, UnderWay
<1>3. GoOn(c, "run") \/ Answer(c, NotAuthenticated(srv[c]), Error)
  BY DEF Validate
<1>4. CASE GoOn(c, "run")
  BY <1>1, <1>2, <1>4, OnwardTruth
<1>5. CASE Answer(c, NotAuthenticated(srv[c]), Error)
  BY <1>1, <1>5, FailTruth
<1> QED
  BY <1>3, <1>4, <1>5

\* The handler; or no permission; or the end of the connection.
LEMMA RunTruth == ASSUME ConnInv, TruthInv, NEW c \in Clients, Run(c) PROVE TruthInv'
<1> DEFINE result == IF Permitted(c) THEN handle_resp(srv[c].words) ELSE Failed
           q == Head(cl[c].todo)
           old == srv[c]
           r == [old EXCEPT !.did = result.did]
<1>1. /\ srv[c].at = "run" /\ srv[c].at \in Handled /\ UNCHANGED <<mode, cl>>
      /\ IF result.reply = NoReply THEN srv' = [srv EXCEPT ![c] = NoConnection] ELSE Answer(c, r, result.reply)
  BY DEF Run, Handled
<1>2. /\ ServerSideOK(srv[c]) /\ SessionOK(srv[c]) /\ srv[c].out = << >> /\ cl[c].at = "wait"
      /\ srv[c].words = Words(q) /\ q \in Requests /\ mode \in Modes
  BY <1>1, UnderWay DEF ConnInv, Tables
<1>3. Truth(q, Printed(q, result.reply), result.did, srv[c].secret)
  <2>1. CASE Permitted(c)
    BY <1>1, <1>2, <2>1, HandlerTruth
  <2>2. CASE ~Permitted(c)
    BY <2>2, FailureTruth DEF Failed
  <2> QED
    BY <2>1, <2>2
<1> HIDE DEF result
<1>4. CASE result.reply = NoReply
  <2>1. srv' = [srv EXCEPT ![c] = NoConnection]
    BY <1>1, <1>4
  <2>2. /\ NoConnection.at = "closed" /\ NoConnection.auth = "no" /\ NoConnection.secret = "none"
        /\ NoConnection.out = << >> /\ NoConnection.did = Nothing
    BY DEF NoConnection
  <2>3. SessionOK(NoConnection) /\ ProgramOK(cl[c])
    BY <2>2 DEF SessionOK, TruthInv
  <2>4. Heard(NoConnection.out) = NoReply
    BY <2>2 DEF Heard
  <2>5. Truth(q, Printed(q, NoReply), Nothing, "none")
    BY FailureTruth
  <2>6. RequestOK(cl[c], NoConnection)
    BY <1>2, <2>2, <2>4, <2>5 DEF RequestOK, Handled
  <2>7. cl' = [cl EXCEPT ![c] = cl[c]]
    BY <1>1, Sides DEF ConnInv, Connections
  <2> QED
    BY <1>1, <2>1, <2>3, <2>6, <2>7, OneConnection
<1>5. CASE result.reply # NoReply
  <2>1. Answer(c, r, result.reply)
    BY <1>1, <1>5
  <2>2. r = [at |-> old.at, words |-> old.words, auth |-> old.auth, secret |-> old.secret, limit |-> old.limit,
             out |-> old.out, did |-> result.did]
    <3>1. old = [at |-> old.at, words |-> old.words, auth |-> old.auth, secret |-> old.secret, limit |-> old.limit,
                 out |-> old.out, did |-> old.did]
      BY <1>2 DEF ServerSideOK
    <3>2. r = [old EXCEPT !.did = result.did]
      OBVIOUS
    <3> HIDE DEF old, r
    <3> QED
      BY <3>1, <3>2
  <2> HIDE DEF r
  <2>3. /\ r.at = old.at /\ r.words = old.words /\ r.auth = old.auth /\ r.secret = old.secret
        /\ r.limit = old.limit /\ r.out = old.out /\ r.did = result.did
    BY <2>2
  <2>4. ServerSideOK(r) /\ r.out = << >>
    <3>1. r = [at |-> r.at, words |-> r.words, auth |-> r.auth, secret |-> r.secret, limit |-> r.limit,
               out |-> r.out, did |-> r.did]
      BY <2>2, <2>3
    <3> QED
      BY <1>2, <2>3, <3>1 DEF ServerSideOK
  <2>5. mode.require_auth = "yes" /\ r.auth = "yes" => r.secret # "none"
    BY <1>2, <2>3 DEF SessionOK
  <2>6. Truth(q, Printed(q, result.reply), r.did, r.secret)
    BY <1>3, <2>3
  <2> QED
    BY <1>1, <2>1, <2>4, <2>5, <2>6, AnswerTruth
<1> QED
  BY <1>4, <1>5

\* A client connects with a program.
LEMMA ConnectTruth ==
    ASSUME ConnInv, TruthInv, NEW c \in Clients, NEW program \in Programs, connect(c, program) PROVE TruthInv'
<1> DEFINE k == [cl[c] EXCEPT !.at = "send", !.todo = program]
<1>1. cl' = [cl EXCEPT ![c] = k] /\ srv' = [srv EXCEPT ![c] = Fresh] /\ UNCHANGED mode
  BY Sides DEF connect
<1>2. k = [at |-> "send", todo |-> program, said |-> cl[c].said]
  BY Sides, ClientFields
<1> HIDE DEF k
<1>3. k.at = "send" /\ k.todo = program
  BY <1>2
<1>4. ProgramOK(k)
  BY <1>3, ConnectionAssumption DEF ProgramOK
<1>5. Fresh.at = "read" /\ Fresh.auth = IF mode.require_auth = "yes" THEN "no" ELSE "yes"
  BY DEF Fresh
<1>6. SessionOK(Fresh)
  BY <1>5 DEF SessionOK
<1>7. RequestOK(k, Fresh)
  BY <1>3, <1>5 DEF RequestOK, Handled
<1> QED
  BY <1>1, <1>4, <1>6, <1>7, OneConnection

\* A request is sent.
LEMMA SendTruth == ASSUME ConnInv, TruthInv, NEW c \in Clients, Send(c) PROVE TruthInv'
<1> DEFINE r == srv[c]
           words == Words(Head(cl[c].todo))
           n == [r EXCEPT !.at = "received", !.words = words, !.did = Nothing]
           k == [cl[c] EXCEPT !.at = "wait"]
<1>1. cl[c].at = "send" /\ cl' = [cl EXCEPT ![c] = k] /\ srv' = [srv EXCEPT ![c] = n] /\ UNCHANGED mode
  BY Sides DEF Send
<1> HIDE DEF words
<1>2. k = [at |-> "wait", todo |-> cl[c].todo, said |-> cl[c].said]
  BY Sides, ClientFields
<1>3. n = [at |-> "received", words |-> words, auth |-> r.auth, secret |-> r.secret, limit |-> r.limit,
           out |-> r.out, did |-> Nothing]
  <2>1. r = [at |-> r.at, words |-> r.words, auth |-> r.auth, secret |-> r.secret, limit |-> r.limit,
             out |-> r.out, did |-> r.did]
    BY Sides DEF ServerSideOK
  <2>2. n = [r EXCEPT !.at = "received", !.words = words, !.did = Nothing]
    OBVIOUS
  <2> HIDE DEF n, r
  <2> QED
    BY <2>1, <2>2
<1> HIDE DEF k, n
<1>4. k.at = "wait" /\ k.todo = cl[c].todo
  BY <1>2
<1>5. n.at = "received" /\ n.words = words /\ n.auth = r.auth /\ n.secret = r.secret /\ n.did = Nothing
  BY <1>3
<1>6. SessionOK(n)
  BY <1>5 DEF TruthInv, SessionOK
<1>7. ProgramOK(k)
  BY <1>1, <1>4 DEF TruthInv, ProgramOK
<1>8. RequestOK(k, n)
  BY <1>4, <1>5 DEF RequestOK, words
<1> QED
  BY <1>1, <1>6, <1>7, <1>8, OneConnection

\* What was true of the answer is true of what is printed.
LEMMA HearTruth == ASSUME ConnInv, TruthInv, NEW c \in Clients, Hear(c) PROVE TruthInv'
<1> DEFINE r == srv[c]
           said == Printed(Head(cl[c].todo), Heard(srv[c].out))
           left == IF r.out = << >> THEN r.out ELSE Tail(r.out)
           n == [r EXCEPT !.out = left]
           k == [cl[c] EXCEPT !.at = "told", !.said = said]
<1>1. /\ cl[c].at = "wait" /\ (srv[c].out # << >> \/ srv[c].at = "closed")
      /\ cl' = [cl EXCEPT ![c] = k] /\ srv' = [srv EXCEPT ![c] = n] /\ UNCHANGED mode
  BY Sides DEF Hear, Heard
<1> HIDE DEF said, left
<1>2. k = [at |-> "told", todo |-> cl[c].todo, said |-> said]
  <2>1. ClientSideOK(cl[c])
    BY Sides
  <2>2. [cl[c] EXCEPT !.at = "told", !.said = said] = [at |-> "told", todo |-> cl[c].todo, said |-> said]
    BY <2>1, ClientHeard
  <2> QED
    BY <2>2
<1>3. n = [at |-> r.at, words |-> r.words, auth |-> r.auth, secret |-> r.secret, limit |-> r.limit,
           out |-> left, did |-> r.did]
  <2>1. r = [at |-> r.at, words |-> r.words, auth |-> r.auth, secret |-> r.secret, limit |-> r.limit,
             out |-> r.out, did |-> r.did]
    BY Sides DEF ServerSideOK
  <2>2. n = [r EXCEPT !.out = left]
    OBVIOUS
  <2> HIDE DEF n, r
  <2> QED
    BY <2>1, <2>2
<1> HIDE DEF k, n
<1>4. k.at = "told" /\ k.todo = cl[c].todo /\ k.said = said
  BY <1>2
<1>5. n.at = r.at /\ n.auth = r.auth /\ n.secret = r.secret /\ n.did = r.did
  BY <1>3
<1>6. r.at \in {"read", "closed"}
  BY <1>1, Sides DEF InStep
<1>7. Truth(Head(cl[c].todo), said, r.did, r.secret)
  BY <1>1, <1>6 DEF TruthInv, RequestOK, said
<1>8. SessionOK(n)
  BY <1>5 DEF TruthInv, SessionOK
<1>9. ProgramOK(k)
  BY <1>1, <1>4 DEF TruthInv, ProgramOK
<1>10. RequestOK(k, n)
  BY <1>4, <1>5, <1>6, <1>7 DEF RequestOK, Handled
<1> QED
  BY <1>1, <1>8, <1>9, <1>10, OneConnection

\* The client goes on with what is left of its program, or hangs up.
LEMMA ContinueTruth == ASSUME ConnInv, TruthInv, NEW c \in Clients, Continue(c) PROVE TruthInv'
<1>1. cl[c].at = "told" /\ UNCHANGED mode
  BY DEF Continue
<1>2. srv[c].at \in {"read", "closed"}
  BY <1>1, Sides DEF InStep
<1>3. CASE Len(cl[c].todo) > 1 /\ srv[c].at # "closed"
  <2> DEFINE k == [at |-> "send", todo |-> Tail(cl[c].todo), said |-> Empty]
  <2>1. cl' = [cl EXCEPT ![c] = k] /\ srv' = [srv EXCEPT ![c] = srv[c]]
    BY <1>3 DEF Continue, ConnInv, Connections
  <2>2. cl[c].todo \in Seq(Requests) /\ cl[c].todo # << >>
    BY <1>1 DEF TruthInv, ProgramOK
  <2>3. Tail(cl[c].todo) \in Seq(Requests) /\ Tail(cl[c].todo) # << >>
    <3>1. Tail(cl[c].todo) \in Seq(Requests) /\ Len(Tail(cl[c].todo)) = Len(cl[c].todo) - 1
      BY <2>2, HeadTailProperties
    <3>2. Len(cl[c].todo) \in Nat
      BY <2>2
    <3>3. PICK l \in Nat : l = Len(cl[c].todo)
      BY <3>2
    <3>4. PICK rest : rest = Tail(cl[c].todo)
      OBVIOUS
    <3>5. l > 1
      BY <1>3, <3>3
    <3>6. Len(rest) = l - 1 /\ l - 1 # 0
      BY <3>1, <3>3, <3>4, <3>5
    <3>7. rest # << >>
      BY <3>6
    <3> QED
      BY <3>1, <3>4, <3>7
  <2>4. ProgramOK(k)
    BY <2>3 DEF ProgramOK
  <2>5. SessionOK(srv[c])
    BY DEF TruthInv
  <2>6. RequestOK(k, srv[c])
    BY <1>2 DEF RequestOK, Handled
  <2> HIDE DEF k
  <2> QED
    BY <1>1, <2>1, <2>4, <2>5, <2>6, OneConnection
<1>4. CASE ~(Len(cl[c].todo) > 1 /\ srv[c].at # "closed")
  <2> DEFINE k == [at |-> "idle", todo |-> << >>, said |-> Empty]
  <2>1. cl' = [cl EXCEPT ![c] = k] /\ srv' = [srv EXCEPT ![c] = NoConnection]
    BY <1>4 DEF Continue
  <2>2. ProgramOK(k) /\ SessionOK(NoConnection) /\ RequestOK(k, NoConnection)
    BY DEF ProgramOK, SessionOK, RequestOK, Handled, NoConnection
  <2> HIDE DEF k
  <2> QED
    BY <1>1, <2>1, <2>2, OneConnection
<1> QED
  BY <1>3, <1>4

\* A step that leaves the clients and their connections leaves what is told.
LEMMA StillTruth == ASSUME TruthInv, UNCHANGED <<mode, srv, cl>> PROVE TruthInv'
<1> SUFFICES ASSUME NEW d \in Clients
             PROVE  SessionOK(srv[d])' /\ ProgramOK(cl[d])' /\ RequestOK(cl[d], srv[d])'
  BY DEF TruthInv
<1>1. mode' = mode /\ srv'[d] = srv[d] /\ cl'[d] = cl[d]
  OBVIOUS
<1>2. SessionOK(srv[d])' /\ ProgramOK(cl[d])'
  BY <1>1 DEF TruthInv, SessionOK, ProgramOK
<1>3. RequestOK(cl[d], srv[d])
  BY DEF TruthInv
<1>4. RequestOK(cl[d], srv[d])'
  BY <1>1, <1>3 DEF RequestOK, Truth
<1> QED
  BY <1>2, <1>4

\* What a client prints is what the daemon did of its own request, whatever the
\* other clients do and the registry says in between (resp.rs:15-79).
THEOREM AlwaysToldTruth == Spec => []ToldTruth
<1>1. Init => TruthInv
  BY DEF Init, TruthInv, SessionOK, ProgramOK, RequestOK, Handled, NoConnection
<1>2. ConnInv /\ TruthInv /\ [Next]_vars => TruthInv'
  <2> SUFFICES ASSUME ConnInv, TruthInv, [Next]_vars PROVE TruthInv'
    OBVIOUS
  <2>1. ASSUME UNCHANGED <<mode, srv, cl>> PROVE TruthInv'
    BY <2>1, StillTruth
  <2>2. ASSUME NEW c \in Clients, NEW program \in Programs, connect(c, program) PROVE TruthInv'
    BY <2>2, ConnectTruth
  <2>3. ASSUME NEW c \in Clients, Send(c) PROVE TruthInv'
    BY <2>3, SendTruth
  <2>4. ASSUME NEW c \in Clients, Hear(c) PROVE TruthInv'
    BY <2>4, HearTruth
  <2>5. ASSUME NEW c \in Clients, Continue(c) PROVE TruthInv'
    BY <2>5, ContinueTruth
  <2>6. ASSUME NEW c \in Clients, Receive(c) PROVE TruthInv'
    BY <2>6, ReceiveTruth
  <2>7. ASSUME NEW c \in Clients, Charge(c) PROVE TruthInv'
    BY <2>7, ChargeTruth
  <2>8. ASSUME NEW c \in Clients, Undo(c) PROVE TruthInv'
    BY <2>8, UndoTruth
  <2>9. ASSUME NEW c \in Clients, Validate(c) PROVE TruthInv'
    BY <2>9, ValidateTruth
  <2>10. ASSUME NEW c \in Clients, Run(c) PROVE TruthInv'
    BY <2>10, RunTruth
  <2>11. ASSUME NEW s \in Secrets, NEW limit \in Limits \cup {Revoked}, Reload(s, limit) PROVE TruthInv'
    BY <2>1, <2>11 DEF Reload
  <2>12. CASE UNCHANGED vars
    BY <2>1, <2>12 DEF vars
  <2> QED
    BY <2>2, <2>3, <2>4, <2>5, <2>6, <2>7, <2>8, <2>9, <2>10, <2>11, <2>12 DEF Next
<1>3. ConnInv /\ TruthInv => ToldTruth
  <2> SUFFICES ASSUME ConnInv, TruthInv, NEW c \in Clients, cl[c].at = "told"
               PROVE  srv[c].out = << >> /\ Truth(Head(cl[c].todo), cl[c].said, srv[c].did, srv[c].secret)
    BY DEF ToldTruth
  <2>1. srv[c].out = << >>
    BY Sides DEF InStep
  <2>2. Truth(Head(cl[c].todo), cl[c].said, srv[c].did, srv[c].secret)
    BY DEF TruthInv, RequestOK
  <2> QED
    BY <2>1, <2>2
<1> QED
  BY <1>1, <1>2, <1>3, ConnInvariance, PTL DEF Spec

=============================================================================

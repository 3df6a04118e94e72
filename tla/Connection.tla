----------------------------- MODULE Connection -----------------------------
(***************************************************************************)
(* A connection from one end to the other: the command-line clients and    *)
(* applications that talk to the daemon, its command loop, and what a      *)
(* command passes there: authentication, quota, revocation, permission     *)
(* and the handler.                                                        *)
(*                                                                         *)
(* AuthGate has the reloader, QuotaMeter the flusher and the counters'     *)
(* lock, CacheDaemon the handlers in full; here a reload and a handler are *)
(* one step each, and the question is what they come to together.          *)
(*                                                                         *)
(* The daemon takes what one read returns for one command and splits it at *)
(* white space.  A client sends a command, well below a read's 4096 bytes, *)
(* and waits for the answer, so a read returns what a client sent.         *)
(***************************************************************************)
EXTENDS Integers, Sequences, FiniteSets

CONSTANTS
    Clients,        \* processes, each with a connection at a time
    Secrets,        \* API keys
    Writers,        \* those with write permission; the others may read
    Limits,         \* ops_limit a key can have; 0 is none
    Keys,           \* cache keys: the second words of what Programs send
    Modes,          \* configurations: [require_auth, strict, safe]
    Programs,       \* what clients do: sequences of requests
    MaxPrograms,    \* bound: programs that are run
    MaxReloads      \* bound: reloads that change the registry

Requests == UNION {{program[i] : i \in DOMAIN program} : program \in Programs}

\* The arguments of a request are texts (see below), its ttl and fp words or "none".
ASSUME ConnectionAssumption ==
    /\ Writers \subseteq Secrets /\ "none" \notin Secrets
    /\ Limits \subseteq Nat
    /\ \E most \in Limits \cup {0} : \A limit \in Limits : limit <= most   \* they are u64
    /\ IsFiniteSet(Clients)
    /\ Modes \subseteq [require_auth : {"yes", "no"}, strict : {"yes", "no"}, safe : {"yes", "no"}]
    /\ \A program \in Programs : program \in Seq(Requests) /\ program # << >>
    /\ \A r \in Requests : {r.key, r.value} \subseteq [words : Seq(STRING), gaps : {"single", "other"}]
    /\ {MaxPrograms, MaxReloads} \subseteq Nat

VARIABLES
    mode,       \* the configuration the daemon was started with
    registry,   \* [Secrets -> ops_limit, or Revoked]
    counter,    \* ops_counters
    engine,     \* [Keys -> the text of the value, or Absent]
    srv,        \* the daemon's side of each connection
    cl,         \* the client's side: [at, todo, said]
    account,    \* history, of each secret: [served, refused, auths, late]
    used        \* [programs, reloads]: the bounded counters

vars == <<mode, registry, counter, engine, srv, cl, account, used>>

-----------------------------------------------------------------------------
(* Requests, their words on the wire, and what a client makes of a reply.  *)

\* A text is words and what is between and around them: "single" for one blank
\* between every two and nothing else, "other" for any other white space.
Joined(words) == [words |-> words, gaps |-> "single"]
Line(word) == Joined(<< word >>)
Empty == Joined(<< >>)

\* What is typed; an argument may be quoted, so it is any text.
Request(op, key) == [op |-> op, key |-> key, value |-> Empty, ttl |-> "none", fp |-> "none"]
get(key) == Request("GET", key)
del(key) == Request("DEL", key)
ttl(key) == Request("TTL", key)
keys(pattern) == Request("KEYS", pattern)
flush == Request("FLUSHALL", Empty)
usage == << Request("INFO", Empty) >>
status == << Request("PING", Empty), Request("INFO", Empty) >>
set(key, value, time) == [Request("SET", key) EXCEPT !.value = value, !.ttl = time]
\* What applications send besides; cachee's own commands never authenticate.
Auth(secret) == Request("AUTH", secret)
SetWithFp(key, value, fp) == [Request("SET", key) EXCEPT !.value = value, !.fp = fp]
AuditVerify == Request("AUDITVERIFY", Empty)

\* The line is sent as it was typed and split at white space: what an argument
\* begins and ends with, and how its words were spaced, is lost.
Given(words, word) == IF word = "none" THEN << >> ELSE words
Words(r) == << r.op >> \o r.key.words \o r.value.words
                       \o Given(<< "EX", r.ttl >>, r.ttl) \o Given(<< "FP", r.fp >>, r.fp)

Reply(kind, text) == [kind |-> kind, text |-> text]
Ok == Reply("ok", Line("OK"))
Error == Reply("error", Empty)
NoReply == Reply("none", Empty)

Printed(r, reply) ==
    CASE r.op = "SET" -> Line(IF reply.kind = "ok" THEN "OK" ELSE "not OK")
      [] r.op = "DEL" -> Line(IF reply = Reply("int", Line("1")) THEN "1" ELSE "0")
      [] r.op = "GET" /\ reply.kind = "nil" -> Line("(nil)")
      [] r.op = "GET" /\ reply.kind \notin {"nil", "bulk"} -> Line("not found out")
      [] OTHER -> reply.text

-----------------------------------------------------------------------------
(* The daemon.                                                             *)

Revoked == -1
Absent == [words |-> << >>, gaps |-> "none"]
Did(op, key, text) == [op |-> op, key |-> key, text |-> text]
Nothing == Did("none", "none", Empty)
NotAuthenticated(s) == [s EXCEPT !.auth = "no", !.secret = "none", !.limit = 0]

\* A new connection: where its command is, its words, what AUTH told it, what
\* it has sent; and, as a history, what the handler did last.
Fresh == [at |-> "read", words |-> << >>, auth |-> IF mode.require_auth = "yes" THEN "no" ELSE "yes",
          secret |-> "none", limit |-> 0, out |-> << >>, did |-> Nothing]
NoConnection == [at |-> "closed", words |-> << >>, auth |-> "no",
                 secret |-> "none", limit |-> 0, out |-> << >>, did |-> Nothing]

Init ==
    /\ mode \in Modes
    /\ registry \in [Secrets -> Limits]
    /\ counter = [s \in Secrets |-> 0]
    /\ engine = [k \in Keys |-> Absent]
    /\ srv = [c \in Clients |-> NoConnection]
    /\ cl = [c \in Clients |-> [at |-> "idle", todo |-> << >>, said |-> Empty]]
    /\ account = [s \in Secrets |-> [served |-> 0, refused |-> 0, auths |-> 0, late |-> 0]]
    /\ used = [programs |-> 0, reloads |-> 0]

\* The connection, now s, is answered and reads its next command; or goes on.
Answer(c, s, reply) == srv' = [srv EXCEPT ![c] = [s EXCEPT !.at = "read", !.out = Append(@, reply)]]
GoOn(c, at) == srv' = [srv EXCEPT ![c].at = at]

Limited(c) == srv[c].secret # "none" /\ srv[c].limit > 0
Named(c) == srv[c].words[2]
handle_auth(c) ==
    IF Len(srv[c].words) < 2 THEN Answer(c, srv[c], Error) /\ UNCHANGED account
    ELSE IF Named(c) \in Secrets /\ registry[Named(c)] # Revoked
    THEN /\ Answer(c, [srv[c] EXCEPT !.auth = "yes", !.secret = Named(c), !.limit = registry[Named(c)]], Ok)
         /\ account' = [account EXCEPT ![Named(c)].auths = @ + 1]
    ELSE Answer(c, NotAuthenticated(srv[c]), Error) /\ UNCHANGED account

\* Seeded fault: after AUTH the loop goes on with the command.
ReceiveAndGoOn(c) ==
    /\ srv[c].at = "received"
    /\ CASE srv[c].words[1] = "AUTH" /\ Len(srv[c].words) > 1 ->
              /\ srv' = [srv EXCEPT ![c].at = "run", ![c].out = Append(@, Ok), ![c].auth = "yes",
                                    ![c].secret = srv[c].words[2]]
              /\ UNCHANGED account
         [] srv[c].words[1] = "PING" -> Answer(c, srv[c], Reply("pong", Line("PONG"))) /\ UNCHANGED account
         [] OTHER -> GoOn(c, IF Limited(c) THEN "charge" ELSE "validate") /\ UNCHANGED account
    /\ UNCHANGED <<mode, registry, counter, engine, cl, used>>
\* AUTH and PING are answered at once, and so is what needs AUTH first.
Receive(c) ==
    LET word == srv[c].words[1]
    IN  /\ srv[c].at = "received"
        /\ \/ word = "AUTH" /\ handle_auth(c)
           \/ word = "PING" /\ Answer(c, srv[c], Reply("pong", Line("PONG"))) /\ UNCHANGED account
           \/ /\ word \notin {"AUTH", "PING"}
              /\ IF srv[c].auth = "no" THEN Answer(c, srv[c], Error)
                 ELSE GoOn(c, IF Limited(c) THEN "charge" ELSE "validate")
              /\ UNCHANGED account
        /\ UNCHANGED <<mode, registry, counter, engine, cl, used>>

\* Seeded fault: what is over the limit stays charged.
ChargeForGood(c) ==
    /\ srv[c].at = "charge"
    /\ counter' = [counter EXCEPT ![srv[c].secret] = @ + 1]
    /\ IF counter[srv[c].secret] >= srv[c].limit THEN Answer(c, srv[c], Error) ELSE GoOn(c, "validate")
    /\ UNCHANGED <<mode, registry, engine, cl, account, used>>
\* The limit is the one AUTH found; what is over it is taken back.
Charge(c) ==
    /\ srv[c].at = "charge"
    /\ counter' = [counter EXCEPT ![srv[c].secret] = @ + 1]
    /\ GoOn(c, IF counter[srv[c].secret] >= srv[c].limit THEN "undo" ELSE "validate")
    /\ UNCHANGED <<mode, registry, engine, cl, account, used>>
Undo(c) ==
    /\ srv[c].at = "undo"
    /\ counter' = [counter EXCEPT ![srv[c].secret] = @ - 1]
    /\ Answer(c, srv[c], Error)
    /\ UNCHANGED <<mode, registry, engine, cl, account, used>>

Refused(c) == [account EXCEPT ![srv[c].secret].refused = @ + (IF Limited(c) THEN 1 ELSE 0)]
StillValid(c) == mode.require_auth = "no" \/ srv[c].secret = "none" \/ registry[srv[c].secret] # Revoked

\* Seeded fault: the connection keeps its authentication.
ValidateAndKeep(c) ==
    /\ srv[c].at = "validate"
    /\ IF StillValid(c) THEN GoOn(c, "run") /\ UNCHANGED account
       ELSE /\ Answer(c, srv[c], Error)
            /\ account' = [Refused(c) EXCEPT ![srv[c].secret].late = @ + 1]
    /\ UNCHANGED <<mode, registry, counter, engine, cl, used>>
\* A revoked key is found out when the command has been charged to it.
Validate(c) ==
    /\ srv[c].at = "validate"
    /\ IF StillValid(c) THEN GoOn(c, "run") /\ UNCHANGED account
       ELSE /\ Answer(c, NotAuthenticated(srv[c]), Error)
            /\ account' = [Refused(c) EXCEPT ![srv[c].secret].late = @ + 1]
    /\ UNCHANGED <<mode, registry, counter, engine, cl, used>>

\* Of a key that may write, admin commands are accepted as well.
Permitted(c) ==
    \/ mode.require_auth = "no"
    \/ srv[c].secret \in Writers \cup {"none"}
    \/ srv[c].words[1] \notin {"SET", "DEL", "AUDITVERIFY"}

\* SET looks for the word FP, which stands for it in either case, in all of the
\* command, its key included.
FpAt(words) == {i \in DOMAIN words : words[i] = "FP"}
FirstFp(words) == CHOOSE i \in FpAt(words) : \A j \in FpAt(words) : i <= j
Value(words) == SubSeq(words, 3, IF FpAt(words) = {} THEN Len(words) ELSE FirstFp(words) - 1)

\* The reply to a command, and what it does; a slice that ends before it begins is
\* a panic, which ends the connection.  A command with too few words is unknown.
Failed == [reply |-> Error, did |-> Nothing]
handle_set(words) ==
    CASE Len(words) < 3 -> Failed
      [] Len(words) >= 3 /\ FpAt(words) = {} /\ mode.strict = "yes" -> Failed
      [] Len(words) >= 3 /\ 2 \in FpAt(words) -> [reply |-> NoReply, did |-> Nothing]
      [] OTHER -> [reply |-> Ok, did |-> Did("stored", words[2], Joined(Value(words)))]
handle_resp(words) ==
    CASE words[1] = "SET" -> handle_set(words)
      [] words[1] = "GET" /\ mode.safe = "no" /\ Len(words) >= 2 ->
            IF engine[words[2]] = Absent THEN [reply |-> Reply("nil", Empty), did |-> Nothing]
            ELSE [reply |-> Reply("bulk", engine[words[2]]), did |-> Did("read", words[2], engine[words[2]])]
      [] words[1] = "DEL" /\ Len(words) >= 2 ->
            IF engine[words[2]] = Absent THEN [reply |-> Reply("int", Line("0")), did |-> Nothing]
            ELSE [reply |-> Reply("int", Line("1")), did |-> Did("deleted", words[2], Absent)]
      [] words[1] \in {"INFO", "AUDITVERIFY"} -> [reply |-> Reply("bulk", Line("text")), did |-> Nothing]
      [] OTHER -> Failed

Run(c) ==
    LET result == IF Permitted(c) THEN handle_resp(srv[c].words) ELSE Failed
        did == result.did
    IN  /\ srv[c].at = "run"
        /\ IF result.reply = NoReply THEN srv' = [srv EXCEPT ![c] = NoConnection]
           ELSE Answer(c, [srv[c] EXCEPT !.did = did], result.reply)
        /\ engine' = IF did.op \in {"stored", "deleted"} THEN [engine EXCEPT ![did.key] = did.text] ELSE engine
        /\ account' = IF ~Limited(c) THEN account
                      ELSE IF Permitted(c) THEN [account EXCEPT ![srv[c].secret].served = @ + 1]
                      ELSE Refused(c)
        /\ UNCHANGED <<mode, registry, counter, cl, used>>

\* A reload finds a key revoked, or with another limit.
Reload(s, limit) ==
    /\ mode.require_auth = "yes" /\ registry[s] # limit
    /\ used.reloads < MaxReloads
    /\ registry' = [registry EXCEPT ![s] = limit]
    /\ used' = [used EXCEPT !.reloads = @ + 1]
    /\ UNCHANGED <<mode, counter, engine, srv, cl, account>>

-----------------------------------------------------------------------------
(* Clients.                                                                *)

connect(c, program) ==
    /\ cl[c].at = "idle" /\ used.programs < MaxPrograms
    /\ cl' = [cl EXCEPT ![c].at = "send", ![c].todo = program]
    /\ srv' = [srv EXCEPT ![c] = Fresh]
    /\ used' = [used EXCEPT !.programs = @ + 1]
    /\ UNCHANGED <<mode, registry, counter, engine, account>>

Send(c) ==
    /\ cl[c].at = "send"
    /\ cl' = [cl EXCEPT ![c].at = "wait"]
    /\ srv' = [srv EXCEPT ![c].at = "received", ![c].words = Words(Head(cl[c].todo)), ![c].did = Nothing]
    /\ UNCHANGED <<mode, registry, counter, engine, account, used>>

\* An answer, or the end of the connection, and what is printed of it.
Hear(c) ==
    LET reply == IF srv[c].out = << >> THEN NoReply ELSE Head(srv[c].out)
    IN  /\ cl[c].at = "wait"
        /\ srv[c].out # << >> \/ srv[c].at = "closed"
        /\ cl' = [cl EXCEPT ![c].at = "told", ![c].said = Printed(Head(cl[c].todo), reply)]
        /\ srv' = [srv EXCEPT ![c].out = IF @ = << >> THEN @ ELSE Tail(@)]
        /\ UNCHANGED <<mode, registry, counter, engine, account, used>>

\* The client goes on with its program, or hangs up.
Continue(c) ==
    /\ cl[c].at = "told"
    /\ IF Len(cl[c].todo) > 1 /\ srv[c].at # "closed"
       THEN cl' = [cl EXCEPT ![c] = [at |-> "send", todo |-> Tail(@.todo), said |-> Empty]] /\ UNCHANGED srv
       ELSE /\ cl' = [cl EXCEPT ![c] = [at |-> "idle", todo |-> << >>, said |-> Empty]]
            /\ srv' = [srv EXCEPT ![c] = NoConnection]
    /\ UNCHANGED <<mode, registry, counter, engine, account, used>>

Next ==
    \/ \E c \in Clients :
          \/ \E program \in Programs : connect(c, program)
          \/ Send(c) \/ Hear(c) \/ Continue(c)
          \/ Receive(c) \/ Charge(c) \/ Undo(c) \/ Validate(c) \/ Run(c)
    \/ \E s \in Secrets, limit \in Limits \cup {Revoked} : Reload(s, limit)

Spec == Init /\ [][Next]_vars

-----------------------------------------------------------------------------
(* Properties.                                                             *)

MaxLimit == CHOOSE m \in Limits \cup {0} : \A n \in Limits : n <= m

\* A counter is over the largest limit only by commands that are being undone.
TypeOK ==
    /\ mode \in Modes
    /\ registry \in [Secrets -> Limits \cup {Revoked}]
    /\ counter \in [Secrets -> 0..(MaxLimit + Cardinality(Clients))]
    /\ \A c \in Clients :
          /\ srv[c].at \in {"closed", "read", "received", "charge", "undo", "validate", "run"}
          /\ srv[c].auth \in {"yes", "no"}
          /\ srv[c].secret \in Secrets \cup {"none"}
          /\ srv[c].limit \in Limits \cup {0}
          /\ srv[c].secret # "none" => srv[c].auth = "yes"
          /\ cl[c].at \in {"idle", "send", "wait", "told"}
    /\ used \in [programs : 0..MaxPrograms, reloads : 0..MaxReloads]

\* The daemon takes the arguments of this SET as they were typed.
AsTyped(r) == /\ Len(r.key.words) = 1 /\ r.ttl = "none" /\ r.value.gaps = "single"
              /\ \A i \in DOMAIN r.value.words : r.value.words[i] # "FP"

Truth(r, said, did, secret) ==
    /\ r.op = "SET" => (said = Line("OK") <=> did.op = "stored")
    /\ r.op = "SET" /\ did.op = "stored" /\ mode.require_auth = "yes" => secret \in Writers
    /\ r.op = "SET" /\ did.op = "stored" /\ AsTyped(r) => did.text = r.value
    /\ r.op = "GET" /\ said \notin {Line("(nil)"), Line("not found out")} => did.op = "read" /\ did.text = said
    /\ r.op = "DEL" => (said = Line("1") <=> did.op = "deleted")
    /\ r.op \in {"SET", "GET", "DEL"} /\ did.op # "none" /\ r.key.words # << >> => did.key = r.key.words[1]

\* What a client prints is what the daemon did of its own request: of a SET "OK" says
\* that a value was stored, by a key that may write if keys are required, and that it
\* is the value typed if the daemon takes the arguments as they were typed; anything
\* else says that nothing was stored.  A value or a 1 is what GET read and DEL removed.
\* All of it of the key's first word.  No answer is left behind for the next request
\* (resp.rs:15-79).
ToldTruth ==
    \A c \in Clients : cl[c].at = "told" =>
        /\ srv[c].out = << >>
        /\ Truth(Head(cl[c].todo), cl[c].said, srv[c].did, srv[c].secret)

\* Every charge of a key is accounted for: a command that was served, one that was
\* refused after it had been charged, or one under way; and a key that was revoked
\* is charged once more at most for each time it authenticated (daemon.rs:513-568).
ChargesAccounted ==
    \A s \in Secrets :
        /\ counter[s] = account[s].served + account[s].refused
              + Cardinality({c \in Clients : /\ srv[c].at \in {"undo", "validate", "run"}
                                             /\ srv[c].secret = s /\ Limited(c)})
        /\ account[s].late <= account[s].auths

=============================================================================

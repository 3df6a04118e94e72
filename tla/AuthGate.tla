------------------------------ MODULE AuthGate ------------------------------
(***************************************************************************)
(* API keys: their files, the registry the daemon keeps of them, and the   *)
(* checks a connection passes before a command runs (src/src/daemon.rs,    *)
(* src/src/security.rs).                                                   *)
(*                                                                         *)
(* `cachee auth create` and `auth revoke` write and remove key files while *)
(* the daemon runs.  A background thread rereads the directory every three *)
(* seconds, one file after another, and then swaps the registry.  Each     *)
(* connection keeps what AUTH told it, and every command is checked        *)
(* against the registry of the moment.  The three parties share nothing    *)
(* but the files and the registry lock, so a revocation can fall into any  *)
(* gap between their steps.                                                *)
(***************************************************************************)
EXTENDS Integers, FiniteSets

CONSTANTS
    Keys,          \* API keys: key_id, secret and permissions are fixed at creation
    Conns,         \* connections
    PermOf,        \* permissions of each key, a subset of {"read","write","admin"}
    NoKey,         \* a connection that has not authenticated
    require_auth   \* config: AUTH is required, and the reloader runs

ASSUME KeysAssumption ==
    NoKey \notin Keys /\ PermOf \in [Keys -> SUBSET {"read", "write", "admin"}]
ASSUME ConfigAssumption == require_auth \in BOOLEAN

VARIABLES
    file,        \* each key's file: "absent", "partial", "present" or "removed"
    registry,    \* keys the daemon accepts
    reloader,    \* "sleep" or "load"
    listing,     \* files the current load has still to read
    loaded,      \* keys it has read so far
    conn,        \* per connection: authenticated, key, and where its command is
    reply,       \* answer to the connection's last command
    load,        \* history: "incomplete" if the present or last load could not
                 \* read something, "complete" otherwise
    missed,      \* history: keys removed before the current load began
    outdated     \* history: keys removed before the last finished load began

cliVars      == <<file>>
reloaderVars == <<registry, reloader, listing, loaded, load, missed, outdated>>
connVars     == <<conn, reply>>
vars         == <<cliVars, reloaderVars, connVars>>

-----------------------------------------------------------------------------
Removed == {k \in Keys : file[k] = "removed"}
Listed  == {k \in Keys : file[k] \in {"partial", "present"}}

can_write(k) == PermOf[k] \cap {"write", "admin"} # {}
can_admin(k) == "admin" \in PermOf[k]

Commands == {"GET", "SET", "AUDITLOG"}
needs_write(cmd) == cmd = "SET"
needs_admin(cmd) == cmd = "AUDITLOG"

Permitted(k, cmd) ==
    /\ needs_write(cmd) => can_write(k)
    /\ needs_admin(cmd) => can_admin(k) \/ can_write(k)

ConnState == [authenticated : BOOLEAN, key : Keys \cup {NoKey},
              at : {"idle", "validate", "run"}]
Reply == {"none", "OK", "ERR", "NOAUTH", "NOPERM"} \cup Commands

FreshConn == [authenticated |-> ~require_auth, key |-> NoKey, at |-> "idle"]
NoAuthConn == [authenticated |-> FALSE, key |-> NoKey, at |-> "idle"]

Answer(c, state, text) ==
    /\ conn' = [conn EXCEPT ![c] = state]
    /\ reply' = [reply EXCEPT ![c] = text]

-----------------------------------------------------------------------------
(* The CLI *)

\* Seeded fault (see PROJECT.json): a key id is used again after a revocation.
StartCreateAgain(k) ==
    /\ file[k] \in {"absent", "removed"}
    /\ file' = [file EXCEPT ![k] = "partial"]
    /\ UNCHANGED <<reloaderVars, connVars>>

\* auth_create writes the file of a new key: created empty, then filled.
StartCreate(k) ==
    /\ file[k] = "absent"
    /\ file' = [file EXCEPT ![k] = "partial"]
    /\ UNCHANGED <<reloaderVars, connVars>>

FinishCreate(k) ==
    /\ file[k] = "partial"
    /\ file' = [file EXCEPT ![k] = "present"]
    /\ UNCHANGED <<reloaderVars, connVars>>

\* auth_revoke removes the file.  Key ids are random: it does not come back.
auth_revoke(k) ==
    /\ file[k] = "present"
    /\ file' = [file EXCEPT ![k] = "removed"]
    /\ UNCHANGED <<reloaderVars, connVars>>

-----------------------------------------------------------------------------
(* The reloader: load_api_keys, then a swap under the write lock *)

\* Seeded fault: the registry is emptied before it is filled.
StartLoadEmptied ==
    /\ require_auth
    /\ reloader = "sleep"
    /\ reloader' = "load"
    /\ listing' = Listed
    /\ loaded' = {}
    /\ registry' = {}
    /\ load' = "complete"
    /\ missed' = Removed
    /\ UNCHANGED <<cliVars, outdated, connVars>>

\* read_dir; a directory that cannot be read yields no key.
StartLoad ==
    /\ require_auth
    /\ reloader = "sleep"
    /\ reloader' = "load"
    /\ \/ listing' = Listed /\ load' = "complete"
       \/ listing' = {} /\ load' = "incomplete"
    /\ loaded' = {}
    /\ missed' = Removed
    /\ UNCHANGED <<cliVars, registry, outdated, connVars>>

\* read_to_string of one file: skipped when it is gone, incomplete or unreadable.
ReadFile(k) ==
    /\ reloader = "load"
    /\ k \in listing
    /\ listing' = listing \ {k}
    /\ \/ file[k] = "present" /\ loaded' = loaded \cup {k} /\ UNCHANGED load
       \/ file[k] # "present" /\ UNCHANGED <<loaded, load>>
       \/ file[k] # "removed" /\ load' = "incomplete" /\ UNCHANGED loaded
    /\ UNCHANGED <<cliVars, registry, reloader, missed, outdated, connVars>>

\* Seeded faults: the new keys are added to the old ones; the old registry is
\* kept when no key was read; only removals are taken over.
SwapInto(new) ==
    /\ reloader = "load"
    /\ listing = {}
    /\ registry' = new
    /\ outdated' = missed
    /\ reloader' = "sleep"
    /\ UNCHANGED <<cliVars, listing, loaded, load, missed, connVars>>
SwapMerged == SwapInto(registry \cup loaded)
SwapUnlessEmpty == SwapInto(IF loaded = {} THEN registry ELSE loaded)
SwapRemovals == SwapInto(registry \cap loaded)

\* *write = new_registry: load_api_keys always returns a registry.
SwapRegistry ==
    /\ reloader = "load"
    /\ listing = {}
    /\ registry' = loaded
    /\ outdated' = missed
    /\ reloader' = "sleep"
    /\ UNCHANGED <<cliVars, listing, loaded, load, missed, connVars>>

-----------------------------------------------------------------------------
(* Connections *)

\* A client hangs up and a new one takes the slot.
Reconnect(c) ==
    /\ conn[c].at = "idle"
    /\ Answer(c, FreshConn, "none")
    /\ UNCHANGED <<cliVars, reloaderVars>>

\* handle_auth with the secret of key k.
handle_auth(c, k) ==
    /\ conn[c].at = "idle"
    /\ \/ /\ k \in registry
          /\ Answer(c, [authenticated |-> TRUE, key |-> k, at |-> "idle"], "OK")
       \/ /\ k \notin registry
          /\ Answer(c, NoAuthConn, "ERR")
    /\ UNCHANGED <<cliVars, reloaderVars>>

\* A command other than AUTH and PING: refused unless authenticated.  The quota
\* check comes next; the connection can wait there for a lock.
Receive(c) ==
    /\ conn[c].at = "idle"
    /\ \/ /\ ~conn[c].authenticated
          /\ Answer(c, conn[c], "NOAUTH")
       \/ /\ conn[c].authenticated
          /\ Answer(c, [conn[c] EXCEPT !.at = "validate"], "none")
    /\ UNCHANGED <<cliVars, reloaderVars>>

\* Seeded fault: AUTH's word is taken for good.
ValidateNothing(c) ==
    /\ conn[c].at = "validate"
    /\ Answer(c, [conn[c] EXCEPT !.at = "run"], "none")
    /\ UNCHANGED <<cliVars, reloaderVars>>

\* The key the connection authenticated with is looked up again.
Validate(c) ==
    LET valid == require_auth /\ conn[c].key # NoKey => conn[c].key \in registry
    IN  /\ conn[c].at = "validate"
        /\ \/ valid  /\ Answer(c, [conn[c] EXCEPT !.at = "run"], "none")
           \/ ~valid /\ Answer(c, NoAuthConn, "NOAUTH")
        /\ UNCHANGED <<cliVars, reloaderVars>>

\* Permission check on the entry AUTH returned, then handle_resp.
Run(c, cmd) ==
    LET refused == require_auth /\ conn[c].key # NoKey /\ ~Permitted(conn[c].key, cmd)
    IN  /\ conn[c].at = "run"
        /\ Answer(c, [conn[c] EXCEPT !.at = "idle"], IF refused THEN "NOPERM" ELSE cmd)
        /\ UNCHANGED <<cliVars, reloaderVars>>

-----------------------------------------------------------------------------
(* With require_auth the daemon exits at startup when it finds no key. *)
Init ==
    /\ file \in [Keys -> {"absent", "present"}]
    /\ registry = Listed
    /\ require_auth => registry # {}
    /\ reloader = "sleep"
    /\ listing = {}
    /\ loaded = {}
    /\ conn = [c \in Conns |-> FreshConn]
    /\ reply = [c \in Conns |-> "none"]
    /\ load = "complete"
    /\ missed = {}
    /\ outdated = {}

Next ==
    \/ \E k \in Keys : StartCreate(k) \/ FinishCreate(k) \/ auth_revoke(k)
    \/ StartLoad
    \/ \E k \in Keys : ReadFile(k)
    \/ SwapRegistry
    \/ \E c \in Conns :
        \/ Reconnect(c)
        \/ \E k \in Keys : handle_auth(c, k)
        \/ Receive(c)
        \/ Validate(c)
        \/ \E cmd \in Commands : Run(c, cmd)

Spec == Init /\ [][Next]_vars

\* The reloader thread is an endless loop of sleep and load, and a task goes on with
\* the command it has received.  No client has to send one and no operator has to
\* do anything.
Fairness ==
    /\ WF_vars(StartLoad)
    /\ \A k \in Keys : WF_vars(ReadFile(k))
    /\ WF_vars(SwapRegistry)
    /\ \A c \in Conns : /\ WF_vars(Validate(c))
                        /\ WF_vars(\E cmd \in Commands : Run(c, cmd))

FairSpec == Spec /\ Fairness

-----------------------------------------------------------------------------
(* Properties *)

TypeOK ==
    /\ file \in [Keys -> {"absent", "partial", "present", "removed"}]
    /\ registry \subseteq Keys
    /\ reloader \in {"sleep", "load"}
    /\ listing \subseteq Keys
    /\ loaded \subseteq Keys
    /\ conn \in [Conns -> ConnState]
    /\ reply \in [Conns -> Reply]
    /\ load \in {"complete", "incomplete"}
    /\ missed \subseteq Removed
    /\ outdated \subseteq Removed

\* "revocation within 3 seconds" (daemon.rs), as far as a model without a clock
\* can say it: a key that was already removed when the last finished load began
\* is not in the registry, however removals and reads interleave.  A removal
\* during a load may have to wait for the next one.
RevocationReachesRegistry == outdated \cap registry = {}

\* A command passes re-validation only with a key that no finished load has
\* missed: a connection that authenticated before the revocation has no
\* advantage over a new one.
ValidatedAgainstCurrent ==
    [][\A c \in Conns :
          require_auth /\ conn[c].at = "validate" /\ conn'[c].at = "run"
            => conn[c].key \notin outdated]_vars

\* A load that could read everything drops a key only if its file is gone: no
\* interleaving of the reload with creations and revocations makes a valid key
\* disappear for a moment.
NoSpuriousRevocation ==
    [][load = "complete" => \A k \in registry : file[k] = "present" => k \in registry']_vars

\* A revoked key stops working for good.
RevokedRefused ==
    \A k \in Keys :
        file[k] = "removed" ~> [](k \notin registry /\
                                  \A c \in Conns : conn[c].key = k => conn[c].at # "run")

\* A created key works without a restart of the daemon, and a key that a failed
\* read dropped works again, unless it is revoked: it is enough that again and
\* again some load reads everything.
CreatedAccepted ==
    []<>(reloader = "sleep" /\ load = "complete") =>
        \A k \in Keys : file[k] = "present" ~> (k \in registry \/ file[k] = "removed")
=============================================================================

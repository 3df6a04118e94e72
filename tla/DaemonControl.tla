--------------------------- MODULE DaemonControl ---------------------------
(***************************************************************************)
(* Who is the daemon: the pid file, the port, the locks of the two stores, *)
(* and the commands that use them, start, stop, doctor and export.         *)
(*                                                                         *)
(* Every command is a process; its looks at the file, the process table    *)
(* and the port are steps of their own, and so are its signals.  The port  *)
(* may be taken by another program, and pids are used again.  The kernel   *)
(* does not give a pid away while a stop is about to signal it: between    *)
(* look and signal there is half a second at most.  A command that is      *)
(* killed is one that makes no further step; it closes what it had open.   *)
(***************************************************************************)
EXTENDS Naturals, FiniteSets

CONSTANTS
    Pids,           \* pids of daemons and of other programs
    Terminals,      \* where stop, doctor and export are run
    Ports,          \* ports config.toml can name
    MaxBirths,      \* bound: processes that are started
    MaxCommands,    \* bound: stop, doctor and export commands
    MaxConfigs      \* bound: how often init changes the port

ASSUME DaemonControlAssumption ==
    /\ {MaxBirths, MaxCommands, MaxConfigs} \subseteq Nat
    /\ {"absent", "empty", "none"} \cap Pids = {}
    /\ "none" \notin Ports

VARIABLES
    config,     \* the port in config.toml
    pidfile,    \* cachee.pid: absent, empty (opened, not yet written) or a pid
    proc,       \* [Pids -> [kind, at, port, undisturbed]], the last a history: from
                \* its pid file to its listening no command ran, nor has the port changed
    term,       \* [Terminals -> [cmd, at, force, port, pid, via, witness]]
    used        \* [births, commands, configs]: the bounded counters

vars == <<config, pidfile, proc, term, used>>

-----------------------------------------------------------------------------
(* Processes.  A daemon is "cachee" from its first step on.                *)

Dead == [kind |-> "dead", at |-> "none", port |-> "none", undisturbed |-> "no"]
NewDaemon == [kind |-> "cachee", at |-> "store", port |-> config, undisturbed |-> "no"]
Stages == {"store", "audit", "pid", "write", "bind", "listening"}

Listening(p, port) == proc[p].at = "listening" /\ proc[p].port = port
process_is_cachee(p) == proc[p].kind = "cachee"

NoCommand == [cmd |-> "none", at |-> "none", force |-> "no", port |-> "none",
              pid |-> "none", via |-> "none", witness |-> "none"]
Running(t) == term[t].cmd # "none"
At(t, cmd, at) == term[t].cmd = cmd /\ term[t].at = at

\* sled locks its directory: one process has it open.
StoreLocked ==
    \/ \E p \in Pids : process_is_cachee(p) /\ proc[p].at # "store"
    \/ \E t \in Terminals : term[t].at = "store open"
AuditLocked ==
    \/ \E p \in Pids : process_is_cachee(p) /\ proc[p].at \notin {"store", "audit"}
    \/ \E t \in Terminals : term[t].at = "audit open"

Init ==
    /\ config \in Ports
    /\ pidfile = "absent"
    /\ proc = [p \in Pids |-> Dead]
    /\ term = [t \in Terminals |-> NoCommand]
    /\ used = [births |-> 0, commands |-> 0, configs |-> 0]

\* History: a stop no longer has a daemon to account for when that is gone.
Bereft(p, tt) == [t \in Terminals |-> IF tt[t].witness = p THEN [tt[t] EXCEPT !.witness = "none"] ELSE tt[t]]

Go(p, at) == proc' = [proc EXCEPT ![p].at = at] /\ UNCHANGED term
Die(p) == proc' = [proc EXCEPT ![p] = Dead] /\ term' = Bereft(p, term)

-----------------------------------------------------------------------------
(* start.                                                                  *)

\* A pid is given to a new process.
Assignable(p) ==
    /\ proc[p].kind = "dead"
    /\ \A t \in Terminals : term[t].at \in {"term", "wait"} => term[t].pid # p
    /\ used.births < MaxBirths

Start(p) ==
    /\ Assignable(p)
    /\ proc' = [proc EXCEPT ![p] = NewDaemon]
    /\ used' = [used EXCEPT !.births = @ + 1]
    /\ UNCHANGED <<config, pidfile, term>>

\* Seeded fault: the pid file is written before the store is opened.
OpenStoreAfterPidFile(p) ==
    /\ proc[p].at = "store"
    /\ pidfile' = p
    /\ IF StoreLocked THEN Die(p) ELSE Go(p, "audit")
    /\ UNCHANGED <<config, used>>
\* A store that another process has open cannot be opened; start fails.
OpenStore(p) ==
    /\ proc[p].at = "store"
    /\ IF StoreLocked THEN Die(p) ELSE Go(p, "audit")
    /\ UNCHANGED <<config, pidfile, used>>
OpenAudit(p) ==
    /\ proc[p].at = "audit"
    /\ IF AuditLocked THEN Die(p) ELSE Go(p, "pid")
    /\ UNCHANGED <<config, pidfile, used>>

\* Once the stores are open the pid file is created or truncated, then written;
\* what is written to a file that was removed in between is lost.
CreatePidFile(p) ==
    /\ proc[p].at = "pid"
    /\ pidfile' = "empty"
    /\ proc' = [proc EXCEPT ![p].at = "write",
                            ![p].undisturbed = IF (\E t \in Terminals : Running(t)) \/ proc[p].port # config
                                               THEN "no" ELSE "yes"]
    /\ UNCHANGED <<config, term, used>>
WritePidFile(p) ==
    /\ proc[p].at = "write"
    /\ pidfile' = IF pidfile = "empty" THEN p ELSE pidfile
    /\ Go(p, "bind")
    /\ UNCHANGED <<config, used>>

\* The port may be taken; the pid file is not taken back.
Bind(p) ==
    /\ proc[p].at = "bind"
    /\ IF \E q \in Pids : Listening(q, proc[p].port) THEN Die(p) ELSE Go(p, "listening")
    /\ UNCHANGED <<config, pidfile, used>>

\* A crash of a process, or its end.
Exit(p) ==
    /\ proc[p].kind # "dead"
    /\ Die(p)
    /\ UNCHANGED <<config, pidfile, used>>

-----------------------------------------------------------------------------
(* Other programs, and init, which may change the port.                    *)

StartForeign(p) ==
    /\ Assignable(p)
    /\ \E port \in Ports \cup {"none"} :
          /\ \A q \in Pids : ~Listening(q, port)
          /\ proc' = [proc EXCEPT ![p] = [Dead EXCEPT !.kind = "foreign", !.port = port,
                                            !.at = IF port = "none" THEN "none" ELSE "listening"]]
    /\ used' = [used EXCEPT !.births = @ + 1]
    /\ UNCHANGED <<config, pidfile, term>>

ChangePort(port) ==
    /\ port # config /\ used.configs < MaxConfigs
    /\ config' = port
    /\ proc' = [p \in Pids |-> [proc[p] EXCEPT !.undisturbed = "no"]]
    /\ used' = [used EXCEPT !.configs = @ + 1]
    /\ UNCHANGED <<pidfile, term>>

-----------------------------------------------------------------------------
(* stop, doctor, export.                                                   *)

\* A stop loads the configuration for the port.  History: the daemon that
\* listens there when it starts.
Witness == {p \in Pids : process_is_cachee(p) /\ Listening(p, config)}
BeginCommand(t, cmd, force) ==
    /\ ~Running(t) /\ used.commands < MaxCommands
    /\ \E w \in IF cmd = "stop" /\ Witness # {} THEN Witness ELSE {"none"} :
          term' = [term EXCEPT ![t] = [NoCommand EXCEPT
             !.cmd = cmd, !.force = force, !.port = config, !.witness = w,
             !.at = IF cmd = "export" THEN "store" ELSE "read"]]
    /\ proc' = [p \in Pids |-> IF proc[p].at = "listening" THEN proc[p] ELSE [proc[p] EXCEPT !.undisturbed = "no"]]
    /\ used' = [used EXCEPT !.commands = @ + 1]
    /\ UNCHANGED <<config, pidfile>>

Continue(t, at) == term' = [term EXCEPT ![t].at = at]
Done(t) == term' = [term EXCEPT ![t] = NoCommand]

\* Seeded fault: what is no pid is taken for one.
ReadPidFileAnyway(t) ==
    /\ term[t].at = "read"
    /\ term' = IF pidfile # "absent"
               THEN [term EXCEPT ![t].at = "check", ![t].pid = pidfile, ![t].via = "file"]
               ELSE [term EXCEPT ![t].at = IF term[t].cmd = "stop" THEN "find" ELSE "audit"]
    /\ UNCHANGED <<config, pidfile, proc, used>>
\* Seeded fault: without a pid file nothing runs.
ReadPidFileOrEnd(t) ==
    /\ term[t].at = "read"
    /\ term' = IF pidfile \in Pids
               THEN [term EXCEPT ![t].at = "check", ![t].pid = pidfile, ![t].via = "file"]
               ELSE [term EXCEPT ![t] = NoCommand]
    /\ UNCHANGED <<config, pidfile, proc, used>>
\* The pid file is read; what is no pid is passed over.
ReadPidFile(t) ==
    /\ term[t].at = "read"
    /\ term' = IF pidfile \in Pids
               THEN [term EXCEPT ![t].at = "check", ![t].pid = pidfile, ![t].via = "file"]
               ELSE [term EXCEPT ![t].at = IF term[t].cmd = "stop" THEN "find" ELSE "audit"]
    /\ UNCHANGED <<config, pidfile, proc, used>>

\* Seeded fault: it is enough that the process lives.
CheckAlive(t) ==
    /\ At(t, "stop", "check")
    /\ Continue(t, IF proc[term[t].pid].kind # "dead" THEN "term" ELSE "unlink")
    /\ UNCHANGED <<config, pidfile, proc, used>>
process_is_cachee_and_listening(t) ==
    process_is_cachee(term[t].pid) /\ Listening(term[t].pid, term[t].port)

CheckListener(t) ==
    /\ At(t, "stop", "check")
    /\ Continue(t, IF process_is_cachee_and_listening(t) THEN "term" ELSE "unlink")
    /\ UNCHANGED <<config, pidfile, proc, used>>

\* doctor removes the file of a process that is gone, or that it may not signal.
DoctorProbe(t) ==
    /\ At(t, "doctor", "check")
    /\ \/ proc[term[t].pid].kind # "cachee" /\ Continue(t, "unlink")
       \/ proc[term[t].pid].kind # "dead" /\ Continue(t, "audit")
    /\ UNCHANGED <<config, pidfile, proc, used>>

\* The file is stale: stop goes on to the port, doctor to the stores.
UnlinkStale(t) ==
    /\ term[t].at = "unlink"
    /\ pidfile' = "absent"
    /\ Continue(t, IF term[t].cmd = "stop" THEN "find" ELSE "audit")
    /\ UNCHANGED <<config, proc, used>>

\* The listener is looked for; another program is killed only by force.
FindListener(t) ==
    /\ term[t].at = "find"
    /\ \/ \E p \in Pids :
             /\ Listening(p, term[t].port)
             /\ IF process_is_cachee(p) \/ term[t].force = "yes"
                THEN term' = [term EXCEPT ![t].at = "term", ![t].pid = p, ![t].via = "port"]
                ELSE Done(t)
       \/ (\A p \in Pids : ~Listening(p, term[t].port)) /\ Done(t)
    /\ UNCHANGED <<config, pidfile, proc, used>>

\* kill_pid: SIGTERM, which ends a daemon and may end another program; half a
\* second later, by force, SIGKILL, which fails for what another user runs.
SendTerm(t) ==
    LET p == term[t].pid
        waiting == [term EXCEPT ![t].at = "wait"]
    IN  /\ term[t].at = "term"
        /\ \/ proc' = [proc EXCEPT ![p] = Dead] /\ term' = Bereft(p, waiting)
           \/ proc[p].kind # "cachee" /\ term' = waiting /\ UNCHANGED proc
        /\ UNCHANGED <<config, pidfile, used>>

AfterWait(t) == IF term[t].via = "file" THEN Continue(t, "remove") ELSE Done(t)
Wait(t) ==
    LET p == term[t].pid
    IN  /\ term[t].at = "wait"
        /\ \/ UNCHANGED proc
           \/ /\ proc[p].kind = "foreign" /\ term[t].force = "yes"
              /\ proc' = [proc EXCEPT ![p] = Dead]
        /\ AfterWait(t)
        /\ UNCHANGED <<config, pidfile, used>>

\* The pid file of the daemon that was stopped is removed.
RemovePidFile(t) ==
    /\ term[t].at = "remove"
    /\ pidfile' = "absent"
    /\ Done(t)
    /\ UNCHANGED <<config, proc, used>>

\* doctor opens the audit log and the content store, export the content store.
TryAudit(t) ==
    /\ term[t].at = "audit"
    /\ Continue(t, IF AuditLocked THEN "store" ELSE "audit open")
    /\ UNCHANGED <<config, pidfile, proc, used>>
TryStore(t) ==
    /\ term[t].at = "store"
    /\ IF StoreLocked THEN Done(t) ELSE Continue(t, "store open")
    /\ UNCHANGED <<config, pidfile, proc, used>>
CloseStore(t) ==
    /\ \/ term[t].at = "audit open" /\ Continue(t, "store")
       \/ term[t].at = "store open" /\ Done(t)
    /\ UNCHANGED <<config, pidfile, proc, used>>

Next ==
    \/ \E p \in Pids :
          \/ Start(p) \/ OpenStore(p) \/ OpenAudit(p) \/ CreatePidFile(p) \/ WritePidFile(p)
          \/ Bind(p) \/ Exit(p) \/ StartForeign(p)
    \/ \E port \in Ports : ChangePort(port)
    \/ \E t \in Terminals :
          \/ \E force \in {"yes", "no"} : BeginCommand(t, "stop", force)
          \/ \E cmd \in {"doctor", "export"} : BeginCommand(t, cmd, "no")
          \/ ReadPidFile(t) \/ CheckListener(t) \/ DoctorProbe(t) \/ UnlinkStale(t) \/ FindListener(t)
          \/ SendTerm(t) \/ Wait(t) \/ RemovePidFile(t)
          \/ TryAudit(t) \/ TryStore(t) \/ CloseStore(t)

Spec == Init /\ [][Next]_vars

-----------------------------------------------------------------------------
(* Properties.                                                             *)

ProcState == [kind : {"dead", "cachee", "foreign"}, at : Stages \cup {"none"},
              port : Ports \cup {"none"}, undisturbed : {"yes", "no"}]
TermState == [cmd : {"none", "stop", "doctor", "export"},
              at : {"none", "read", "check", "unlink", "find", "term", "wait", "remove",
                    "audit", "audit open", "store", "store open"},
              force : {"yes", "no"}, port : Ports \cup {"none"},
              pid : Pids \cup {"none"}, via : {"none", "file", "port"}, witness : Pids \cup {"none"}]

TypeOK ==
    /\ config \in Ports
    /\ pidfile \in Pids \cup {"absent", "empty"}
    /\ proc \in [Pids -> ProcState]
    /\ term \in [Terminals -> TermState]
    /\ used \in [births : 0..MaxBirths, commands : 0..MaxCommands, configs : 0..MaxConfigs]
    /\ \A t \in Terminals : term[t].at \in {"check", "term", "wait"} => term[t].pid \in Pids

\* A process that stop signals listens on the port stop was asked about, and is
\* a daemon unless the user forced it, whatever process has by then the pid that
\* an old pid file names (daemon.rs:1253-1283).
SignalsListener ==
    \A t \in Terminals :
        term[t].at \in {"term", "wait"} /\ proc[term[t].pid].kind # "dead" =>
            /\ Listening(term[t].pid, term[t].port)
            /\ process_is_cachee(term[t].pid) \/ term[t].force = "yes"

\* If no stop or doctor was under way while a daemon started, the pid file names
\* it for as long as it listens: starts that fail leave it alone (daemon.rs:303-396).
PidFileNamesListener ==
    \A p \in Pids : Listening(p, config) /\ proc[p].undisturbed = "yes" => pidfile = p

\* A daemon that listens on the configured port when stop begins is gone when it
\* ends, though the pid file is missing, cut, stale or another's (daemon.rs:1244-1290).
StopKillsListener ==
    [][\A t \in Terminals :
          term[t].cmd = "stop" /\ term'[t].cmd = "none" => term[t].witness = "none"]_vars

=============================================================================

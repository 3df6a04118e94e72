---------------------------- MODULE Installation ----------------------------
(***************************************************************************)
(* The files under ~/.cachee and the commands that read and write them:    *)
(* init, attest enable and disable, signup, verify, logout, plan upgrade,  *)
(* plan sync, tls enable, rotate-keys, and what start reads of them.       *)
(*                                                                         *)
(* Every command is a process of its own; nothing locks the files.  A      *)
(* command is a sequence of steps, each one file or server operation, and  *)
(* the steps of two commands interleave.  std::fs::write is several steps: *)
(* it truncates the file, then writes it in as many pieces as the file     *)
(* system takes, each at its own offset; a command may be killed, or fail, *)
(* before any of them.                                                     *)
(***************************************************************************)
EXTENDS Integers, Sequences, FiniteSets

CONSTANTS
    Procs,          \* processes that run commands, one after the other
    Tiers,          \* what the account's plan can be, besides "free"
    FamilyOrder,    \* the signature families, in the order save writes them
    Commands,       \* bound: the commands that are run ...
    MaxCommands,    \* bound: ... and how many of them
    MaxKills,       \* bound: how many are killed or fail half-way
    MaxPayments     \* bound: changes of the subscription at the server

\* What main.rs dispatches to.
CommandNames == {"init", "attest enable", "attest disable", "signup", "verify", "logout",
                 "plan upgrade", "plan sync", "tls enable", "rotate-keys", "start"}

ASSUME InstallationAssumption ==
    /\ "free" \notin Tiers
    /\ FamilyOrder \in Seq({FamilyOrder[i] : i \in DOMAIN FamilyOrder})
    /\ \A i, j \in DOMAIN FamilyOrder : FamilyOrder[i] = FamilyOrder[j] => i = j
    /\ Commands \subseteq CommandNames
    /\ {MaxCommands, MaxKills, MaxPayments} \subseteq Nat

\* Names of files are pairs, as <<"mldsa65", "pub">>.
Family == {FamilyOrder[i] : i \in DOMAIN FamilyOrder}
KeyFiles == Family \X {"pub", "key"}
Metadata == <<"metadata", "json">>
Config == <<"config", "toml">>
Identity == <<"identity", "toml">>
Backup == <<"identity", "toml.bak">>
Credentials == <<"credentials", "toml">>
Pending == <<"pending_signup", "toml">>
Cert == <<"cert", "pem">>
CertKey == <<"key", "pem">>
NoFileName == <<"none", "none">>
Files == KeyFiles \cup {Metadata, Identity, Backup, Credentials, Pending, Cert, CertKey}

VARIABLES
    config,    \* config.toml: [state, text], the text a sequence of sections
    files,     \* the other files: [Files -> [state, gen]]
    server,    \* [plan, seen]: the account's plan, and every plan it has had
    proc,      \* [Procs -> [cmd, at, offset, cfg, reply, gen, alone, keys]]
    daemon,    \* what the last start loaded: [state, keys, settled]
    settled,   \* history: the keys of the last init; 0 if it was stopped, or Overlapped
    asked,     \* history: "yes" once attest enable has been run
    used       \* [commands, kills, payments]: the bounded counters

vars == <<config, files, server, proc, daemon, settled, asked, used>>

-----------------------------------------------------------------------------
(* Files.  config.toml is its scalars, with attest_enabled, then the plan. *)
(* What is in another file is told by the command that wrote it, its gen.  *)

ConfigText(c) == <<c.attest, c.tier>>
DefaultConfig == [attest |-> "no", tier |-> "free"]
NoFile == [state |-> "absent", gen |-> 0]
Exists(f) == files[f].state # "absent"

\* Seeded fault: sections that were never written are taken for their bytes.
LoadsTorn == config.state = "present" /\ Len(config.text) = 2
\* A text that is cut, or that two processes wrote into, may not parse.
Loads == config.state = "present" /\ Len(config.text) = 2 /\ "hole" \notin {config.text[1], config.text[2]}
LoadedConfig == [attest |-> config.text[1], tier |-> config.text[2]]

\* Section n of a text is written; what a truncation left out before it is a hole.
WriteAt(text, n, s) ==
    [i \in 1..(IF n > Len(text) THEN n ELSE Len(text)) |->
        IF i = n THEN s ELSE IF i <= Len(text) THEN text[i] ELSE "hole"]

-----------------------------------------------------------------------------
(* Commands.                                                               *)

Step(op, f) == [op |-> op, file |-> f]
ForEach(op, kind) == [i \in DOMAIN FamilyOrder |-> Step(op, <<FamilyOrder[i], kind>>)]
Load == Step("load", Config)
SaveConfig == Step("write", Config)
AskServer == Step("ask", NoFileName)

PqKeySet_save == ForEach("write", "pub") \o ForEach("write", "key") \o << Step("write", Metadata) >>
\* exists, then load: the public keys, the metadata if it can be read, the private keys.
PqKeySet_load ==
    << Step("exists", NoFileName) >> \o ForEach("read", "pub") \o << Step("read", Metadata) >> \o ForEach("read", "key")

init == << SaveConfig, Step("write", Identity) >> \o PqKeySet_save

\* The identity is looked for when the configuration has been written.
attest_enable == << Load, SaveConfig, Step("need", Identity) >>
attest_disable == << Load, SaveConfig >>

signup == << Step("unless", Credentials), AskServer, Step("write", Pending) >>
verify == << Step("need", Pending), AskServer, Step("write", Credentials), Step("remove", Pending), Load, SaveConfig >>
logout == << Step("remove", Credentials) >>

\* Seeded fault: the plan is written without waiting for the payment.
UpgradeAtOnce == << Step("need", Credentials), Step("checkout", NoFileName), Load, SaveConfig >>
upgrade == << Step("need", Credentials), Step("checkout", NoFileName), Step("poll", NoFileName), Load, SaveConfig >>
sync == << Step("need", Credentials), AskServer, Load, SaveConfig >>

tls_enable == << Step("write", Cert), Step("write", CertKey), Load, SaveConfig >>
\* The identity file is replaced; the keys the daemon signs with are not.
rotate_keys == << Step("need", Identity), Step("write", Backup), Step("write", Identity) >>

\* What start reads of these files; the rest of it is DaemonControl's.
start == << Load >> \o PqKeySet_load

Steps(cmd) ==
    CASE cmd = "init" -> init
      [] cmd = "attest enable" -> attest_enable
      [] cmd = "attest disable" -> attest_disable
      [] cmd = "signup" -> signup
      [] cmd = "verify" -> verify
      [] cmd = "logout" -> logout
      [] cmd = "plan upgrade" -> upgrade
      [] cmd = "plan sync" -> sync
      [] cmd = "tls enable" -> tls_enable
      [] cmd = "rotate-keys" -> rotate_keys
      [] cmd = "start" -> start

\* What a command writes, from the configuration it loaded and the server's reply.
WithPlan(c, tier) == [attest |-> IF tier \in {"free", "payg"} THEN c.attest ELSE "yes", tier |-> tier]
NewConfig(q) ==
    CASE q.cmd = "init" -> DefaultConfig
      [] q.cmd = "attest enable" -> [q.cfg EXCEPT !.attest = "yes"]
      [] q.cmd = "attest disable" -> [q.cfg EXCEPT !.attest = "no"]
      [] q.cmd \in {"plan upgrade", "plan sync"} -> WithPlan(q.cfg, q.reply)
      [] q.cmd = "verify" -> [q.cfg EXCEPT !.tier = q.reply]
      [] OTHER -> q.cfg

\* Of the keys of inits that ran at the same time, until one has run alone to its end.
Overlapped == -1

NoKeys == [f \in KeyFiles \cup {Metadata} |-> NoFile]
Idle == [cmd |-> "none", at |-> 0, offset |-> -1, cfg |-> DefaultConfig, reply |-> "free",
         gen |-> 0, alone |-> "no", keys |-> NoKeys]
Running(p) == proc[p].cmd # "none"
Current(p) == Steps(proc[p].cmd)[proc[p].at]
Doing(p, op) == Running(p) /\ Current(p).op = op

\* Nothing installed, or what init, signup and verify leave when they are run
\* one after the other; the keys of that init are generation 1.
Empty ==
    /\ config = [state |-> "absent", text |-> << >>]
    /\ files = [f \in Files |-> NoFile]
    /\ settled = 0
SignedUp ==
    /\ config = [state |-> "present", text |-> ConfigText(DefaultConfig)]
    /\ files = [f \in Files |-> IF f \in KeyFiles \cup {Metadata, Identity, Credentials}
                                THEN [state |-> "whole", gen |-> 1] ELSE NoFile]
    /\ settled = 1

Init ==
    /\ Empty \/ SignedUp
    /\ server = [plan |-> "free", seen |-> {"free"}]
    /\ proc = [p \in Procs |-> Idle]
    /\ daemon = [state |-> "none", keys |-> NoKeys, settled |-> 0]
    /\ asked = "no"
    /\ used = [commands |-> 0, kills |-> 0, payments |-> 0]

-----------------------------------------------------------------------------
(* Steps.                                                                  *)

\* Process p, now q, goes on to its next step or is done.
Advance(p, q) ==
    LET done == q.at = Len(Steps(q.cmd))
    IN  /\ proc' = [proc EXCEPT ![p] = IF done THEN Idle ELSE [q EXCEPT !.at = @ + 1]]
        /\ settled' = IF done /\ q.cmd = "init" /\ q.alone = "yes" THEN q.gen ELSE settled
Abort(p) == proc' = [proc EXCEPT ![p] = Idle] /\ UNCHANGED settled

\* A command starts.  An init makes new keys: it is not alone if another is
\* running, and the keys that a start reads meanwhile are of overlapping commands.
InitRunning == \E p \in Procs : proc[p].cmd = "init"
Begin(p, cmd) ==
    /\ ~Running(p)
    /\ used.commands < MaxCommands
    /\ used' = [used EXCEPT !.commands = @ + 1]
    /\ proc' = [r \in Procs |->
          IF r = p
          THEN [Idle EXCEPT !.cmd = cmd, !.at = 1,
                            !.gen = IF cmd # "start" THEN used.commands + 2
                                    ELSE IF InitRunning THEN Overlapped ELSE settled,
                            !.alone = IF InitRunning THEN "no" ELSE "yes"]
          ELSE IF cmd # "init" THEN proc[r]
          ELSE [proc[r] EXCEPT !.alone = "no", !.gen = IF proc[r].cmd = "start" THEN Overlapped ELSE @]]
    /\ settled' = IF cmd # "init" THEN settled ELSE IF InitRunning \/ settled = Overlapped THEN Overlapped ELSE 0
    /\ asked' = IF cmd = "attest enable" THEN "yes" ELSE asked
    /\ UNCHANGED <<config, files, server, daemon>>

\* config::load; a command that cannot load the configuration ends.
LoadConfig(p) ==
    /\ Doing(p, "load")
    /\ IF Loads THEN Advance(p, [proc[p] EXCEPT !.cfg = LoadedConfig]) ELSE Abort(p)
    /\ UNCHANGED <<config, files, server, daemon, asked, used>>

\* Seeded fault: files that exist are left as they are.
TruncateIfNew(p) ==
    LET f == Current(p).file
    IN  /\ Doing(p, "write") /\ proc[p].offset = -1
        /\ IF f = Config
           THEN /\ config' = [state |-> "present", text |-> << >>]
                /\ proc' = [proc EXCEPT ![p].offset = 0]
                /\ UNCHANGED <<files, settled>>
           ELSE IF Exists(f) THEN Advance(p, proc[p]) /\ UNCHANGED <<config, files>>
           ELSE /\ files' = [files EXCEPT ![f] = [state |-> "cut", gen |-> proc[p].gen]]
                /\ proc' = [proc EXCEPT ![p].offset = 0]
                /\ UNCHANGED <<config, settled>>
        /\ UNCHANGED <<server, daemon, asked, used>>
\* std::fs::write opens and truncates the file ...
Truncate(p) ==
    LET f == Current(p).file
    IN  /\ Doing(p, "write") /\ proc[p].offset = -1
        /\ proc' = [proc EXCEPT ![p].offset = 0]
        /\ IF f = Config
           THEN config' = [state |-> "present", text |-> << >>] /\ UNCHANGED files
           ELSE files' = [files EXCEPT ![f] = [state |-> "cut", gen |-> proc[p].gen]] /\ UNCHANGED config
        /\ UNCHANGED <<server, daemon, settled, asked, used>>

\* ... and writes the next section of the configuration, or all of another file.
WriteConfig(p) ==
    LET n == proc[p].offset + 1
    IN  /\ Doing(p, "write") /\ Current(p).file = Config /\ proc[p].offset >= 0
        /\ config' = [config EXCEPT !.text = WriteAt(@, n, ConfigText(NewConfig(proc[p]))[n])]
        /\ IF n = 2 THEN Advance(p, [proc[p] EXCEPT !.offset = -1])
           ELSE proc' = [proc EXCEPT ![p].offset = n] /\ UNCHANGED settled
        /\ UNCHANGED <<files, server, daemon, asked, used>>
WriteFile(p) ==
    /\ Doing(p, "write") /\ Current(p).file # Config /\ proc[p].offset = 0
    /\ files' = [files EXCEPT ![Current(p).file] = [state |-> "whole", gen |-> proc[p].gen]]
    /\ Advance(p, [proc[p] EXCEPT !.offset = -1])
    /\ UNCHANGED <<config, server, daemon, asked, used>>

Remove(p) ==
    /\ Doing(p, "remove")
    /\ files' = [files EXCEPT ![Current(p).file] = NoFile]
    /\ Advance(p, proc[p])
    /\ UNCHANGED <<config, server, daemon, asked, used>>

\* The credentials and the pending signup are parsed, the identity only looked for.
Found(f) == IF f = Identity THEN Exists(f) ELSE files[f].state = "whole"
\* "need": without the file the command ends; "unless": with it.
Check(p) ==
    LET found == Found(Current(p).file)
    IN  /\ Doing(p, "need") \/ Doing(p, "unless")
        /\ IF found = Doing(p, "need") THEN Advance(p, proc[p]) ELSE Abort(p)
        /\ UNCHANGED <<config, files, server, daemon, asked, used>>

-----------------------------------------------------------------------------
(* The server.                                                             *)

\* A request is answered with the account's plan, or fails and ends the command;
\* sync takes an answer that names no plan for "free".
AskForPlan(p) ==
    /\ Doing(p, "ask")
    /\ \/ \E plan \in {server.plan} \cup (IF proc[p].cmd = "plan sync" THEN {"free"} ELSE {}) :
             Advance(p, [proc[p] EXCEPT !.reply = plan])
       \/ Abort(p)
    /\ UNCHANGED <<config, files, server, daemon, asked, used>>

\* upgrade asks for a tier ...
Checkout(p, tier) ==
    /\ Doing(p, "checkout")
    /\ Advance(p, [proc[p] EXCEPT !.reply = tier]) \/ Abort(p)
    /\ UNCHANGED <<config, files, server, daemon, asked, used>>
\* ... and polls until the server names it, or gives up after 60 attempts.
Poll(p) ==
    /\ Doing(p, "poll")
    /\ (server.plan = proc[p].reply /\ Advance(p, proc[p])) \/ Abort(p)
    /\ UNCHANGED <<config, files, server, daemon, asked, used>>

\* The user pays, or the subscription ends.
ChangePlan(plan) ==
    /\ used.payments < MaxPayments /\ plan # server.plan
    /\ server' = [plan |-> plan, seen |-> server.seen \cup {plan}]
    /\ used' = [used EXCEPT !.payments = @ + 1]
    /\ UNCHANGED <<config, files, proc, daemon, settled, asked>>

-----------------------------------------------------------------------------
(* start.                                                                  *)

\* The daemon runs unsigned if attestation is off, or a key file is missing.
PqKeySet_exists == \A f \in KeyFiles : Exists(f)
FindKeys(p) ==
    /\ Doing(p, "exists")
    /\ IF proc[p].cfg.attest = "yes" /\ PqKeySet_exists
       THEN Advance(p, proc[p]) /\ UNCHANGED daemon
       ELSE Abort(p) /\ daemon' = [state |-> "unsigned", keys |-> NoKeys, settled |-> proc[p].gen]
    /\ UNCHANGED <<config, files, server, asked, used>>

\* A key that is gone leaves the daemon unsigned; metadata need not be there.
ReadKey(p) ==
    LET f == Current(p).file
        q == [proc[p] EXCEPT !.keys[f] = files[f]]
    IN  /\ Doing(p, "read")
        /\ CASE ~Exists(f) /\ f # Metadata ->
                  Abort(p) /\ daemon' = [state |-> "unsigned", keys |-> NoKeys, settled |-> q.gen]
             [] (Exists(f) \/ f = Metadata) /\ q.at = Len(start) ->
                  Advance(p, q) /\ daemon' = [state |-> "signing", keys |-> q.keys, settled |-> q.gen]
             [] OTHER -> Advance(p, q) /\ UNCHANGED daemon
        /\ UNCHANGED <<config, files, server, asked, used>>

\* A kill, or an error of the file system.
Kill(p) ==
    /\ Running(p) /\ used.kills < MaxKills
    /\ used' = [used EXCEPT !.kills = @ + 1]
    /\ Abort(p)
    /\ UNCHANGED <<config, files, server, daemon, asked>>

Next ==
    \/ \E p \in Procs :
          \/ \E cmd \in Commands : Begin(p, cmd)
          \/ LoadConfig(p) \/ Truncate(p) \/ WriteConfig(p) \/ WriteFile(p)
          \/ Remove(p) \/ Check(p) \/ AskForPlan(p) \/ Poll(p)
          \/ \E tier \in Tiers : Checkout(p, tier)
          \/ FindKeys(p) \/ ReadKey(p) \/ Kill(p)
    \/ \E plan \in Tiers \cup {"free"} : ChangePlan(plan)

Spec == Init /\ [][Next]_vars

-----------------------------------------------------------------------------
(* Properties.                                                             *)

Plans == Tiers \cup {"free"}
Gens == Overlapped..(MaxCommands + 1)
FileState == [state : {"absent", "cut", "whole"}, gen : Gens]

TypeOK ==
    /\ config.state \in {"absent", "present"}
    /\ Len(config.text) \in 0..2
    /\ files \in [Files -> FileState]
    /\ server.plan \in server.seen /\ server.seen \subseteq Plans
    /\ \A p \in Procs :
          /\ proc[p].cmd \in Commands \cup {"none"}
          /\ Running(p) => proc[p].at \in 1..Len(Steps(proc[p].cmd))
          /\ proc[p].offset \in -1..1
          /\ proc[p].cfg \in [attest : {"yes", "no"}, tier : Plans]
          /\ proc[p].reply \in Plans
          /\ proc[p].gen \in Gens
    /\ daemon.state \in {"none", "signing", "unsigned"}
    /\ settled \in Gens
    /\ used.commands \in 0..MaxCommands /\ used.kills \in 0..MaxKills /\ used.payments \in 0..MaxPayments

\* "Plan will not change until payment completes" (plan.rs:141), whatever
\* commands overlap or die: a configuration that loads names a plan the server
\* has confirmed at some time, and has attestation on only if the user enabled it
\* or a plan that includes it was confirmed (plan.rs:167-173, 230-232).
SettingsAuthorised ==
    Loads =>
        /\ LoadedConfig.tier \in server.seen
        /\ LoadedConfig.attest = "yes" => asked = "yes" \/ server.seen \ {"free", "payg"} # {}

\* In the order of save, a file is of no older init than those behind it, and one
\* that is cut is of a newer one.
InOrder(content) ==
    \A i, j \in DOMAIN PqKeySet_save : i < j =>
        LET front == content[PqKeySet_save[i].file]
            back == content[PqKeySet_save[j].file]
        IN  back.gen <= front.gen /\ (front.state = "cut" => back.gen < front.gen)

\* What a daemon signs with, unless two inits, or an init and its start, overlapped:
\* of an init that was stopped the files it got to, and behind them those of inits
\* before it, wherever and however often they were stopped; so that metadata as new
\* as the first public key says that all keys are of one init.  After an init that
\* ran to its end they are, and are whole (pq_keys.rs:123-158).
KeysInOrder ==
    daemon.state = "signing" =>
        /\ daemon.settled # Overlapped => InOrder(daemon.keys)
        /\ daemon.settled > 0 =>
              \A f \in KeyFiles \cup {Metadata} : daemon.keys[f] = [state |-> "whole", gen |-> daemon.settled]

=============================================================================

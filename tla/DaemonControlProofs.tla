------------------------ MODULE DaemonControlProofs ------------------------
(***************************************************************************)
(* Theorems about start, stop, doctor and export, for every number of      *)
(* pids, terminals, ports and commands.                                    *)
(*                                                                         *)
(* Two facts carry them: the lock of the content store lets one daemon     *)
(* past OpenStore, and a port has one listener.  A daemon that was left    *)
(* alone while it started is named by the pid file, and whatever command   *)
(* begins later finds it there.                                            *)
(***************************************************************************)
EXTENDS DaemonControl, TLAPS

\* Processes: one holds the store, one listens on a port.
Holds(p) == proc[p].kind = "cachee" /\ proc[p].at # "store"
ProcInv ==
    /\ \A p \in Pids :
          /\ proc[p].kind = "dead" => proc[p].at = "none" /\ proc[p].undisturbed = "no"
          /\ proc[p].kind = "cachee" => proc[p].at \in Stages
          /\ proc[p].kind = "foreign" => proc[p].at \in {"none", "listening"} /\ proc[p].undisturbed = "no"
    /\ \A p, q \in Pids : Holds(p) /\ Holds(q) => p = q
    /\ \A p, q \in Pids : proc[p].at = "listening" /\ Listening(q, proc[p].port) => p = q

\* A stop keeps its listener in view until it has signalled it.
WitnessInv ==
    \A t \in Terminals : term[t].witness # "none" =>
        /\ term[t].cmd = "stop"
        /\ proc[term[t].witness].kind = "cachee"
        /\ Listening(term[t].witness, term[t].port)
        /\ term[t].at \in {"read", "check", "unlink", "find", "term"}
        /\ term[t].at = "term" => term[t].pid = term[t].witness

\* What is true of a daemon that was left alone while it started.
UndisturbedInv ==
    \A p \in Pids : proc[p].undisturbed = "yes" =>
        /\ proc[p].kind = "cachee" /\ proc[p].port = config
        /\ proc[p].at \in {"write", "bind", "listening"}
        /\ pidfile = IF proc[p].at = "write" THEN "empty" ELSE p
        /\ \A t \in Terminals :
              /\ Running(t) => proc[p].at = "listening"
              /\ term[t].cmd = "stop" => term[t].port = config
              /\ term[t].at \in {"check", "term"} => term[t].pid = p
              /\ term[t].at \notin {"unlink", "wait", "remove"}

\* A command that is not there is at no place.
IdleInv ==
    \A t \in Terminals :
        /\ ~Running(t) => term[t].at = "none" /\ term[t].witness = "none"
        /\ term[t].at \in {"find", "term", "wait", "remove"} => term[t].cmd = "stop"
        /\ term[t].at \in {"read", "check", "unlink"} => term[t].cmd \in {"stop", "doctor"}

\* Where commands are.
Places == {"read", "check", "unlink", "find", "term", "wait", "remove",
           "audit", "audit open", "store", "store open"}

IInv == TypeOK /\ ProcInv /\ IdleInv /\ SignalsListener /\ WitnessInv /\ UndisturbedInv

ProcStep(p) == Start(p) \/ OpenStore(p) \/ OpenAudit(p) \/ CreatePidFile(p) \/ WritePidFile(p)
               \/ Bind(p) \/ Exit(p) \/ StartForeign(p)
TermStep(t) ==
    \/ \E force \in {"yes", "no"} : BeginCommand(t, "stop", force)
    \/ \E cmd \in {"doctor", "export"} : BeginCommand(t, cmd, "no")
    \/ ReadPidFile(t) \/ CheckListener(t) \/ DoctorProbe(t) \/ UnlinkStale(t) \/ FindListener(t)
    \/ SendTerm(t) \/ Wait(t) \/ RemovePidFile(t)
    \/ TryAudit(t) \/ TryStore(t) \/ CloseStore(t)

-----------------------------------------------------------------------------
(* Types.                                                                  *)

\* The end of a process only takes it from the stops that account for it.
LEMMA BereftTypes ==
    ASSUME NEW tt \in [Terminals -> TermState], NEW p
    PROVE  /\ Bereft(p, tt) \in [Terminals -> TermState]
           /\ \A t \in Terminals :
                 /\ Bereft(p, tt)[t].cmd = tt[t].cmd /\ Bereft(p, tt)[t].at = tt[t].at
                 /\ Bereft(p, tt)[t].port = tt[t].port /\ Bereft(p, tt)[t].pid = tt[t].pid
                 /\ Bereft(p, tt)[t].force = tt[t].force
                 /\ Bereft(p, tt)[t].witness = IF tt[t].witness = p THEN "none" ELSE tt[t].witness
<1>1. ASSUME NEW t \in Terminals
      PROVE  /\ Bereft(p, tt)[t] \in TermState
             /\ Bereft(p, tt)[t].cmd = tt[t].cmd /\ Bereft(p, tt)[t].at = tt[t].at
             /\ Bereft(p, tt)[t].port = tt[t].port /\ Bereft(p, tt)[t].pid = tt[t].pid
             /\ Bereft(p, tt)[t].force = tt[t].force
             /\ Bereft(p, tt)[t].witness = IF tt[t].witness = p THEN "none" ELSE tt[t].witness
  <2>1. tt[t] \in TermState
    BY <1>1
  <2>2. Bereft(p, tt)[t] = IF tt[t].witness = p THEN [tt[t] EXCEPT !.witness = "none"] ELSE tt[t]
    BY <1>1 DEF Bereft
  <2>3. CASE tt[t].witness = p
    BY <2>1, <2>2, <2>3 DEF TermState
  <2>4. CASE tt[t].witness # p
    BY <2>1, <2>2, <2>4
  <2> QED
    BY <2>3, <2>4
<1>2. Bereft(p, tt) \in [Terminals -> TermState]
  <2>1. Bereft(p, tt) = [t \in Terminals |-> Bereft(p, tt)[t]]
    BY DEF Bereft
  <2> QED
    BY <1>1, <2>1
<1> QED
  BY <1>1, <1>2

\* What the steps of processes and commands do to them.
LEMMA GoShape ==
    ASSUME TypeOK, NEW p \in Pids, NEW at \in Stages, Go(p, at)
    PROVE  /\ proc' \in [Pids -> ProcState] /\ term' = term
           /\ proc'[p].kind = proc[p].kind /\ proc'[p].at = at
           /\ proc'[p].port = proc[p].port /\ proc'[p].undisturbed = proc[p].undisturbed
           /\ \A q \in Pids \ {p} : proc'[q] = proc[q]
BY DEF TypeOK, Go, ProcState

\* A process that dies leaves the others as they are.
LEMMA DieShape ==
    ASSUME TypeOK, NEW p \in Pids, Die(p)
    PROVE  /\ proc' \in [Pids -> ProcState] /\ term' \in [Terminals -> TermState]
           /\ proc'[p] = Dead /\ \A q \in Pids \ {p} : proc'[q] = proc[q]
           /\ \A t \in Terminals :
                 /\ term'[t].cmd = term[t].cmd /\ term'[t].at = term[t].at
                 /\ term'[t].port = term[t].port /\ term'[t].pid = term[t].pid
                 /\ term'[t].force = term[t].force
                 /\ term'[t].witness = IF term[t].witness = p THEN "none" ELSE term[t].witness
<1>1. Dead \in ProcState
  BY DEF Dead, ProcState
<1>2. proc' \in [Pids -> ProcState] /\ proc'[p] = Dead /\ \A q \in Pids \ {p} : proc'[q] = proc[q]
  BY <1>1 DEF TypeOK, Die
<1>3. term \in [Terminals -> TermState] /\ term' = Bereft(p, term)
  BY DEF TypeOK, Die
<1>4. /\ term' \in [Terminals -> TermState]
      /\ \A t \in Terminals :
            /\ term'[t].cmd = term[t].cmd /\ term'[t].at = term[t].at
            /\ term'[t].port = term[t].port /\ term'[t].pid = term[t].pid
            /\ term'[t].force = term[t].force
            /\ term'[t].witness = IF term[t].witness = p THEN "none" ELSE term[t].witness
  BY <1>3, BereftTypes
<1> QED
  BY <1>2, <1>4

\* A command that goes on changes its own record only.
LEMMA ContinueShape ==
    ASSUME TypeOK, NEW t \in Terminals, NEW at \in Places, Continue(t, at)
    PROVE  /\ term' \in [Terminals -> TermState]
           /\ term'[t].cmd = term[t].cmd /\ term'[t].at = at
           /\ term'[t].port = term[t].port /\ term'[t].pid = term[t].pid
           /\ term'[t].force = term[t].force /\ term'[t].witness = term[t].witness
           /\ \A u \in Terminals \ {t} : term'[u] = term[u]
<1> DEFINE new == [term[t] EXCEPT !.at = at]
<1>1. term \in [Terminals -> TermState] /\ term[t] \in TermState
  BY DEF TypeOK
<1>2. /\ new \in TermState
      /\ new.cmd = term[t].cmd /\ new.at = at /\ new.port = term[t].port
      /\ new.pid = term[t].pid /\ new.force = term[t].force /\ new.witness = term[t].witness
  BY <1>1 DEF TermState, Places
<1>3. term' = [term EXCEPT ![t] = new]
  BY DEF Continue
<1> HIDE DEF new
<1> QED
  BY <1>1, <1>2, <1>3

\* A pid is noted that the file or the port gave.
LEMMA NotedShape ==
    ASSUME TypeOK, NEW t \in Terminals, NEW p \in Pids,
           \/ term' = [term EXCEPT ![t].at = "check", ![t].pid = p, ![t].via = "file"]
           \/ term' = [term EXCEPT ![t].at = "term", ![t].pid = p, ![t].via = "port"]
    PROVE  /\ term' \in [Terminals -> TermState]
           /\ term'[t].cmd = term[t].cmd /\ term'[t].pid = p /\ term'[t].port = term[t].port
           /\ term'[t].force = term[t].force /\ term'[t].witness = term[t].witness
           /\ \A u \in Terminals \ {t} : term'[u] = term[u]
<1>1. term \in [Terminals -> TermState] /\ term[t] \in TermState
  BY DEF TypeOK
<1>2. CASE term' = [term EXCEPT ![t].at = "check", ![t].pid = p, ![t].via = "file"]
  <2> DEFINE new == [term[t] EXCEPT !.at = "check", !.pid = p, !.via = "file"]
  <2>1. /\ new \in TermState
        /\ new.cmd = term[t].cmd /\ new.pid = p /\ new.port = term[t].port
        /\ new.force = term[t].force /\ new.witness = term[t].witness
    BY <1>1 DEF TermState
  <2>2. term' = [term EXCEPT ![t] = new]
    BY <1>2
  <2> HIDE DEF new
  <2> QED
    BY <1>1, <2>1, <2>2
<1>3. CASE term' = [term EXCEPT ![t].at = "term", ![t].pid = p, ![t].via = "port"]
  <2> DEFINE new == [term[t] EXCEPT !.at = "term", !.pid = p, !.via = "port"]
  <2>1. /\ new \in TermState
        /\ new.cmd = term[t].cmd /\ new.pid = p /\ new.port = term[t].port
        /\ new.force = term[t].force /\ new.witness = term[t].witness
    BY <1>1 DEF TermState
  <2>2. term' = [term EXCEPT ![t] = new]
    BY <1>3
  <2> HIDE DEF new
  <2> QED
    BY <1>1, <2>1, <2>2
<1> QED
  BY <1>2, <1>3

\* A signal leaves every command what it was.
LEMMA WaitingShape ==
    ASSUME TypeOK, NEW u \in Terminals, NEW p, term' = Bereft(p, [term EXCEPT ![u].at = "wait"])
    PROVE  \A t \in Terminals : term'[t].cmd = term[t].cmd
<1> DEFINE waiting == [term EXCEPT ![u].at = "wait"]
<1>1. waiting \in [Terminals -> TermState] /\ \A t \in Terminals : waiting[t].cmd = term[t].cmd
  <2> DEFINE new == [term[u] EXCEPT !.at = "wait"]
  <2>1. term \in [Terminals -> TermState] /\ term[u] \in TermState
    BY DEF TypeOK
  <2>2. new \in TermState /\ new.cmd = term[u].cmd
    BY <2>1 DEF TermState
  <2>3. waiting = [term EXCEPT ![u] = new]
    OBVIOUS
  <2> HIDE DEF new
  <2> QED
    BY <2>1, <2>2, <2>3
<1>2. term' = Bereft(p, waiting)
  OBVIOUS
<1> HIDE DEF waiting
<1>3. \A t \in Terminals : Bereft(p, waiting)[t].cmd = waiting[t].cmd
  BY <1>1, BereftTypes
<1> QED
  BY <1>1, <1>2, <1>3

\* A command that ends is gone.
LEMMA DoneShape ==
    ASSUME TypeOK, NEW t \in Terminals, Done(t)
    PROVE  /\ term' \in [Terminals -> TermState]
           /\ term'[t] = NoCommand
           /\ \A u \in Terminals \ {t} : term'[u] = term[u]
<1>1. NoCommand \in TermState
  BY DEF NoCommand, TermState
<1> QED
  BY <1>1 DEF TypeOK, Done

\* The counters stay in their bounds.
LEMMA UsedBirths ==
    ASSUME TypeOK, used.births < MaxBirths
    PROVE  [used EXCEPT !.births = @ + 1] \in
              [births : 0..MaxBirths, commands : 0..MaxCommands, configs : 0..MaxConfigs]
BY DaemonControlAssumption DEF TypeOK

\* The bounded counter of commands stays in its range ...
LEMMA UsedCommands ==
    ASSUME TypeOK, used.commands < MaxCommands
    PROVE  [used EXCEPT !.commands = @ + 1] \in
              [births : 0..MaxBirths, commands : 0..MaxCommands, configs : 0..MaxConfigs]
BY DaemonControlAssumption DEF TypeOK

\* ... and so does that of configuration changes.
LEMMA UsedConfigs ==
    ASSUME TypeOK, used.configs < MaxConfigs
    PROVE  [used EXCEPT !.configs = @ + 1] \in
              [births : 0..MaxBirths, commands : 0..MaxCommands, configs : 0..MaxConfigs]
BY DaemonControlAssumption DEF TypeOK

-----------------------------------------------------------------------------
(* Steps of processes.                                                     *)

\* The end of a daemon, and a start that goes on, keep the invariant.
LEMMA DieStep ==
    ASSUME IInv, NEW p \in Pids, proc[p].kind # "dead", Die(p), UNCHANGED <<config, pidfile, used>>
    PROVE  IInv'
<1> USE DEF IInv
<1>1. /\ proc' \in [Pids -> ProcState] /\ term' \in [Terminals -> TermState]
      /\ proc'[p] = Dead /\ \A q \in Pids \ {p} : proc'[q] = proc[q]
      /\ \A t \in Terminals :
            /\ term'[t].cmd = term[t].cmd /\ term'[t].at = term[t].at
            /\ term'[t].port = term[t].port /\ term'[t].pid = term[t].pid
            /\ term'[t].force = term[t].force
            /\ term'[t].witness = IF term[t].witness = p THEN "none" ELSE term[t].witness
  BY DieShape
<1>2. TypeOK'
  BY <1>1 DEF TypeOK
<1>3. ProcInv'
  BY <1>1 DEF ProcInv, Dead, Holds, Listening
<1>4. IdleInv'
  BY <1>1 DEF IdleInv, Running
<1>5. SignalsListener'
  BY <1>1 DEF SignalsListener, Listening, Dead, TypeOK, process_is_cachee
<1>6. WitnessInv'
  <2>1. \A t \in Terminals : term[t].witness \in Pids \cup {"none"}
    BY DEF TypeOK, TermState
  <2> QED
    BY <1>1, <2>1 DEF WitnessInv, Listening
<1>7. UndisturbedInv'
  BY <1>1 DEF UndisturbedInv, Dead, Running
<1> QED
  BY <1>2, <1>3, <1>4, <1>5, <1>6, <1>7

\* A start that goes on to its next stage keeps the invariant.
LEMMA GoStep ==
    ASSUME IInv, NEW p \in Pids, NEW at \in Stages, Go(p, at), proc[p].kind = "cachee",
           proc[p].at \in {"store", "audit", "bind"}, at # "write",
           at = "store" => proc[p].at = "store",
           proc[p].at = "bind" => at = "listening" /\ \A q \in Pids : ~Listening(q, proc[p].port),
           proc[p].at = "store" => at = "audit" /\ ~StoreLocked,
           proc[p].at = "audit" => at = "pid",
           UNCHANGED <<config, pidfile, used>>
    PROVE  IInv'
<1> USE DEF IInv
<1>1. /\ proc' \in [Pids -> ProcState] /\ term' = term
      /\ proc'[p].kind = proc[p].kind /\ proc'[p].at = at
      /\ proc'[p].port = proc[p].port /\ proc'[p].undisturbed = proc[p].undisturbed
      /\ \A q \in Pids \ {p} : proc'[q] = proc[q]
  BY GoShape
<1>2. TypeOK'
  BY <1>1 DEF TypeOK
<1>3. ProcInv'
  <2>1. \A q \in Pids :
          /\ proc'[q].kind = "dead" => proc'[q].at = "none" /\ proc'[q].undisturbed = "no"
          /\ proc'[q].kind = "cachee" => proc'[q].at \in Stages
          /\ proc'[q].kind = "foreign" => proc'[q].at \in {"none", "listening"} /\ proc'[q].undisturbed = "no"
    BY <1>1 DEF ProcInv
  <2>2. \A q, r \in Pids : Holds(q)' /\ Holds(r)' => q = r
    <3>1. \A q, r \in Pids : Holds(q) /\ Holds(r) => q = r
      BY DEF ProcInv
    <3>2. proc[p].at # "store" \/ \A q \in Pids : ~Holds(q)
      BY DEF Holds, StoreLocked, process_is_cachee
    <3>3. Holds(p) \/ proc[p].at = "store"
      BY DEF Holds
    <3> QED
      BY <1>1, <3>1, <3>2, <3>3 DEF Holds
  <2>3. \A q, r \in Pids : proc'[q].at = "listening" /\ Listening(r, proc[q].port)' => q = r
    <3>1. \A q, r \in Pids : proc[q].at = "listening" /\ proc[r].at = "listening" /\ proc[r].port = proc[q].port => q = r
      BY DEF ProcInv, Listening
    <3>2. at # "listening" \/ \A q \in Pids : ~(proc[q].at = "listening" /\ proc[q].port = proc[p].port)
      BY DEF Listening
    <3> QED
      BY <1>1, <3>1, <3>2 DEF Listening
  <2> QED
    BY <2>1, <2>2, <2>3 DEF ProcInv
<1>4. IdleInv'
  BY <1>1 DEF IdleInv, Running
<1>5. SignalsListener'
  BY <1>1 DEF SignalsListener, Listening, TypeOK, process_is_cachee
<1>6. WitnessInv'
  <2>1. \A t \in Terminals : term[t].witness \in Pids \cup {"none"}
    BY DEF TypeOK, TermState
  <2> QED
    BY <1>1, <2>1 DEF WitnessInv, Listening
<1>7. UndisturbedInv'
  BY <1>1 DEF UndisturbedInv, Running
<1> QED
  BY <1>2, <1>3, <1>4, <1>5, <1>6, <1>7
\* Every step of a starting or running process keeps the invariant.
LEMMA ProcStepKeeps == ASSUME IInv, NEW p \in Pids, ProcStep(p) PROVE IInv'
<1> USE DEF IInv
<1>0. proc[p] \in ProcState /\ proc \in [Pids -> ProcState]
  BY DEF TypeOK
<1>1. CASE Start(p)
  <2>1. /\ proc[p].kind = "dead" /\ proc' \in [Pids -> ProcState] /\ UNCHANGED <<config, pidfile, term>>
        /\ proc'[p] = NewDaemon
        /\ \A q \in Pids \ {p} : proc'[q] = proc[q]
        /\ \A t \in Terminals : term[t].at \in {"term", "wait"} => term[t].pid # p
    <3>1. NewDaemon \in ProcState
      BY DEF NewDaemon, ProcState, Stages, TypeOK
    <3> QED
      BY <1>0, <1>1, <3>1 DEF Start, Assignable
  <2>2. TypeOK'
    BY <1>1, <2>1, UsedBirths DEF TypeOK, Start, Assignable
  <2>3. ProcInv'
    BY <2>1 DEF ProcInv, NewDaemon, Holds, Listening, Stages
  <2>4. IdleInv' /\ SignalsListener'
    BY <2>1 DEF IdleInv, Running, SignalsListener, Listening, NewDaemon, TypeOK, process_is_cachee
  <2>5. WitnessInv'
    <3>1. \A t \in Terminals : term[t].witness \in Pids \cup {"none"}
      BY DEF TypeOK, TermState
    <3> QED
      BY <2>1, <3>1 DEF WitnessInv, Listening
  <2>6. UndisturbedInv'
    BY <2>1 DEF UndisturbedInv, NewDaemon, Running
  <2> QED
    BY <2>2, <2>3, <2>4, <2>5, <2>6
<1>2. CASE OpenStore(p) \/ OpenAudit(p) \/ Bind(p)
  <2>1. proc[p].kind = "cachee" /\ proc[p].at \in {"store", "audit", "bind"}
    BY <1>0, <1>2 DEF OpenStore, OpenAudit, Bind, ProcInv, ProcState
  <2>2. CASE Die(p)
    BY <1>2, <2>1, <2>2, DieStep DEF OpenStore, OpenAudit, Bind
  <2>3. CASE OpenStore(p) /\ ~Die(p)
    BY <2>1, <2>3, GoStep DEF OpenStore, Stages
  <2>4. CASE OpenAudit(p) /\ ~Die(p)
    BY <2>1, <2>4, GoStep DEF OpenAudit, Stages
  <2>5. CASE Bind(p) /\ ~Die(p)
    BY <2>1, <2>5, GoStep DEF Bind, Stages
  <2> QED
    BY <1>2, <2>2, <2>3, <2>4, <2>5
<1>3. CASE CreatePidFile(p)
  <2> DEFINE left == IF (\E t \in Terminals : Running(t)) \/ proc[p].port # config THEN "no" ELSE "yes"
  <2>1. /\ proc[p].at = "pid" /\ proc[p].kind = "cachee"
        /\ proc' \in [Pids -> ProcState] /\ UNCHANGED <<config, term, used>>
        /\ pidfile' = "empty"
        /\ proc'[p].kind = "cachee" /\ proc'[p].at = "write" /\ proc'[p].port = proc[p].port
        /\ proc'[p].undisturbed = left
        /\ \A q \in Pids \ {p} : proc'[q] = proc[q]
    <3>1. proc[p].kind = "cachee"
      BY <1>0, <1>3 DEF CreatePidFile, ProcInv, ProcState
    <3> QED
      BY <1>0, <1>3, <3>1 DEF CreatePidFile, ProcState, Stages
  <2>2. TypeOK'
    BY <2>1 DEF TypeOK
  <2>3. ProcInv'
    BY <2>1 DEF ProcInv, Holds, Listening, Stages
  <2>4. IdleInv' /\ SignalsListener'
    BY <2>1 DEF IdleInv, Running, SignalsListener, Listening, TypeOK, process_is_cachee
  <2>5. WitnessInv'
    <3>1. \A t \in Terminals : term[t].witness \in Pids \cup {"none"}
      BY DEF TypeOK, TermState
    <3> QED
      BY <2>1, <3>1 DEF WitnessInv, Listening
  <2>6. UndisturbedInv'
    <3>1. \A q \in Pids \ {p} : proc[q].undisturbed # "yes"
      <4>1. \A q \in Pids : proc[q].undisturbed = "yes" => Holds(q)
        BY DEF UndisturbedInv, Holds
      <4> QED
        BY <2>1, <4>1 DEF Holds, ProcInv
    <3>2. left = "yes" => proc[p].port = config /\ \A t \in Terminals : ~Running(t)
      OBVIOUS
    <3>3. \A t \in Terminals : ~Running(t) => term[t].at = "none" /\ term[t].cmd = "none"
      BY DEF IdleInv, Running
    <3> HIDE DEF left
    <3> QED
      BY <2>1, <3>1, <3>2, <3>3 DEF UndisturbedInv, Running
  <2> QED
    BY <2>2, <2>3, <2>4, <2>5, <2>6
<1>4. CASE WritePidFile(p)
  <2>1. /\ proc[p].at = "write" /\ proc[p].kind = "cachee"
        /\ proc' \in [Pids -> ProcState] /\ UNCHANGED <<config, term, used>>
        /\ pidfile' = IF pidfile = "empty" THEN p ELSE pidfile
        /\ proc'[p].kind = "cachee" /\ proc'[p].at = "bind" /\ proc'[p].port = proc[p].port
        /\ proc'[p].undisturbed = proc[p].undisturbed
        /\ \A q \in Pids \ {p} : proc'[q] = proc[q]
    <3>1. proc[p].kind = "cachee"
      BY <1>0, <1>4 DEF WritePidFile, ProcInv, ProcState
    <3>2. "bind" \in Stages
      BY DEF Stages
    <3> QED
      BY <1>4, <3>1, <3>2, GoShape DEF WritePidFile
  <2>2. TypeOK'
    BY <2>1 DEF TypeOK
  <2>3. ProcInv'
    BY <2>1 DEF ProcInv, Holds, Listening, Stages
  <2>4. IdleInv' /\ SignalsListener'
    BY <2>1 DEF IdleInv, Running, SignalsListener, Listening, TypeOK, process_is_cachee
  <2>5. WitnessInv'
    <3>1. \A t \in Terminals : term[t].witness \in Pids \cup {"none"}
      BY DEF TypeOK, TermState
    <3> QED
      BY <2>1, <3>1 DEF WitnessInv, Listening
  <2>6. UndisturbedInv'
    <3>1. \A q \in Pids \ {p} : proc[q].undisturbed # "yes"
      <4>1. \A q \in Pids : proc[q].undisturbed = "yes" => Holds(q)
        BY DEF UndisturbedInv, Holds
      <4> QED
        BY <2>1, <4>1 DEF Holds, ProcInv
    <3> QED
      BY <2>1, <3>1 DEF UndisturbedInv, Running
  <2> QED
    BY <2>2, <2>3, <2>4, <2>5, <2>6
<1>5. CASE Exit(p)
  BY <1>5, DieStep DEF Exit
<1>6. CASE StartForeign(p)
  <2>1. PICK port \in Ports \cup {"none"} :
          /\ \A q \in Pids : ~Listening(q, port)
          /\ proc' = [proc EXCEPT ![p] = [Dead EXCEPT !.kind = "foreign", !.port = port,
                                            !.at = IF port = "none" THEN "none" ELSE "listening"]]
    BY <1>6 DEF StartForeign
  <2>2. /\ proc[p].kind = "dead" /\ proc' \in [Pids -> ProcState] /\ UNCHANGED <<config, pidfile, term>>
        /\ proc'[p].kind = "foreign" /\ proc'[p].port = port /\ proc'[p].at \in {"none", "listening"}
        /\ proc'[p].undisturbed = "no"
        /\ \A q \in Pids \ {p} : proc'[q] = proc[q]
        /\ \A t \in Terminals : term[t].at \in {"term", "wait"} => term[t].pid # p
    BY <1>0, <1>6, <2>1 DEF StartForeign, Assignable, Dead, ProcState, Stages
  <2>3. TypeOK'
    BY <1>6, <2>2, UsedBirths DEF TypeOK, StartForeign, Assignable
  <2>4. ProcInv'
    BY <2>1, <2>2 DEF ProcInv, Holds, Listening, Stages
  <2>5. IdleInv' /\ SignalsListener'
    BY <2>2 DEF IdleInv, Running, SignalsListener, Listening, TypeOK, process_is_cachee
  <2>6. WitnessInv'
    <3>1. \A t \in Terminals : term[t].witness \in Pids \cup {"none"}
      BY DEF TypeOK, TermState
    <3> QED
      BY <2>2, <3>1 DEF WitnessInv, Listening
  <2>7. UndisturbedInv'
    BY <2>2 DEF UndisturbedInv, Running
  <2> QED
    BY <2>3, <2>4, <2>5, <2>6, <2>7
<1> QED
  BY <1>1, <1>2, <1>3, <1>4, <1>5, <1>6 DEF ProcStep
-----------------------------------------------------------------------------
(* Steps of commands.                                                      *)

\* What a command must be like after its step.
CommandInv(t) ==
    /\ term[t].at \in {"check", "term", "wait"} => term[t].pid \in Pids
    /\ Running(t) \/ (term[t].at = "none" /\ term[t].witness = "none")
    /\ term[t].at \in {"find", "term", "wait", "remove"} => term[t].cmd = "stop"
    /\ term[t].at \in {"read", "check", "unlink"} => term[t].cmd \in {"stop", "doctor"}
    /\ term[t].at \in {"term", "wait"} /\ proc[term[t].pid].kind # "dead" =>
          /\ Listening(term[t].pid, term[t].port)
          /\ process_is_cachee(term[t].pid) \/ term[t].force = "yes"
    /\ term[t].witness # "none" =>
          /\ term[t].cmd = "stop"
          /\ proc[term[t].witness].kind = "cachee"
          /\ Listening(term[t].witness, term[t].port)
          /\ term[t].at \in {"read", "check", "unlink", "find", "term"}
          /\ term[t].at = "term" => term[t].pid = term[t].witness
    /\ \A p \in Pids : proc[p].undisturbed = "yes" =>
          /\ Running(t) => proc[p].at = "listening"
          /\ term[t].cmd = "stop" => term[t].port = config
          /\ term[t].at \in {"check", "term"} => term[t].pid = p
          /\ term[t].at \notin {"unlink", "wait", "remove"}

\* What the invariant says of one command.
LEMMA CommandHas == ASSUME IInv, NEW t \in Terminals PROVE CommandInv(t)
<1> USE DEF IInv
<1>1. term[t].at \in {"check", "term", "wait"} => term[t].pid \in Pids
  BY DEF TypeOK
<1>2. /\ Running(t) \/ (term[t].at = "none" /\ term[t].witness = "none")
      /\ term[t].at \in {"find", "term", "wait", "remove"} => term[t].cmd = "stop"
      /\ term[t].at \in {"read", "check", "unlink"} => term[t].cmd \in {"stop", "doctor"}
  BY DEF IdleInv
<1>3. term[t].at \in {"term", "wait"} /\ proc[term[t].pid].kind # "dead" =>
          /\ Listening(term[t].pid, term[t].port)
          /\ process_is_cachee(term[t].pid) \/ term[t].force = "yes"
  BY DEF SignalsListener
<1> QED
  BY <1>1, <1>2, <1>3 DEF CommandInv, WitnessInv, UndisturbedInv

\* A step of one command that signals nobody.
LEMMA CommandStep ==
    ASSUME IInv, NEW t \in Terminals,
           term' \in [Terminals -> TermState], \A u \in Terminals \ {t} : term'[u] = term[u],
           UNCHANGED <<config, proc, used>>, pidfile' \in Pids \cup {"absent", "empty"},
           pidfile' = pidfile \/ \A p \in Pids : proc[p].undisturbed # "yes",
           CommandInv(t)'
    PROVE  IInv'
<1> USE DEF IInv
<1>1. TypeOK'
  BY DEF TypeOK, CommandInv
<1>2. ProcInv'
  BY DEF ProcInv, Holds, Listening
<1>3. IdleInv'
  BY DEF IdleInv, CommandInv, Running
<1>4. SignalsListener'
  BY DEF SignalsListener, CommandInv, Listening, process_is_cachee
<1>5. WitnessInv'
  BY DEF WitnessInv, CommandInv, Listening
<1>6. UndisturbedInv'
  BY DEF UndisturbedInv, CommandInv, Running
<1> QED
  BY <1>1, <1>2, <1>3, <1>4, <1>5, <1>6

\* A command that ends keeps the invariant.
LEMMA CommandEnds ==
    ASSUME IInv, NEW t \in Terminals, Done(t), UNCHANGED <<config, proc, used>>,
           pidfile' \in Pids \cup {"absent", "empty"},
           pidfile' = pidfile \/ \A p \in Pids : proc[p].undisturbed # "yes"
    PROVE  IInv'
<1>1. /\ term' \in [Terminals -> TermState] /\ term'[t] = NoCommand
      /\ \A u \in Terminals \ {t} : term'[u] = term[u]
  BY DoneShape DEF IInv
<1>2. CommandInv(t)'
  BY <1>1 DEF CommandInv, NoCommand, Running
<1> QED
  BY <1>1, <1>2, CommandStep

\* A command that goes on keeps it, if its new record is as it should be.
LEMMA CommandGoesOn ==
    ASSUME IInv, NEW t \in Terminals, NEW at \in Places, Continue(t, at), Running(t),
           UNCHANGED <<config, proc, used>>,
           at \in {"find", "term", "unlink"} => term[t].cmd = "stop" \/ (at = "unlink" /\ term[t].cmd = "doctor"),
           at \in {"audit", "store", "audit open", "store open"} => term[t].witness = "none",
           at \notin {"read", "check", "wait", "remove"},
           at = "term" => term[t].pid \in Pids /\ process_is_cachee(term[t].pid) /\ Listening(term[t].pid, term[t].port)
                          /\ term[t].at = "check",
           at = "unlink" => \A p \in Pids : proc[p].undisturbed # "yes",
           pidfile' \in Pids \cup {"absent", "empty"},
           pidfile' = pidfile \/ \A p \in Pids : proc[p].undisturbed # "yes"
    PROVE  IInv'
<1>1. /\ term' \in [Terminals -> TermState]
      /\ term'[t].cmd = term[t].cmd /\ term'[t].at = at
      /\ term'[t].port = term[t].port /\ term'[t].pid = term[t].pid
      /\ term'[t].force = term[t].force /\ term'[t].witness = term[t].witness
      /\ \A u \in Terminals \ {t} : term'[u] = term[u]
  BY ContinueShape DEF IInv
<1>2. CommandInv(t)
  BY CommandHas
<1>3. at = "term" => \A p \in Pids : proc[p].at = "listening" /\ proc[p].port = term[t].port => p = term[t].pid
  BY DEF IInv, ProcInv, Listening
<1>4. term[t].witness \in Pids \cup {"none"}
  BY DEF IInv, TypeOK, TermState
<1>5. CommandInv(t)'
  BY <1>1, <1>2, <1>3, <1>4 DEF CommandInv, Running, Listening, process_is_cachee, Places
<1> QED
  BY <1>1, <1>5, CommandStep

\* Signals: the process that was looked at is gone, or another user's.
LEMMA SendTermStep == ASSUME IInv, NEW t \in Terminals, SendTerm(t) PROVE IInv'
<1> DEFINE p == term[t].pid
           waiting == [term EXCEPT ![t].at = "wait"]
<1>1. /\ term[t].at = "term" /\ term[t].cmd = "stop" /\ p \in Pids
      /\ UNCHANGED <<config, pidfile, used>>
  BY DEF IInv, TypeOK, IdleInv, SendTerm
<1>2. CommandInv(t)
  BY CommandHas
<1>3. /\ waiting \in [Terminals -> TermState]
      /\ waiting[t].cmd = "stop" /\ waiting[t].at = "wait" /\ waiting[t].pid = p
      /\ waiting[t].port = term[t].port /\ waiting[t].force = term[t].force
      /\ waiting[t].witness = term[t].witness
      /\ \A u \in Terminals \ {t} : waiting[u] = term[u]
  BY <1>1 DEF IInv, TypeOK, TermState
<1>4. \A q \in Pids : proc[q].undisturbed = "yes" => q = p
  BY <1>1, <1>2 DEF CommandInv
<1>5. \A u \in Terminals : term[u].witness \in Pids \cup {"none"}
  BY DEF IInv, TypeOK, TermState
<1> HIDE DEF waiting
<1>6. CASE proc' = [proc EXCEPT ![p] = Dead] /\ term' = Bereft(p, waiting)
  <2>1. /\ proc' \in [Pids -> ProcState] /\ proc'[p] = Dead
        /\ \A q \in Pids \ {p} : proc'[q] = proc[q]
    <3>1. Dead \in ProcState
      BY DEF Dead, ProcState
    <3> QED
      BY <1>1, <1>6, <3>1 DEF IInv, TypeOK
  <2>2. /\ term' \in [Terminals -> TermState]
        /\ \A u \in Terminals :
              /\ term'[u].cmd = waiting[u].cmd /\ term'[u].at = waiting[u].at
              /\ term'[u].port = waiting[u].port /\ term'[u].pid = waiting[u].pid
              /\ term'[u].force = waiting[u].force
              /\ term'[u].witness = IF waiting[u].witness = p THEN "none" ELSE waiting[u].witness
    BY <1>3, <1>6, BereftTypes
  <2>3. term'[t].witness = "none"
    BY <1>1, <1>2, <1>3, <2>2 DEF CommandInv
  <2>4. TypeOK'
    BY <1>1, <1>3, <2>1, <2>2 DEF IInv, TypeOK
  <2>5. ProcInv'
    BY <1>1, <2>1 DEF IInv, ProcInv, Dead, Holds, Listening
  <2>6. IdleInv'
    BY <1>1, <1>3, <2>2 DEF IInv, IdleInv, Running
  <2>7. SignalsListener'
    BY <1>1, <1>3, <2>1, <2>2 DEF IInv, SignalsListener, Dead, Listening, process_is_cachee, TypeOK
  <2>8. WitnessInv'
    BY <1>1, <1>3, <1>5, <2>1, <2>2, <2>3 DEF IInv, WitnessInv, Listening
  <2>9. UndisturbedInv'
    BY <1>4, <2>1 DEF UndisturbedInv, Dead
  <2> QED
    BY <2>4, <2>5, <2>6, <2>7, <2>8, <2>9 DEF IInv
<1>7. CASE proc[p].kind # "cachee" /\ term' = waiting /\ UNCHANGED proc
  <2>1. \A q \in Pids : proc[q].undisturbed # "yes"
    BY <1>4, <1>7 DEF IInv, UndisturbedInv
  <2>2. term[t].witness = "none"
    BY <1>1, <1>2, <1>7 DEF CommandInv
  <2>3. CommandInv(t)'
    BY <1>1, <1>2, <1>3, <1>7, <2>1, <2>2 DEF CommandInv, Running, Listening, process_is_cachee
  <2>4. pidfile' \in Pids \cup {"absent", "empty"}
    BY <1>1 DEF IInv, TypeOK
  <2> QED
    BY <1>1, <1>3, <1>7, <2>3, <2>4, CommandStep
<1> QED
  BY <1>6, <1>7 DEF SendTerm, waiting, p

\* The wait for a signalled process keeps the invariant.
LEMMA WaitStep == ASSUME IInv, NEW t \in Terminals, Wait(t) PROVE IInv'
<1> DEFINE p == term[t].pid
<1>1. /\ term[t].at = "wait" /\ term[t].cmd = "stop" /\ p \in Pids
      /\ UNCHANGED <<config, pidfile, used>> /\ AfterWait(t)
  BY DEF IInv, TypeOK, IdleInv, Wait
<1>2. CommandInv(t)
  BY CommandHas
<1>3. \A q \in Pids : proc[q].undisturbed # "yes"
  BY <1>1, <1>2 DEF CommandInv
<1>4. term[t].witness = "none"
  BY <1>1, <1>2 DEF CommandInv
<1>5. /\ term' \in [Terminals -> TermState]
      /\ \A u \in Terminals \ {t} : term'[u] = term[u]
      /\ term'[t].witness = "none"
      /\ \/ term'[t].at = "remove" /\ term'[t].cmd = "stop"
         \/ term'[t].at = "none" /\ term'[t].cmd = "none"
  <2>1. CASE Continue(t, "remove")
    BY <1>1, <1>4, <2>1, ContinueShape DEF IInv, Places
  <2>2. CASE Done(t)
    BY <2>2, DoneShape DEF IInv, NoCommand
  <2> QED
    BY <1>1, <2>1, <2>2 DEF AfterWait
<1>6. \/ UNCHANGED proc
      \/ /\ proc[p].kind = "foreign"
         /\ proc' \in [Pids -> ProcState] /\ proc'[p] = Dead
         /\ \A q \in Pids \ {p} : proc'[q] = proc[q]
  <2>1. Dead \in ProcState
    BY DEF Dead, ProcState
  <2> QED
    BY <1>1, <2>1 DEF IInv, TypeOK, Wait
<1> HIDE DEF p
<1>7. \A u \in Terminals : term[u].witness \in Pids \cup {"none"}
  BY DEF IInv, TypeOK, TermState
<1>8. TypeOK'
  BY <1>1, <1>5, <1>6 DEF IInv, TypeOK
<1>9. ProcInv'
  <2>1. CASE UNCHANGED proc
    BY <2>1 DEF IInv, ProcInv, Holds, Listening
  <2>2. CASE ~UNCHANGED proc
    BY <1>1, <1>6, <2>2 DEF IInv, ProcInv, Dead, Holds, Listening
  <2> QED
    BY <2>1, <2>2
<1>10. IdleInv'
  BY <1>1, <1>5 DEF IInv, IdleInv, Running
<1>11. SignalsListener'
  BY <1>1, <1>5, <1>6 DEF IInv, SignalsListener, Dead, Listening, process_is_cachee, TypeOK
<1>12. WitnessInv'
  BY <1>1, <1>5, <1>6, <1>7 DEF IInv, WitnessInv, Listening
<1>13. UndisturbedInv'
  BY <1>3, <1>6 DEF UndisturbedInv, Dead
<1> QED
  BY <1>8, <1>9, <1>10, <1>11, <1>12, <1>13 DEF IInv

\* A command that begins keeps the invariant: its witness is the listener of the moment.
LEMMA BeginStep ==
    ASSUME IInv, NEW t \in Terminals, NEW cmd \in {"stop", "doctor", "export"},
           NEW force \in {"yes", "no"}, BeginCommand(t, cmd, force)
    PROVE  IInv'
<1>1. PICK w \in IF cmd = "stop" /\ Witness # {} THEN Witness ELSE {"none"} :
          term' = [term EXCEPT ![t] = [NoCommand EXCEPT
             !.cmd = cmd, !.force = force, !.port = config, !.witness = w,
             !.at = IF cmd = "export" THEN "store" ELSE "read"]]
  BY DEF BeginCommand
<1>2. \/ w = "none"
      \/ w \in Pids /\ cmd = "stop" /\ proc[w].kind = "cachee" /\ Listening(w, config)
  BY <1>1 DEF Witness, process_is_cachee
<1>3. /\ term' \in [Terminals -> TermState]
      /\ term'[t].cmd = cmd /\ term'[t].force = force /\ term'[t].port = config
      /\ term'[t].witness = w /\ term'[t].at = IF cmd = "export" THEN "store" ELSE "read"
      /\ \A u \in Terminals \ {t} : term'[u] = term[u]
  <2> DEFINE new == [NoCommand EXCEPT
             !.cmd = cmd, !.force = force, !.port = config, !.witness = w,
             !.at = IF cmd = "export" THEN "store" ELSE "read"]
  <2>1. /\ new \in TermState
        /\ new.cmd = cmd /\ new.force = force /\ new.port = config
        /\ new.witness = w /\ new.at = IF cmd = "export" THEN "store" ELSE "read"
    BY <1>2 DEF NoCommand, TermState, IInv, TypeOK
  <2> HIDE DEF new
  <2>2. term' = [term EXCEPT ![t] = new]
    BY <1>1 DEF new
  <2> QED
    BY <2>1, <2>2 DEF IInv, TypeOK
<1>4. /\ proc' \in [Pids -> ProcState]
      /\ \A q \in Pids :
            /\ proc'[q].kind = proc[q].kind /\ proc'[q].at = proc[q].at /\ proc'[q].port = proc[q].port
            /\ proc'[q].undisturbed = IF proc[q].at = "listening" THEN proc[q].undisturbed ELSE "no"
  <2>1. proc \in [Pids -> ProcState]
        /\ proc' = [q \in Pids |-> IF proc[q].at = "listening" THEN proc[q] ELSE [proc[q] EXCEPT !.undisturbed = "no"]]
    BY DEF BeginCommand, IInv, TypeOK
  <2>2. ASSUME NEW q \in Pids
        PROVE  /\ [proc[q] EXCEPT !.undisturbed = "no"] \in ProcState
               /\ [proc[q] EXCEPT !.undisturbed = "no"].kind = proc[q].kind
               /\ [proc[q] EXCEPT !.undisturbed = "no"].at = proc[q].at
               /\ [proc[q] EXCEPT !.undisturbed = "no"].port = proc[q].port
               /\ [proc[q] EXCEPT !.undisturbed = "no"].undisturbed = "no"
    BY <2>1, <2>2 DEF ProcState
  <2> QED
    BY <2>1, <2>2
<1>5. UNCHANGED <<config, pidfile>> /\ ~Running(t)
  BY DEF BeginCommand
<1>6. TypeOK'
  BY <1>3, <1>4, <1>5, UsedCommands DEF IInv, TypeOK, BeginCommand
<1>7. ProcInv'
  BY <1>4 DEF IInv, ProcInv, Holds, Listening
<1>8. IdleInv'
  BY <1>3 DEF IInv, IdleInv, Running
<1>9. SignalsListener'
  BY <1>3, <1>4 DEF IInv, SignalsListener, Listening, process_is_cachee, TypeOK
<1>10. WitnessInv'
  <2>1. \A u \in Terminals : term[u].witness \in Pids \cup {"none"}
    BY DEF IInv, TypeOK, TermState
  <2> QED
    BY <1>2, <1>3, <1>4, <2>1 DEF IInv, WitnessInv, Listening
<1>11. UndisturbedInv'
  BY <1>3, <1>4, <1>5 DEF IInv, UndisturbedInv, Running
<1> QED
  BY <1>6, <1>7, <1>8, <1>9, <1>10, <1>11 DEF IInv

\* Reading the pid file keeps the invariant.
LEMMA ReadPidFileStep == ASSUME IInv, NEW t \in Terminals, ReadPidFile(t) PROVE IInv'
<1>1. CommandInv(t) /\ Running(t) /\ term[t].at = "read" /\ UNCHANGED <<config, pidfile, proc, used>>
  BY CommandHas DEF CommandInv, ReadPidFile
<1>2. CASE pidfile \in Pids
  <2>1. term' = [term EXCEPT ![t].at = "check", ![t].pid = pidfile, ![t].via = "file"]
    BY <1>2 DEF ReadPidFile
  <2>3. /\ term' \in [Terminals -> TermState]
        /\ term'[t].cmd = term[t].cmd
        /\ term'[t].port = term[t].port /\ term'[t].pid = pidfile
        /\ term'[t].force = term[t].force /\ term'[t].witness = term[t].witness
        /\ \A u \in Terminals \ {t} : term'[u] = term[u]
    BY <1>2, <2>1, NotedShape DEF IInv
  <2>6. term'[t].at = "check"
    BY <2>1 DEF IInv, TypeOK, TermState
  <2>4. \A p \in Pids : proc[p].undisturbed = "yes" /\ proc[p].at = "listening" => pidfile = p
    BY DEF IInv, UndisturbedInv
  <2>5. term[t].witness \in Pids \cup {"none"}
    BY DEF IInv, TypeOK, TermState
  <2>7. CommandInv(t)'
    BY <1>1, <1>2, <2>6, <2>3, <2>4, <2>5 DEF CommandInv, Running, Listening
  <2> QED
    BY <1>1, <2>3, <2>7, CommandStep DEF IInv, TypeOK
<1>3. CASE pidfile \notin Pids
  BY <1>1, <1>3, CommandGoesOn DEF ReadPidFile, Continue, Places, CommandInv, IInv, TypeOK
<1> QED
  BY <1>2, <1>3

\* Every step of a command keeps the invariant.
LEMMA TermStepKeeps == ASSUME IInv, NEW t \in Terminals, TermStep(t) PROVE IInv'
<1>1. CommandInv(t)
  BY CommandHas
<1>2. pidfile \in Pids \cup {"absent", "empty"}
  BY DEF IInv, TypeOK
<1>3. \A at \in {"check", "unlink", "find", "term", "wait", "remove", "audit", "store", "audit open", "store open"} :
         term[t].at = at => Running(t)
  BY <1>1 DEF CommandInv
<1>4. CASE CheckListener(t)
  <2>1. /\ At(t, "stop", "check") /\ UNCHANGED <<config, pidfile, proc, used>>
        /\ Continue(t, IF process_is_cachee_and_listening(t) THEN "term" ELSE "unlink")
    BY <1>4 DEF CheckListener
  <2>2. CASE process_is_cachee_and_listening(t)
    BY <1>1, <1>2, <1>3, <2>1, <2>2, CommandGoesOn DEF process_is_cachee_and_listening, At, Places, CommandInv
  <2>3. CASE ~process_is_cachee_and_listening(t)
    <3>1. \A p \in Pids : proc[p].undisturbed # "yes"
      BY <1>1, <1>3, <2>1, <2>3
         DEF process_is_cachee_and_listening, process_is_cachee, Listening, At, CommandInv, IInv, UndisturbedInv
    <3> QED
      BY <1>1, <1>2, <1>3, <2>1, <2>3, <3>1, CommandGoesOn DEF At, Places
  <2> QED
    BY <2>2, <2>3
<1>5. CASE DoctorProbe(t)
  <2>1. At(t, "doctor", "check") /\ UNCHANGED <<config, pidfile, proc, used>>
    BY <1>5 DEF DoctorProbe
  <2>2. CASE Continue(t, "audit")
    BY <1>1, <1>2, <1>3, <2>1, <2>2, CommandGoesOn DEF At, Places, CommandInv
  <2>3. CASE proc[term[t].pid].kind # "cachee" /\ Continue(t, "unlink")
    <3>1. \A p \in Pids : proc[p].undisturbed # "yes"
      BY <1>1, <2>1, <2>3 DEF At, CommandInv, IInv, UndisturbedInv
    <3> QED
      BY <1>1, <1>2, <1>3, <2>1, <2>3, <3>1, CommandGoesOn DEF At, Places
  <2> QED
    BY <1>5, <2>2, <2>3 DEF DoctorProbe
<1>6. CASE UnlinkStale(t)
  <2>1. term[t].at = "unlink" /\ UNCHANGED <<config, proc, used>> /\ pidfile' = "absent"
    BY <1>6 DEF UnlinkStale
  <2>2. \A p \in Pids : proc[p].undisturbed # "yes"
    BY <1>1, <2>1 DEF CommandInv
  <2>3. CASE term[t].cmd = "stop" /\ Continue(t, "find")
    BY <1>3, <2>1, <2>2, <2>3, CommandGoesOn DEF Places
  <2>4. CASE term[t].cmd = "doctor" /\ Continue(t, "audit")
    BY <1>1, <1>3, <2>1, <2>2, <2>4, CommandGoesOn DEF Places, CommandInv
  <2> QED
    BY <1>1, <1>6, <2>1, <2>3, <2>4 DEF UnlinkStale, CommandInv
<1>7. CASE FindListener(t)
  <2>1. term[t].at = "find" /\ term[t].cmd = "stop" /\ UNCHANGED <<config, pidfile, proc, used>>
    BY <1>1, <1>7 DEF FindListener, CommandInv
  <2>2. CASE Done(t)
    BY <1>2, <2>1, <2>2, CommandEnds
  <2>3. ASSUME NEW p \in Pids, Listening(p, term[t].port), process_is_cachee(p) \/ term[t].force = "yes",
               term' = [term EXCEPT ![t].at = "term", ![t].pid = p, ![t].via = "port"]
        PROVE  IInv'
    <3>3. /\ term' \in [Terminals -> TermState]
          /\ term'[t].cmd = term[t].cmd
          /\ term'[t].port = term[t].port /\ term'[t].pid = p
          /\ term'[t].force = term[t].force /\ term'[t].witness = term[t].witness
          /\ \A u \in Terminals \ {t} : term'[u] = term[u]
      BY <2>3, NotedShape DEF IInv
    <3>2. term'[t].at = "term"
      BY <2>3 DEF IInv, TypeOK, TermState
    <3>4. \A q \in Pids : Listening(q, term[t].port) => q = p
      BY <2>3 DEF IInv, ProcInv, Listening
    <3>5. \A q \in Pids : proc[q].undisturbed = "yes" => q = p
      BY <1>1, <1>3, <2>1, <3>4 DEF CommandInv, Listening, IInv, UndisturbedInv
    <3>6. term[t].witness \in Pids \cup {"none"}
      BY DEF IInv, TypeOK, TermState
    <3>7. CommandInv(t)'
      BY <1>1, <2>1, <2>3, <3>2, <3>3, <3>4, <3>5, <3>6 DEF CommandInv, Running, Listening, process_is_cachee
    <3> QED
      BY <1>2, <2>1, <3>3, <3>7, CommandStep
  <2> QED
    BY <1>7, <2>2, <2>3 DEF FindListener
<1>8. CASE RemovePidFile(t)
  <2>1. term[t].at = "remove" /\ UNCHANGED <<config, proc, used>> /\ pidfile' = "absent" /\ Done(t)
    BY <1>8 DEF RemovePidFile
  <2>2. \A p \in Pids : proc[p].undisturbed # "yes"
    BY <1>1, <2>1 DEF CommandInv
  <2> QED
    BY <2>1, <2>2, CommandEnds
<1>9. CASE TryAudit(t) \/ TryStore(t) \/ CloseStore(t)
  <2>1. /\ term[t].at \in {"audit", "store", "audit open", "store open"}
        /\ UNCHANGED <<config, pidfile, proc, used>>
        /\ Done(t) \/ \E at \in {"store", "audit open", "store open"} : Continue(t, at)
    BY <1>9 DEF TryAudit, TryStore, CloseStore
  <2>2. CASE Done(t)
    BY <1>2, <2>1, <2>2, CommandEnds
  <2>3. ASSUME NEW at \in {"store", "audit open", "store open"}, Continue(t, at) PROVE IInv'
    BY <1>1, <1>2, <1>3, <2>1, <2>3, CommandGoesOn DEF Places, CommandInv
  <2> QED
    BY <2>1, <2>2, <2>3
<1> QED
  BY <1>4, <1>5, <1>6, <1>7, <1>8, <1>9, SendTermStep, WaitStep, ReadPidFileStep, BeginStep DEF TermStep

-----------------------------------------------------------------------------
(* The invariant.                                                          *)

\* A change of the configured port keeps the invariant.
LEMMA ChangePortKeeps == ASSUME IInv, NEW port \in Ports, ChangePort(port) PROVE IInv'
<1>1. /\ proc' \in [Pids -> ProcState]
      /\ \A q \in Pids :
            /\ proc'[q].kind = proc[q].kind /\ proc'[q].at = proc[q].at /\ proc'[q].port = proc[q].port
            /\ proc'[q].undisturbed = "no"
  <2>1. proc \in [Pids -> ProcState] /\ proc' = [q \in Pids |-> [proc[q] EXCEPT !.undisturbed = "no"]]
    BY DEF ChangePort, IInv, TypeOK
  <2>2. ASSUME NEW q \in Pids
        PROVE  /\ [proc[q] EXCEPT !.undisturbed = "no"] \in ProcState
               /\ [proc[q] EXCEPT !.undisturbed = "no"].kind = proc[q].kind
               /\ [proc[q] EXCEPT !.undisturbed = "no"].at = proc[q].at
               /\ [proc[q] EXCEPT !.undisturbed = "no"].port = proc[q].port
               /\ [proc[q] EXCEPT !.undisturbed = "no"].undisturbed = "no"
    BY <2>1, <2>2 DEF ProcState
  <2> QED
    BY <2>1, <2>2
<1>2. TypeOK'
  BY <1>1, UsedConfigs DEF IInv, TypeOK, ChangePort
<1>3. ProcInv'
  BY <1>1 DEF IInv, ProcInv, Holds, Listening
<1>4. IdleInv'
  BY DEF IInv, IdleInv, Running, ChangePort
<1>5. SignalsListener'
  BY <1>1 DEF IInv, SignalsListener, Listening, process_is_cachee, TypeOK, ChangePort
<1>6. WitnessInv'
  <2>1. \A u \in Terminals : term[u].witness \in Pids \cup {"none"}
    BY DEF IInv, TypeOK, TermState
  <2> QED
    BY <1>1, <2>1 DEF IInv, WitnessInv, Listening, ChangePort
<1>7. UndisturbedInv'
  BY <1>1 DEF UndisturbedInv
<1> QED
  BY <1>2, <1>3, <1>4, <1>5, <1>6, <1>7 DEF IInv

\* The invariant holds when nothing runs.
LEMMA IInvInit == Init => IInv
<1> SUFFICES ASSUME Init PROVE IInv
  OBVIOUS
<1>1. Dead \in ProcState /\ NoCommand \in TermState
  BY DEF Dead, ProcState, NoCommand, TermState
<1>2. \A p \in Pids : proc[p] = Dead
  BY DEF Init
<1>3. \A t \in Terminals : term[t] = NoCommand
  BY DEF Init
<1>4. TypeOK
  <2>1. used \in [births : 0..MaxBirths, commands : 0..MaxCommands, configs : 0..MaxConfigs]
    BY DaemonControlAssumption DEF Init
  <2> QED
    BY <1>1, <1>3, <2>1 DEF Init, TypeOK, NoCommand
<1>5. ProcInv /\ UndisturbedInv
  BY <1>2 DEF ProcInv, UndisturbedInv, Dead, Holds, Listening
<1>6. IdleInv /\ SignalsListener /\ WitnessInv
  BY <1>3 DEF IdleInv, SignalsListener, WitnessInv, NoCommand, Running
<1> QED
  BY <1>4, <1>5, <1>6 DEF IInv

\* Every step keeps it.
LEMMA IInvStep == IInv /\ [Next]_vars => IInv'
<1> SUFFICES ASSUME IInv, [Next]_vars PROVE IInv'
  OBVIOUS
<1>1. ASSUME NEW p \in Pids, ProcStep(p) PROVE IInv'
  BY <1>1, ProcStepKeeps
<1>2. ASSUME NEW t \in Terminals, TermStep(t) PROVE IInv'
  BY <1>2, TermStepKeeps
<1>3. ASSUME NEW port \in Ports, ChangePort(port) PROVE IInv'
  BY <1>3, ChangePortKeeps
<1>4. CASE UNCHANGED vars
  BY <1>4 DEF vars, IInv, TypeOK, ProcInv, Holds, Listening, IdleInv, Running, SignalsListener,
              process_is_cachee, WitnessInv, UndisturbedInv
<1> QED
  BY <1>1, <1>2, <1>3, <1>4 DEF Next, ProcStep, TermStep

\* Every reachable state satisfies it.
THEOREM Invariance == Spec => []IInv
BY IInvInit, IInvStep, PTL DEF Spec

-----------------------------------------------------------------------------
(* Theorems.                                                               *)

\* Every process and every command stays within its types.
THEOREM TypeCorrect == Spec => []TypeOK
BY Invariance, PTL DEF IInv

\* stop signals a listener of its port, and another program only by force, for
\* every number of processes and commands (daemon.rs:1253-1283).
THEOREM SignalsOnlyListener == Spec => []SignalsListener
BY Invariance, PTL DEF IInv

\* The pid file names a daemon that was left alone while it started for as long
\* as it listens on the configured port (daemon.rs:303-396).
THEOREM PidFileCorrect == Spec => []PidFileNamesListener
<1>1. IInv => PidFileNamesListener
  BY DEF IInv, UndisturbedInv, PidFileNamesListener, Listening
<1> QED
  BY <1>1, Invariance, PTL

\* A stop does not end before the daemon it was meant for is gone
\* (daemon.rs:1244-1290).
THEOREM StopEffective == Spec => StopKillsListener
<1>1. IInv /\ [Next]_vars =>
        [\A t \in Terminals :
            term[t].cmd = "stop" /\ term'[t].cmd = "none" => term[t].witness = "none"]_vars
  <2> SUFFICES ASSUME IInv, Next, NEW t \in Terminals,
                      term[t].cmd = "stop", term'[t].cmd = "none", term[t].witness # "none"
               PROVE  FALSE
    BY DEF vars
  <2> DEFINE w == term[t].witness
  <2>1. CommandInv(t) /\ w \in Pids
    BY CommandHas DEF IInv, TypeOK, TermState
  <2>2. term[t].at \in {"read", "check", "unlink", "find", "term"}
    BY <2>1 DEF CommandInv
  <2>3. CASE \E p \in Pids : ProcStep(p)
    <3>1. PICK p \in Pids : ProcStep(p)
      BY <2>3
    <3>2. CASE Die(p)
      BY <3>2, DieShape DEF IInv
    <3>3. CASE UNCHANGED term
      BY <3>3
    <3> QED
      BY <3>1, <3>2, <3>3
         DEF ProcStep, Start, OpenStore, OpenAudit, CreatePidFile, WritePidFile, Bind, Exit, StartForeign, Go
  <2>4. CASE \E port \in Ports : ChangePort(port)
    BY <2>4 DEF ChangePort
  <2>5. ASSUME NEW u \in Terminals \ {t}, TermStep(u) PROVE FALSE
    <3>1. term'[t] = term[t] \/ \E p \in Pids : term' = Bereft(p, [term EXCEPT ![u].at = "wait"])
      <4>1. CASE SendTerm(u)
        BY <2>5, <4>1 DEF SendTerm, IInv, TypeOK
      <4>2. CASE Wait(u)
        BY <2>5, <4>2 DEF Wait, AfterWait, Continue, Done, IInv, TypeOK
      <4> QED
        BY <2>5, <4>1, <4>2
           DEF TermStep, BeginCommand, ReadPidFile, CheckListener, DoctorProbe, UnlinkStale, FindListener,
               RemovePidFile, TryAudit, TryStore, CloseStore, Continue, Done, IInv, TypeOK
    <3>2. term'[t].cmd = term[t].cmd
      <4>1. ASSUME NEW p \in Pids, term' = Bereft(p, [term EXCEPT ![u].at = "wait"])
            PROVE  term'[t].cmd = term[t].cmd
        BY <2>5, <4>1, WaitingShape DEF IInv
      <4> QED
        BY <3>1, <4>1
    <3> QED
      BY <3>2
  <2>6. CASE TermStep(t)
    <3>1. Listening(w, term[t].port) /\ process_is_cachee(w)
      BY <2>1 DEF CommandInv, process_is_cachee
    <3>2. \A p \in Pids : Listening(p, term[t].port) => p = w
      BY <2>1, <3>1 DEF IInv, ProcInv, Listening
    <3>3. ASSUME NEW at \in Places, Continue(t, at) PROVE FALSE
      BY <3>3, ContinueShape DEF IInv
    <3>4. CASE FindListener(t)
      <4>1. ~((\A p \in Pids : ~Listening(p, term[t].port)) /\ Done(t))
        BY <2>1, <3>1
      <4>2. PICK p \in Pids : term' = [term EXCEPT ![t].at = "term", ![t].pid = p, ![t].via = "port"]
        BY <3>1, <3>2, <3>4, <4>1 DEF FindListener
      <4> QED
        BY <4>2, NotedShape DEF IInv
    <3>5. CASE ReadPidFile(t)
      <4>1. ~Continue(t, "find")
        BY <3>3 DEF Places
      <4>2. term' = [term EXCEPT ![t].at = "check", ![t].pid = pidfile, ![t].via = "file"]
        BY <3>5, <4>1 DEF ReadPidFile, Continue
      <4>3. pidfile \in Pids
        BY <3>5, <4>1 DEF ReadPidFile, Continue
      <4> QED
        BY <4>2, <4>3, NotedShape DEF IInv
    <3>6. CASE SendTerm(t)
      <4>1. PICK p \in {term[t].pid} : term' = Bereft(p, [term EXCEPT ![t].at = "wait"])
                                      \/ term' = [term EXCEPT ![t].at = "wait"]
        BY <3>6 DEF SendTerm
      <4>2. CASE term' = Bereft(p, [term EXCEPT ![t].at = "wait"])
        BY <4>2, WaitingShape DEF IInv
      <4>3. CASE term' = [term EXCEPT ![t].at = "wait"]
        BY <3>3, <4>3 DEF Continue, Places
      <4> QED
        BY <4>1, <4>2, <4>3
    <3>7. CASE CheckListener(t) \/ UnlinkStale(t)
      BY <3>3, <3>7 DEF CheckListener, UnlinkStale, Places
    <3> QED
      BY <2>2, <2>6, <3>4, <3>5, <3>6, <3>7
         DEF TermStep, BeginCommand, Running, DoctorProbe, At, Wait, RemovePidFile, TryAudit, TryStore, CloseStore
  <2> QED
    BY <2>3, <2>4, <2>5, <2>6 DEF Next, ProcStep, TermStep
<1> QED
  BY <1>1, Invariance, PTL DEF Spec, StopKillsListener
=============================================================================

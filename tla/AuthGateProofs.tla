--------------------------- MODULE AuthGateProofs ---------------------------
(***************************************************************************)
(* Theorems about the API key gate, for every number of keys and           *)
(* connections, whatever errors occur when the key directory is read.      *)
(*                                                                         *)
(* That a finished load does not bring a removed key back rests on what a  *)
(* load in progress has read so far: nothing that was removed before it    *)
(* began.                                                                  *)
(***************************************************************************)
EXTENDS AuthGate, TLAPS

LoadInv == reloader = "load" => missed \cap loaded = {}

IInv == TypeOK /\ LoadInv /\ RevocationReachesRegistry

CliStep(k) == StartCreate(k) \/ FinishCreate(k) \/ auth_revoke(k)

ConnStep(c) ==
    \/ Reconnect(c)
    \/ \E k \in Keys : handle_auth(c, k)
    \/ Receive(c)
    \/ Validate(c)
    \/ \E cmd \in Commands : Run(c, cmd)

\* The CLI only touches the files, and a removed file stays removed.
LEMMA CliFrame ==
    ASSUME TypeOK, NEW k \in Keys, CliStep(k)
    PROVE  /\ UNCHANGED <<reloaderVars, connVars>>
           /\ file' \in [Keys -> {"absent", "partial", "present", "removed"}]
           /\ Removed \subseteq Removed'
BY DEF TypeOK, CliStep, StartCreate, FinishCreate, auth_revoke, Removed

\* An answer keeps the types.
LEMMA AnswerTypes ==
    ASSUME TypeOK, NEW c \in Conns, NEW state \in ConnState, NEW text \in Reply,
           Answer(c, state, text)
    PROVE  conn' \in [Conns -> ConnState] /\ reply' \in [Conns -> Reply]
BY DEF TypeOK, Answer

\* A connection only touches its own state.
LEMMA ConnFrame ==
    ASSUME TypeOK, NEW c \in Conns, ConnStep(c)
    PROVE  /\ UNCHANGED <<cliVars, reloaderVars>>
           /\ \E state \in ConnState, text \in Reply : Answer(c, state, text)
<1> DEFINE Goal == /\ UNCHANGED <<cliVars, reloaderVars>>
                   /\ \E state \in ConnState, text \in Reply : Answer(c, state, text)
<1>1. conn[c] \in ConnState /\ FreshConn \in ConnState /\ NoAuthConn \in ConnState
  BY ConfigAssumption DEF TypeOK, ConnState, FreshConn, NoAuthConn
<1>2. \A place \in {"idle", "validate", "run"} :
         [conn[c] EXCEPT !.at = place] \in ConnState
  BY <1>1 DEF ConnState
<1>3. CASE Reconnect(c)
  <2>1. "none" \in Reply
    BY DEF Reply
  <2> QED
    BY <1>1, <1>3, <2>1 DEF Reconnect
<1>4. ASSUME NEW k \in Keys, handle_auth(c, k) PROVE Goal
  <2>1. "OK" \in Reply /\ "ERR" \in Reply
        /\ [authenticated |-> TRUE, key |-> k, at |-> "idle"] \in ConnState
    BY DEF Reply, ConnState
  <2> QED
    BY <1>1, <1>4, <2>1 DEF handle_auth
<1>5. CASE Receive(c)
  <2>1. "NOAUTH" \in Reply /\ "none" \in Reply
    BY DEF Reply
  <2> QED
    BY <1>1, <1>2, <1>5, <2>1 DEF Receive
<1>6. CASE Validate(c)
  <2>1. "NOAUTH" \in Reply /\ "none" \in Reply
    BY DEF Reply
  <2> QED
    BY <1>1, <1>2, <1>6, <2>1 DEF Validate
<1>7. ASSUME NEW cmd \in Commands, Run(c, cmd) PROVE Goal
  <2>1. "NOPERM" \in Reply /\ cmd \in Reply
    BY DEF Reply
  <2>2. PICK text \in Reply : Answer(c, [conn[c] EXCEPT !.at = "idle"], text)
    BY <1>7, <2>1 DEF Run
  <2> QED
    BY <1>2, <1>7, <2>2 DEF Run
<1> QED
  BY <1>3, <1>4, <1>5, <1>6, <1>7 DEF ConnStep

\* The invariant holds when the daemon starts.
LEMMA IInvInit == Init => IInv
BY KeysAssumption, ConfigAssumption
   DEF Init, IInv, TypeOK, LoadInv, RevocationReachesRegistry, FreshConn, Listed,
       Removed, ConnState, Reply

\* Each of the parties keeps it.
LEMMA IInvStep == IInv /\ [Next]_vars => IInv'
<1> SUFFICES ASSUME IInv, [Next]_vars PROVE IInv'
  OBVIOUS
<1> USE DEF IInv, LoadInv, RevocationReachesRegistry
<1>1. ASSUME NEW k \in Keys, CliStep(k) PROVE IInv'
  <2>1. UNCHANGED <<registry, reloader, listing, loaded, load, conn, reply, missed, outdated>>
    BY <1>1, CliFrame DEF reloaderVars, connVars
  <2> QED
    BY <1>1, <2>1, CliFrame DEF TypeOK
<1>2. CASE StartLoad
  <2>1. UNCHANGED <<file, registry, conn, reply, outdated>>
    BY <1>2 DEF StartLoad, cliVars, connVars
  <2>2. reloader' = "load" /\ loaded' = {} /\ missed' = Removed
    BY <1>2 DEF StartLoad
  <2>3. listing' \subseteq Keys /\ load' \in {"complete", "incomplete"}
    BY <1>2 DEF StartLoad, Listed
  <2>4. Removed' = Removed
    BY <2>1 DEF Removed
  <2>5. TypeOK'
    <3>1. missed' \subseteq Removed' /\ outdated' \subseteq Removed'
      BY <2>1, <2>2, <2>4 DEF TypeOK
    <3>2. reloader' \in {"sleep", "load"} /\ loaded' \subseteq Keys
      BY <2>2
    <3> QED
      BY <2>1, <2>3, <3>1, <3>2 DEF TypeOK
  <2>6. LoadInv' /\ RevocationReachesRegistry'
    BY <2>1, <2>2
  <2> QED
    BY <2>5, <2>6
<1>3. ASSUME NEW k \in Keys, ReadFile(k) PROVE IInv'
  <2>1. /\ UNCHANGED <<file, registry, reloader, conn, reply, missed, outdated>>
        /\ listing' \subseteq Keys /\ load' \in {"complete", "incomplete"}
        /\ \/ loaded' = loaded
           \/ file[k] = "present" /\ loaded' = loaded \cup {k}
    BY <1>3 DEF ReadFile, cliVars, connVars, TypeOK
  <2>2. file[k] = "present" => k \notin missed
    BY DEF TypeOK, Removed
  <2>3. Removed' = Removed /\ loaded' \subseteq Keys
    BY <2>1 DEF TypeOK, Removed
  <2>4. TypeOK'
    BY <2>1, <2>3 DEF TypeOK
  <2>5. missed \cap loaded' = {} \/ reloader # "load"
    BY <2>1, <2>2
  <2> QED
    BY <2>1, <2>4, <2>5
<1>4. CASE SwapRegistry
  <2>1. UNCHANGED <<file, listing, loaded, load, conn, reply, missed>>
        /\ reloader = "load" /\ reloader' = "sleep"
        /\ registry' = loaded /\ outdated' = missed
    BY <1>4 DEF SwapRegistry, cliVars, connVars
  <2> QED
    BY <2>1 DEF TypeOK, Removed
<1>5. ASSUME NEW c \in Conns, ConnStep(c) PROVE IInv'
  <2>1. UNCHANGED <<file, registry, reloader, listing, loaded, load, missed, outdated>>
    BY <1>5, ConnFrame DEF cliVars, reloaderVars
  <2> QED
    BY <1>5, <2>1, ConnFrame, AnswerTypes DEF TypeOK, Removed
<1>6. CASE UNCHANGED vars
  BY <1>6 DEF vars, cliVars, reloaderVars, connVars, TypeOK, Removed
<1> QED
  BY <1>1, <1>2, <1>3, <1>4, <1>5, <1>6 DEF Next, CliStep, ConnStep

\* Every reachable state of the gate satisfies it.
THEOREM Invariance == Spec => []IInv
BY IInvInit, IInvStep, PTL DEF Spec

\* Files, registry, load and connections always have their types.
THEOREM TypeCorrect == Spec => []TypeOK
<1>1. IInv => TypeOK
  BY DEF IInv
<1> QED
  BY <1>1, Invariance, PTL

\* A finished load never leaves a key in the registry that was removed before
\* the load began.
THEOREM RevocationCorrect == Spec => []RevocationReachesRegistry
<1>1. IInv => RevocationReachesRegistry
  BY DEF IInv
<1> QED
  BY <1>1, Invariance, PTL

\* No command passes re-validation with such a key.
THEOREM ValidationCorrect == Spec => ValidatedAgainstCurrent
<1> DEFINE Checked ==
      \A c \in Conns : require_auth /\ conn[c].at = "validate" /\ conn'[c].at = "run"
                         => conn[c].key \notin outdated
<1>1. IInv /\ [Next]_vars => [Checked]_vars
  <2> SUFFICES ASSUME IInv, Next, NEW c \in Conns, require_auth,
                      conn[c].at = "validate", conn'[c].at = "run"
               PROVE  conn[c].key \notin outdated
    OBVIOUS
  <2>1. Validate(c)
    <3>1. ASSUME NEW k \in Keys, CliStep(k) PROVE FALSE
      BY <3>1, CliFrame DEF IInv, connVars
    <3>2. ~(StartLoad \/ SwapRegistry)
      BY DEF StartLoad, SwapRegistry, connVars
    <3>3. ASSUME NEW k \in Keys, ReadFile(k) PROVE FALSE
      BY <3>3 DEF ReadFile, connVars
    <3>4. ASSUME NEW d \in Conns, ConnStep(d) PROVE d = c
      BY <3>4 DEF ConnStep, Reconnect, handle_auth, Receive, Validate, Run, Answer,
                  IInv, TypeOK
    <3>5. ConnStep(c)
      BY <3>1, <3>2, <3>3, <3>4 DEF Next, CliStep, ConnStep
    <3> QED
      BY <3>5 DEF ConnStep, Reconnect, handle_auth, Receive, Run
  <2>2. conn[c].key # NoKey => conn[c].key \in registry
    BY <2>1 DEF Validate, Answer, NoAuthConn, IInv, TypeOK
  <2>3. NoKey \notin outdated
    BY KeysAssumption DEF IInv, TypeOK, Removed
  <2> QED
    BY <2>2, <2>3 DEF IInv, RevocationReachesRegistry
<1> QED
  BY <1>1, Invariance, PTL DEF Spec, ValidatedAgainstCurrent

-----------------------------------------------------------------------------
(* A load that reads everything keeps every valid key: the file of a key    *)
(* that was ever read is whole or gone, and until the swap the key is among *)
(* those read or still to be read.                                          *)

KeepInv ==
    /\ \A k \in registry \cup loaded : file[k] \in {"present", "removed"}
    /\ reloader = "load" /\ load = "complete" =>
          \A k \in registry : file[k] = "present" => k \in listing \cup loaded

\* The daemon begins with the keys whose files are there.
LEMMA KeepInit == Init => KeepInv
BY DEF Init, KeepInv, Listed

\* Each party's steps keep it.
LEMMA KeepStep == IInv /\ KeepInv /\ [Next]_vars => KeepInv'
<1> SUFFICES ASSUME IInv, KeepInv, [Next]_vars PROVE KeepInv'
  OBVIOUS
<1>0. TypeOK
  BY DEF IInv
<1>1. ASSUME NEW k \in Keys, CliStep(k) PROVE KeepInv'
  <2>1. UNCHANGED <<registry, reloader, listing, loaded, load>>
    BY <1>0, <1>1, CliFrame DEF reloaderVars
  <2>2. \A j \in Keys : /\ file[j] \in {"present", "removed"} => file'[j] \in {"present", "removed"}
                        /\ file'[j] = "present" => file[j] \in {"partial", "present"}
    BY <1>0, <1>1 DEF CliStep, StartCreate, FinishCreate, auth_revoke, TypeOK
  <2> QED
    BY <1>0, <2>1, <2>2 DEF KeepInv, TypeOK
<1>2. CASE StartLoad
  <2>1. UNCHANGED <<file, registry>> /\ loaded' = {} /\ (load' = "complete" => listing' = Listed)
    BY <1>2 DEF StartLoad, cliVars
  <2> QED
    BY <1>0, <2>1 DEF KeepInv, TypeOK, Listed
<1>3. ASSUME NEW k \in Keys, ReadFile(k) PROVE KeepInv'
  <2>1. /\ UNCHANGED <<file, registry, reloader>> /\ listing' = listing \ {k}
        /\ \/ file[k] = "present" /\ loaded' = loaded \cup {k} /\ load' = load
           \/ file[k] # "present" /\ loaded' = loaded /\ load' = load
           \/ load' = "incomplete" /\ loaded' = loaded
    BY <1>3 DEF ReadFile, cliVars
  <2> QED
    BY <2>1 DEF KeepInv
<1>4. CASE SwapRegistry
  BY <1>4 DEF SwapRegistry, KeepInv, cliVars
<1>5. ASSUME NEW c \in Conns, ConnStep(c) PROVE KeepInv'
  BY <1>0, <1>5, ConnFrame DEF KeepInv, cliVars, reloaderVars
<1>6. CASE UNCHANGED vars
  BY <1>6 DEF vars, cliVars, reloaderVars, KeepInv
<1> QED
  BY <1>1, <1>2, <1>3, <1>4, <1>5, <1>6 DEF Next, CliStep, ConnStep

\* No interleaving of a reload that reads everything with creations and
\* revocations drops a key whose file is there (daemon.rs:174-252).
THEOREM ValidKeysKept == Spec => NoSpuriousRevocation
<1> DEFINE Kept == load = "complete" => \A k \in registry : file[k] = "present" => k \in registry'
<1>1. IInv /\ KeepInv /\ [Next]_vars => [Kept]_vars
  <2> SUFFICES ASSUME IInv, KeepInv, Next, load = "complete",
                      NEW k \in registry, file[k] = "present"
               PROVE  k \in registry'
    OBVIOUS
  <2>1. CASE SwapRegistry
    BY <2>1 DEF SwapRegistry, KeepInv
  <2>2. CASE registry' = registry
    BY <2>2
  <2>3. ASSUME NEW j \in Keys, CliStep(j) PROVE registry' = registry
    BY <2>3, CliFrame DEF IInv, reloaderVars
  <2>4. ASSUME NEW c \in Conns, ConnStep(c) PROVE registry' = registry
    BY <2>4, ConnFrame DEF IInv, reloaderVars
  <2>5. StartLoad \/ (\E j \in Keys : ReadFile(j)) => registry' = registry
    BY DEF StartLoad, ReadFile
  <2> QED
    BY <2>1, <2>2, <2>3, <2>4, <2>5 DEF Next, CliStep, ConnStep
<1>2. Spec => [](IInv /\ KeepInv)
  <2>1. Init => IInv /\ KeepInv
    BY IInvInit, KeepInit
  <2>2. IInv /\ KeepInv /\ [Next]_vars => (IInv /\ KeepInv)'
    BY IInvStep, KeepStep
  <2> QED
    BY <2>1, <2>2, PTL DEF Spec
<1> QED
  BY <1>1, <1>2, PTL DEF Spec, NoSpuriousRevocation
=============================================================================

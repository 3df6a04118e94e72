-------------------------- MODULE InstallationProofs --------------------------
(***************************************************************************)
(* TypeOK, SettingsAuthorised and KeysInOrder hold for any number of       *)
(* processes, commands, kills and changes of the subscription.             *)
(*                                                                         *)
(* What a configuration says has been carried there by a process that      *)
(* loaded it or was told it, so the invariant follows the settings through *)
(* the processes: the text, piece by piece, whatever was written over it;  *)
(* the configuration a process has loaded; the plan it was told.  The keys *)
(* are followed in the same way, from the init that writes them, file by   *)
(* file, to the start that reads them.                                     *)
(***************************************************************************)
EXTENDS Installation, SequenceTheorems, TLAPS

-----------------------------------------------------------------------------
(* The invariant.  seen are the plans the server has named, ask whether    *)
(* attest enable has been run.                                             *)

\* Somebody may have attestation on.
AttestOK(seen, ask) == ask = "yes" \/ seen \ {"free", "payg"} # {}

Sections == {"yes", "no", "hole"} \cup Plans

\* s may stand as section i of the text.
SectionOK(i, s, seen, ask) ==
    /\ i = 1 => s \in {"yes", "no", "hole"} /\ (s = "yes" => AttestOK(seen, ask))
    /\ i = 2 => s \in seen \cup {"hole"}
TextOK(text, seen, ask) ==
    /\ text \in Seq(Sections)
    /\ Len(text) \in 0..2
    /\ \A i \in 1..Len(text) : SectionOK(i, text[i], seen, ask)

ConfigOK(c, seen, ask) ==
    /\ c \in [attest : {"yes", "no"}, tier : Plans]
    /\ c.attest = "yes" => AttestOK(seen, ask)
    /\ c.tier \in seen

\* The plan a command writes is one the server has named; upgrade waits for it.
ReplyOK(q, seen) ==
    /\ q.cmd \in {"plan sync", "verify"} => q.reply \in seen
    /\ q.cmd = "plan upgrade" => (q.at >= 4 => q.reply \in seen)

ProcType ==
    [cmd : Commands \cup {"none"}, at : Int, offset : -1..1, cfg : [attest : {"yes", "no"}, tier : Plans],
     reply : Plans, gen : Gens, alone : {"yes", "no"},
     keys : [KeyFiles \cup {Metadata} -> FileState]]

\* A process may be in state q.
ProcOK(q, seen, ask) ==
    /\ q \in ProcType
    /\ q.cmd # "none" => q.at \in 1..Len(Steps(q.cmd))
    /\ ConfigOK(q.cfg, seen, ask)
    /\ ReplyOK(q, seen)
    /\ q.cmd = "attest enable" => ask = "yes"

ServerOK ==
    /\ server.plan \in server.seen
    /\ "free" \in server.seen
    /\ server.seen \subseteq Plans
ProcsOK == DOMAIN proc = Procs /\ \A p \in Procs : ProcOK(proc[p], server.seen, asked)
ConfigTextOK == config.state \in {"absent", "present"} /\ config = [state |-> config.state, text |-> config.text]
                /\ TextOK(config.text, server.seen, asked)
CountsOK ==
    /\ used \in [commands : 0..MaxCommands, kills : 0..MaxKills, payments : 0..MaxPayments]
    /\ settled \in Gens
    /\ daemon.state \in {"none", "signing", "unsigned"}

InstallInv == ServerOK /\ ProcsOK /\ ConfigTextOK /\ files \in [Files -> FileState] /\ CountsOK

-----------------------------------------------------------------------------
(* The steps of the commands.                                              *)

\* A sequence is a function whose domain is an initial segment.
LEMMA SequenceOf ==
    ASSUME NEW S, NEW n \in Nat, NEW f, f = [i \in 1..n |-> f[i]], \A i \in 1..n : f[i] \in S
    PROVE  f \in Seq(S)
  OBVIOUS

\* Arithmetic of the steps.
LEMMA StepNumbers ==
    /\ \A n \in Nat : \A i \in 0..n : i < n => i + 1 \in 0..n /\ i + 2 \in 0..(n + 1)
    /\ \A n \in Nat : 0 \in 0..(n + 1)
    /\ \A l \in Nat : \A i \in 1..l : i # l => i + 1 \in 1..l
    /\ \A i \in Int : i + 1 \in Int /\ (i + 1 >= 4 => (i = 3 \/ i >= 4))
  OBVIOUS

\* Every command has a step.
LEMMA StepsNonEmpty == \A cmd \in Commands : Len(Steps(cmd)) \in Nat \ {0}
<1> SUFFICES ASSUME NEW cmd \in CommandNames PROVE Len(Steps(cmd)) \in Nat \ {0}
  BY InstallationAssumption
<1> DEFINE Names == KeyFiles \cup {Config, Identity, Metadata, NoFileName}
           S == [op : {"load", "write", "exists", "read"}, file : Names]
<1>2. ASSUME NEW op \in {"write", "read"}, NEW kind \in {"pub", "key"} PROVE ForEach(op, kind) \in Seq(S)
  <2>1. \A i \in 1..Len(FamilyOrder) : Step(op, <<FamilyOrder[i], kind>>) \in S
    BY InstallationAssumption DEF Step, KeyFiles, Family
  <2>2. ForEach(op, kind) = [i \in 1..Len(FamilyOrder) |-> Step(op, <<FamilyOrder[i], kind>>)]
    BY InstallationAssumption DEF ForEach
  <2>3. Len(FamilyOrder) \in Nat
    BY InstallationAssumption
  <2> HIDE DEF S
  <2> QED
    BY <2>1, <2>2, <2>3, SequenceOf
<1>3. /\ SaveConfig \in S /\ Load \in S /\ Step("write", Identity) \in S
      /\ Step("write", Metadata) \in S /\ Step("read", Metadata) \in S /\ Step("exists", NoFileName) \in S
  BY DEF SaveConfig, Load, Step
<1> HIDE DEF S, Names
<1>4. /\ << Step("write", Metadata) >> \in Seq(S)
      /\ << Step("read", Metadata) >> \in Seq(S)
      /\ << Step("exists", NoFileName) >> \in Seq(S)
  BY <1>3
<1>5. << SaveConfig, Step("write", Identity) >> \in Seq(S) /\ Len(<< SaveConfig, Step("write", Identity) >>) = 2
  BY <1>3
<1>6. << Load >> \in Seq(S) /\ Len(<< Load >>) = 1
  BY <1>3
<1>7. PqKeySet_save \in Seq(S)
  <2>1. ForEach("write", "pub") \in Seq(S) /\ ForEach("write", "key") \in Seq(S)
    BY <1>2
  <2>2. ForEach("write", "pub") \o ForEach("write", "key") \in Seq(S)
    BY <2>1, ConcatProperties
  <2> QED
    BY <1>4, <2>2, ConcatProperties DEF PqKeySet_save
<1>8. PqKeySet_load \in Seq(S)
  <2>0. ForEach("read", "pub") \in Seq(S) /\ ForEach("read", "key") \in Seq(S)
    BY <1>2
  <2>1. << Step("exists", NoFileName) >> \o ForEach("read", "pub") \in Seq(S)
    BY <1>4, <2>0, ConcatProperties
  <2>2. << Step("exists", NoFileName) >> \o ForEach("read", "pub") \o << Step("read", Metadata) >> \in Seq(S)
    BY <1>4, <2>1, ConcatProperties
  <2> QED
    BY <2>0, <2>2, ConcatProperties DEF PqKeySet_load
<1>9. Len(init) \in Nat \ {0}
  <2>1. Len(PqKeySet_save) \in Nat
    BY <1>7
  <2>2. Len(init) = 2 + Len(PqKeySet_save)
    BY <1>5, <1>7, ConcatProperties DEF init
  <2> QED
    BY <2>1, <2>2
<1>10. Len(start) \in Nat \ {0}
  <2>1. Len(PqKeySet_load) \in Nat
    BY <1>8
  <2>2. Len(start) = 1 + Len(PqKeySet_load)
    BY <1>6, <1>8, ConcatProperties DEF start
  <2> QED
    BY <2>1, <2>2
<1>11. /\ Len(attest_enable) = 3 /\ Len(attest_disable) = 2 /\ Len(signup) = 3 /\ Len(verify) = 6
       /\ Len(logout) = 1 /\ Len(upgrade) = 5 /\ Len(sync) = 4 /\ Len(tls_enable) = 4 /\ Len(rotate_keys) = 3
  BY DEF attest_enable, attest_disable, signup, verify, logout, upgrade, sync, tls_enable, rotate_keys
<1>12. Steps(cmd) \in {init, start, attest_enable, attest_disable, signup, verify, logout, upgrade, sync,
                       tls_enable, rotate_keys}
  BY DEF Steps, CommandNames
<1>13. \A x \in {attest_enable, attest_disable, signup, verify, logout, upgrade, sync, tls_enable, rotate_keys} :
          Len(x) \in Nat \ {0}
  <2> TAKE x \in {attest_enable, attest_disable, signup, verify, logout, upgrade, sync, tls_enable, rotate_keys}
  <2>1. Len(x) \in {1, 2, 3, 4, 5, 6}
    BY <1>11
  <2> QED
    BY <2>1
<1>14. \A x \in {init, start} : Len(x) \in Nat \ {0}
  BY <1>9, <1>10
<1> QED
  BY <1>12, <1>13, <1>14

\* upgrade polls at its third step and nowhere else; it chooses a plan at its second.
LEMMA UpgradeSteps ==
    /\ Len(Steps("plan upgrade")) = 5
    /\ \A i \in 1..5 : /\ Steps("plan upgrade")[i].op = "poll" <=> i = 3
                       /\ Steps("plan upgrade")[i].op = "checkout" <=> i = 2
                       /\ Steps("plan upgrade")[i].op = "write" <=> i = 5
  BY DEF Steps, upgrade, Step, Load, SaveConfig

\* The other commands that write a plan ask the server for it.
LEMMA AskingSteps ==
    /\ Len(Steps("plan sync")) = 4 /\ \A i \in 1..4 : Steps("plan sync")[i].op # "checkout"
    /\ Len(Steps("verify")) = 6 /\ \A i \in 1..6 : Steps("verify")[i].op # "checkout"
  BY DEF Steps, sync, verify, Step, Load, SaveConfig, AskServer

-----------------------------------------------------------------------------
(* What keeps the invariant's parts.                                       *)

\* A plan the server names, or an attest enable, takes no permission away.
LEMMA MoreIsAuthorised ==
    ASSUME NEW seen, NEW more, seen \subseteq more, NEW ask, NEW asks, ask = "yes" => asks = "yes"
    PROVE  /\ \A q : ProcOK(q, seen, ask) => ProcOK(q, more, asks)
           /\ \A text : TextOK(text, seen, ask) => TextOK(text, more, asks)
<1>1. AttestOK(seen, ask) => AttestOK(more, asks)
  BY DEF AttestOK
<1>2. \A c : ConfigOK(c, seen, ask) => ConfigOK(c, more, asks)
  BY <1>1 DEF ConfigOK
<1>3. \A q : ReplyOK(q, seen) => ReplyOK(q, more)
  BY DEF ReplyOK
<1>4. \A q : ProcOK(q, seen, ask) => ProcOK(q, more, asks)
  BY <1>2, <1>3 DEF ProcOK
<1>5. \A i, s : SectionOK(i, s, seen, ask) => SectionOK(i, s, more, asks)
  BY <1>1 DEF SectionOK
<1>6. \A text : TextOK(text, seen, ask) => TextOK(text, more, asks)
  BY <1>5 DEF TextOK
<1> QED
  BY <1>4, <1>6

\* A process that has nothing to do is in order.
LEMMA IdleOK == ASSUME NEW seen, "free" \in seen, NEW ask PROVE ProcOK(Idle, seen, ask)
<1>1. NoFile \in FileState
  BY InstallationAssumption DEF NoFile, FileState, Gens, Overlapped
<1>2. NoKeys \in [KeyFiles \cup {Metadata} -> FileState]
  BY <1>1 DEF NoKeys
<1>3. DefaultConfig \in [attest : {"yes", "no"}, tier : Plans]
  BY DEF DefaultConfig, Plans
<1>4. Idle \in ProcType
  BY <1>2, <1>3, InstallationAssumption DEF Idle, ProcType, Plans, Gens, Overlapped
<1>5. Idle.cmd = "none" /\ Idle.cfg = DefaultConfig
  BY DEF Idle
<1>6. ConfigOK(Idle.cfg, seen, ask)
  BY <1>3, <1>5 DEF ConfigOK, DefaultConfig
<1>7. ReplyOK(Idle, seen)
  BY <1>5 DEF ReplyOK
<1> QED
  BY <1>4, <1>5, <1>6, <1>7 DEF ProcOK

\* So is one that advances, if it does not leave the payment behind unheard.
LEMMA AdvanceOK ==
    ASSUME NEW p \in Procs, NEW q, InstallInv, Advance(p, q), ProcOK(q, server.seen, asked),
           q.cmd # "none", (q.cmd = "plan upgrade" /\ q.at = 3) => q.reply \in server.seen
    PROVE  /\ DOMAIN proc' = Procs
           /\ \A r \in Procs : ProcOK(proc'[r], server.seen, asked)
           /\ settled' \in Gens
<1> DEFINE n == [q EXCEPT !.at = @ + 1]
           seen == server.seen
<1>0. q \in ProcType
  BY DEF ProcOK
<1>1. q.at \in 1..Len(Steps(q.cmd)) /\ Len(Steps(q.cmd)) \in Nat /\ q.at \in Int
  <2>1. q.cmd \in Commands /\ q.at \in Int
    BY <1>0 DEF ProcType
  <2> QED
    BY <2>1, StepsNonEmpty DEF ProcOK
<1>2. n \in ProcType /\ n.cmd = q.cmd /\ n.at = q.at + 1 /\ n.reply = q.reply /\ n.cfg = q.cfg
  <2>1. n.cmd = q.cmd /\ n.at = q.at + 1 /\ n.reply = q.reply /\ n.cfg = q.cfg
    BY <1>0 DEF ProcType
  <2>2. q.at + 1 \in Int
    BY <1>1, StepNumbers
  <2>3. n \in ProcType
    BY <1>0, <2>2 DEF ProcType
  <2> QED
    BY <2>1, <2>3
<1>3. ASSUME q.at # Len(Steps(q.cmd)) PROVE ProcOK(n, seen, asked)
  <2>2. n.at \in 1..Len(Steps(n.cmd))
    BY <1>1, <1>2, <1>3, StepNumbers
  <2>3. ReplyOK(n, seen)
    <3>1. ReplyOK(q, seen)
      BY DEF ProcOK
    <3>2. q.cmd = "plan upgrade" => (q.at + 1 >= 4 => q.reply \in seen)
      <4>1. q.at + 1 >= 4 => (q.at = 3 \/ q.at >= 4)
        BY <1>1, StepNumbers
      <4> QED
        BY <3>1, <4>1 DEF ReplyOK
    <3> QED
      BY <1>2, <3>1, <3>2 DEF ReplyOK
  <2> HIDE DEF n
  <2> QED
    BY <1>2, <2>2, <2>3 DEF ProcOK
<1>4. proc' = [proc EXCEPT ![p] = IF q.at = Len(Steps(q.cmd)) THEN Idle ELSE n]
  BY DEF Advance
<1>5. ProcOK(Idle, seen, asked)
  BY IdleOK DEF InstallInv, ServerOK
<1>6. settled' \in Gens
  BY <1>0 DEF Advance, InstallInv, CountsOK, ProcType
<1> HIDE DEF n, seen
<1>7. \A r \in Procs : ProcOK(proc'[r], seen, asked)
  <2> TAKE r \in Procs
  <2>1. CASE r = p
    BY <1>3, <1>4, <1>5, <2>1 DEF InstallInv, ProcsOK
  <2>2. CASE r # p
    BY <1>4, <2>2 DEF InstallInv, ProcsOK, seen
  <2> QED
    BY <2>1, <2>2
<1> QED
  BY <1>4, <1>6, <1>7 DEF InstallInv, ProcsOK, seen

\* And one that ends.
LEMMA AbortOK ==
    ASSUME NEW p \in Procs, InstallInv, Abort(p)
    PROVE  /\ DOMAIN proc' = Procs
           /\ \A r \in Procs : ProcOK(proc'[r], server.seen, asked)
           /\ settled' \in Gens
<1>1. ProcOK(Idle, server.seen, asked)
  BY IdleOK DEF InstallInv, ServerOK
<1> QED
  BY <1>1 DEF Abort, InstallInv, ProcsOK, CountsOK

\* What a process has a step for is in order, and beyond its payment only if paid.
LEMMA RunningOK ==
    ASSUME NEW p \in Procs, InstallInv, NEW op, Doing(p, op)
    PROVE  /\ ProcOK(proc[p], server.seen, asked) /\ proc[p].cmd # "none"
           /\ (op # "poll" /\ proc[p].cmd = "plan upgrade") => proc[p].at # 3
           /\ (op = "write" /\ proc[p].cmd = "plan upgrade") => proc[p].reply \in server.seen
           /\ op = "checkout" => /\ proc[p].cmd \notin {"plan sync", "verify"}
                                 /\ (proc[p].cmd = "plan upgrade" => proc[p].at = 2)
<1>1. ProcOK(proc[p], server.seen, asked) /\ proc[p].cmd # "none"
  BY DEF InstallInv, ProcsOK, Doing, Running
<1>2. Steps(proc[p].cmd)[proc[p].at].op = op /\ proc[p].at \in 1..Len(Steps(proc[p].cmd))
  BY <1>1 DEF ProcOK, Doing, Current
<1>3. ReplyOK(proc[p], server.seen)
  BY <1>1 DEF ProcOK
<1>4. ASSUME proc[p].cmd = "plan upgrade"
      PROVE  /\ proc[p].at \in 1..5
             /\ op = "poll" <=> proc[p].at = 3
             /\ op = "checkout" <=> proc[p].at = 2
             /\ op = "write" <=> proc[p].at = 5
  <2>1. Steps("plan upgrade")[proc[p].at].op = op /\ proc[p].at \in 1..5
    BY <1>2, <1>4, UpgradeSteps
  <2> QED
    BY <2>1, UpgradeSteps
<1>5. ASSUME proc[p].cmd \in {"plan sync", "verify"} PROVE op # "checkout"
  BY <1>2, <1>5, AskingSteps
<1>6. proc[p].cmd = "plan upgrade" => (proc[p].at >= 4 => proc[p].reply \in server.seen)
  BY <1>3 DEF ReplyOK
<1>7. ASSUME op = "write", proc[p].cmd = "plan upgrade" PROVE proc[p].reply \in server.seen
  <2>1. proc[p].at = 5
    BY <1>4, <1>7
  <2>2. proc[p].at >= 4
    BY <2>1
  <2> QED
    BY <1>6, <1>7, <2>2
<1>8. ASSUME op # "poll", proc[p].cmd = "plan upgrade" PROVE proc[p].at # 3
  BY <1>4, <1>8
<1>9. ASSUME op = "checkout"
      PROVE  proc[p].cmd \notin {"plan sync", "verify"} /\ (proc[p].cmd = "plan upgrade" => proc[p].at = 2)
  BY <1>4, <1>5, <1>9
<1> QED
  BY <1>1, <1>7, <1>8, <1>9

\* Fields the invariant says no more of than their type may change.
LEMMA OtherFieldsOK ==
    ASSUME NEW q, NEW r, NEW seen, NEW ask, ProcOK(q, seen, ask), r \in ProcType,
           r.cmd = q.cmd, r.at = q.at, r.reply = q.reply, r.cfg = q.cfg
    PROVE  ProcOK(r, seen, ask)
<1>1. ReplyOK(r, seen)
  BY DEF ProcOK, ReplyOK
<1> QED
  BY <1>1 DEF ProcOK

\* One process changes and is still in order.
LEMMA OneProcess ==
    ASSUME NEW p \in Procs, NEW q, InstallInv, proc' = [proc EXCEPT ![p] = q], ProcOK(q, server.seen, asked)
    PROVE  DOMAIN proc' = Procs /\ \A r \in Procs : ProcOK(proc'[r], server.seen, asked)
  BY DEF InstallInv, ProcsOK

-----------------------------------------------------------------------------
(* The text of the configuration.                                          *)

\* A section that is in order may be written over any text that is.
LEMMA WriteOK ==
    ASSUME NEW seen \in SUBSET Plans, NEW ask, NEW text, TextOK(text, seen, ask),
           NEW n \in 1..2, NEW s, SectionOK(n, s, seen, ask)
    PROVE  TextOK(WriteAt(text, n, s), seen, ask)
<1> DEFINE k == IF n > Len(text) THEN n ELSE Len(text)
           new == [i \in 1..k |-> IF i = n THEN s ELSE IF i <= Len(text) THEN text[i] ELSE "hole"]
<1>1. WriteAt(text, n, s) = new
  BY DEF WriteAt
<1>2. k \in Nat /\ k \in 0..2
  BY DEF TextOK
<1>3. s \in Sections
  BY DEF SectionOK, Sections
<1>4. \A i : SectionOK(i, "hole", seen, ask)
  BY DEF SectionOK
<1>5. \A i \in 1..Len(text) : text[i] \in Sections /\ SectionOK(i, text[i], seen, ask)
  BY DEF TextOK
<1>6. \A i \in 1..k : new[i] \in Sections /\ SectionOK(i, new[i], seen, ask)
  <2> TAKE i \in 1..k
  <2>1. CASE i = n
    BY <1>3, <2>1
  <2>2. CASE i # n /\ i <= Len(text)
    <3>1. i \in 1..Len(text)
      BY <1>2, <2>2 DEF TextOK
    <3>2. new[i] = text[i]
      BY <2>2
    <3> HIDE DEF new, k
    <3> QED
      BY <1>5, <3>1, <3>2
  <2>3. CASE i # n /\ ~(i <= Len(text))
    <3>1. new[i] = "hole"
      BY <2>3
    <3>2. "hole" \in Sections
      BY DEF Sections
    <3> HIDE DEF new, k
    <3> QED
      BY <1>4, <3>1, <3>2
  <2> QED
    BY <2>1, <2>2, <2>3
<1>7. new = [i \in 1..k |-> new[i]]
  OBVIOUS
<1> HIDE DEF new, k
<1>8. new \in Seq(Sections)
  BY <1>2, <1>6, <1>7, SequenceOf
<1>9. Len(new) = k
  BY <1>2, <1>7, <1>8
<1> QED
  BY <1>1, <1>2, <1>6, <1>8, <1>9 DEF TextOK

\* What is loaded may be set.
LEMMA LoadedOK ==
    ASSUME NEW seen \in SUBSET Plans, NEW ask, TextOK(config.text, seen, ask), Loads
    PROVE  ConfigOK(LoadedConfig, seen, ask)
<1>1. /\ SectionOK(1, config.text[1], seen, ask) /\ config.text[1] # "hole"
      /\ SectionOK(2, config.text[2], seen, ask) /\ config.text[2] # "hole"
  BY DEF TextOK, Loads
<1>2. config.text[1] \in {"yes", "no"} /\ (config.text[1] = "yes" => AttestOK(seen, ask))
  BY <1>1 DEF SectionOK
<1>3. config.text[2] \in seen
  BY <1>1 DEF SectionOK
<1> QED
  BY <1>2, <1>3 DEF ConfigOK, LoadedConfig

\* What a command writes may be set.
LEMMA NewConfigOK ==
    ASSUME NEW p \in Procs, InstallInv, Doing(p, "write")
    PROVE  ConfigOK(NewConfig(proc[p]), server.seen, asked)
<1> DEFINE q == proc[p]
<1>1. ProcOK(q, server.seen, asked) /\ (q.cmd = "plan upgrade" => q.reply \in server.seen)
  BY RunningOK
<1>2. ConfigOK(q.cfg, server.seen, asked) /\ (q.cmd = "attest enable" => asked = "yes")
  BY <1>1 DEF ProcOK
<1>3. q.cmd \in {"plan upgrade", "plan sync", "verify"} => q.reply \in server.seen
  BY <1>1 DEF ProcOK, ReplyOK
<1>4. server.seen \subseteq Plans /\ "free" \in server.seen
  BY DEF InstallInv, ServerOK
<1> HIDE DEF q
<1>5. CASE q.cmd = "init"
  BY <1>4, <1>5 DEF NewConfig, DefaultConfig, ConfigOK, q
<1>6. CASE q.cmd = "attest enable"
  <2>1. NewConfig(q) = [q.cfg EXCEPT !.attest = "yes"]
    BY <1>6 DEF NewConfig
  <2> QED
    BY <1>2, <1>6, <2>1 DEF ConfigOK, AttestOK, q
<1>7. CASE q.cmd = "attest disable"
  <2>1. NewConfig(q) = [q.cfg EXCEPT !.attest = "no"]
    BY <1>7 DEF NewConfig
  <2> QED
    BY <1>2, <2>1 DEF ConfigOK, q
<1>8. CASE q.cmd \in {"plan upgrade", "plan sync"}
  <2>1. NewConfig(q) = WithPlan(q.cfg, q.reply)
    BY <1>8 DEF NewConfig
  <2>2. q.reply \in server.seen
    BY <1>3, <1>8
  <2>3. q.reply \notin {"free", "payg"} => AttestOK(server.seen, asked)
    BY <2>2 DEF AttestOK
  <2>4. q.reply \in {"free", "payg"} => NewConfig(q) = [attest |-> q.cfg.attest, tier |-> q.reply]
    BY <2>1 DEF WithPlan
  <2>5. q.reply \notin {"free", "payg"} => NewConfig(q) = [attest |-> "yes", tier |-> q.reply]
    BY <2>1 DEF WithPlan
  <2>6. CASE q.reply \in {"free", "payg"}
    <3>1. q.cfg.attest \in {"yes", "no"} /\ (q.cfg.attest = "yes" => AttestOK(server.seen, asked))
      BY <1>2 DEF ConfigOK
    <3> QED
      BY <1>4, <2>2, <2>4, <2>6, <3>1 DEF ConfigOK, q
  <2>7. CASE q.reply \notin {"free", "payg"}
    BY <1>4, <2>2, <2>3, <2>5, <2>7 DEF ConfigOK, q
  <2> QED
    BY <2>6, <2>7
<1>9. CASE q.cmd = "verify"
  <2>1. NewConfig(q) = [q.cfg EXCEPT !.tier = q.reply]
    BY <1>9 DEF NewConfig
  <2>2. q.reply \in server.seen
    BY <1>3, <1>9
  <2> QED
    BY <1>2, <1>4, <2>1, <2>2 DEF ConfigOK, q
<1>10. CASE q.cmd \notin {"init", "attest enable", "attest disable", "plan upgrade", "plan sync", "verify"}
  <2>1. NewConfig(q) = q.cfg
    BY <1>10 DEF NewConfig
  <2> QED
    BY <1>2, <2>1 DEF q
<1> QED
  BY <1>5, <1>6, <1>7, <1>8, <1>9, <1>10

-----------------------------------------------------------------------------
(* The invariant holds.                                                    *)

\* Initially.
LEMMA InstallInit == Init => InstallInv
<1> SUFFICES ASSUME Init PROVE InstallInv
  OBVIOUS
<1>1. ServerOK
  BY DEF Init, ServerOK, Plans
<1>2. ProcsOK
  <2>1. ProcOK(Idle, server.seen, asked)
    BY <1>1, IdleOK DEF ServerOK
  <2> QED
    BY <2>1 DEF Init, ProcsOK
<1>3. ConfigTextOK
  <2>1. CASE Empty
    BY <2>1 DEF Empty, ConfigTextOK, TextOK
  <2>2. CASE SignedUp
    <3>1. config = [state |-> "present", text |-> <<"no", "free">>]
      BY <2>2 DEF SignedUp, ConfigText, DefaultConfig
    <3>2. config.text \in Seq(Sections) /\ Len(config.text) = 2
      BY <3>1 DEF Sections, Plans
    <3>3. \A i \in 1..2 : SectionOK(i, config.text[i], server.seen, asked)
      BY <1>1, <3>1 DEF SectionOK, ServerOK
    <3> QED
      BY <3>1, <3>2, <3>3 DEF ConfigTextOK, TextOK
  <2> QED
    BY <2>1, <2>2 DEF Init
<1>4. files \in [Files -> FileState]
  BY InstallationAssumption DEF Init, Empty, SignedUp, FileState, NoFile, Gens, Overlapped
<1>5. CountsOK
  BY InstallationAssumption DEF Init, Empty, SignedUp, CountsOK, Gens, Overlapped
<1> QED
  BY <1>1, <1>2, <1>3, <1>4, <1>5 DEF InstallInv

\* A step that leaves the settings, the server and the files alone.
LEMMA SettingsAlone ==
    ASSUME InstallInv, UNCHANGED <<config, server, asked>>
    PROVE  /\ ServerOK'
           /\ ConfigTextOK'
           /\ (DOMAIN proc' = Procs /\ \A r \in Procs : ProcOK(proc'[r], server.seen, asked)) => ProcsOK'
  BY DEF InstallInv, ServerOK, ConfigTextOK, ProcsOK

\* A command begins: what others have been told stays in order.
LEMMA BeginStep == ASSUME InstallInv, NEW p \in Procs, NEW cmd \in Commands, Begin(p, cmd) PROVE InstallInv'
<1>1. ServerOK' /\ (files \in [Files -> FileState])'
  BY DEF Begin, InstallInv, ServerOK
<1>2. asked = "yes" => asked' = "yes"
  BY DEF Begin
<1>3. ConfigTextOK'
  <2>1. TextOK(config.text, server.seen, asked')
    BY <1>2, MoreIsAuthorised DEF InstallInv, ConfigTextOK
  <2> QED
    BY <2>1 DEF Begin, InstallInv, ConfigTextOK
<1>4. /\ used.commands + 1 \in 0..MaxCommands /\ used.commands + 2 \in Gens
      /\ settled \in Gens /\ 0 \in Gens /\ Overlapped \in Gens
  <2>1. used.commands \in 0..MaxCommands /\ used.commands < MaxCommands /\ settled \in Gens /\ MaxCommands \in Nat
    BY InstallationAssumption DEF Begin, InstallInv, CountsOK
  <2>2. \A n \in Nat : \A i \in 0..n : i < n => i + 1 \in 0..n /\ i + 2 \in -1..(n + 1)
    OBVIOUS
  <2>3. \A n \in Nat : {-1, 0} \subseteq -1..(n + 1)
    OBVIOUS
  <2> QED
    BY <2>1, <2>2, <2>3 DEF Gens, Overlapped
<1>5. CountsOK'
  <2>1. used' = [used EXCEPT !.commands = used.commands + 1]
    BY DEF Begin
  <2>2. (used \in [commands : 0..MaxCommands, kills : 0..MaxKills, payments : 0..MaxPayments])'
    BY <1>4, <2>1 DEF InstallInv, CountsOK
  <2>3. (settled \in Gens)' /\ UNCHANGED daemon
    BY <1>4 DEF Begin
  <2> QED
    BY <2>2, <2>3 DEF InstallInv, CountsOK
<1>6. \A r \in Procs : ProcOK(proc[r], server.seen, asked')
  BY <1>2, MoreIsAuthorised DEF InstallInv, ProcsOK
<1>7. ProcOK(Idle, server.seen, asked') /\ Idle \in ProcType
  BY IdleOK DEF InstallInv, ServerOK, ProcOK
<1> DEFINE gen == IF cmd # "start" THEN used.commands + 2 ELSE IF InitRunning THEN Overlapped ELSE settled
           alone == IF InitRunning THEN "no" ELSE "yes"
           new == [Idle EXCEPT !.cmd = cmd, !.at = 1, !.gen = gen, !.alone = alone]
<1>8. ProcOK(new, server.seen, asked')
  <2>1. gen \in Gens /\ alone \in {"yes", "no"}
    BY <1>4
  <2> HIDE DEF gen, alone
  <2>2. /\ new \in ProcType /\ new.cmd = cmd /\ new.at = 1
        /\ new.reply = Idle.reply /\ new.cfg = Idle.cfg
    <3>1. PICK idle \in ProcType : idle = Idle
      BY <1>7
    <3>2. new = [idle EXCEPT !.cmd = cmd, !.at = 1, !.gen = gen, !.alone = alone]
      BY <3>1
    <3> HIDE DEF new
    <3>3. new \in ProcType
      <4>1. [idle EXCEPT !.cmd = cmd] \in ProcType
        BY DEF ProcType
      <4>2. \A r \in ProcType : [r EXCEPT !.at = 1] \in ProcType
        BY DEF ProcType
      <4>3. \A r \in ProcType : [r EXCEPT !.gen = gen, !.alone = alone] \in ProcType
        BY <2>1 DEF ProcType
      <4>4. new = [[[idle EXCEPT !.cmd = cmd] EXCEPT !.at = 1] EXCEPT !.gen = gen, !.alone = alone]
        BY <3>2
      <4> QED
        BY <4>1, <4>2, <4>3, <4>4
    <3>4. new.cmd = cmd /\ new.at = 1 /\ new.reply = idle.reply /\ new.cfg = idle.cfg
      BY <2>1, <3>2 DEF ProcType
    <3> QED
      BY <3>1, <3>3, <3>4
  <2>3. Idle.reply = "free" /\ "free" \in server.seen
    BY DEF Idle, InstallInv, ServerOK
  <2>4. new.cmd = "attest enable" => asked' = "yes"
    BY <2>2 DEF Begin
  <2> HIDE DEF new
  <2>5. new.at \in 1..Len(Steps(new.cmd))
    <3>1. \A l \in Nat \ {0} : 1 \in 1..l
      OBVIOUS
    <3> QED
      BY <2>2, <3>1, StepsNonEmpty
  <2>6. ReplyOK(new, server.seen)
    BY <2>2, <2>3 DEF ReplyOK
  <2> QED
    BY <1>7, <2>2, <2>4, <2>5, <2>6 DEF ProcOK
<1> DEFINE other(r) == [proc[r] EXCEPT !.alone = "no", !.gen = IF proc[r].cmd = "start" THEN Overlapped ELSE @]
<1>9. \A r \in Procs : ProcOK(other(r), server.seen, asked')
  <2> TAKE r \in Procs
  <2>1. proc[r] \in ProcType /\ ProcOK(proc[r], server.seen, asked')
    BY <1>6 DEF ProcOK
  <2>2. /\ other(r) \in ProcType /\ other(r).cmd = proc[r].cmd /\ other(r).at = proc[r].at
        /\ other(r).reply = proc[r].reply /\ other(r).cfg = proc[r].cfg
    BY <1>4, <2>1 DEF ProcType
  <2> HIDE DEF other
  <2> QED
    BY <2>1, <2>2, OtherFieldsOK
<1>10. proc' = [r \in Procs |-> IF r = p THEN new ELSE IF cmd # "init" THEN proc[r] ELSE other(r)]
  BY DEF Begin
<1> HIDE DEF new, other
<1>11. DOMAIN proc' = Procs /\ \A r \in Procs : ProcOK(proc'[r], server.seen, asked')
  BY <1>6, <1>8, <1>9, <1>10
<1>12. ProcsOK'
  BY <1>11 DEF ProcsOK, Begin
<1> QED
  BY <1>1, <1>3, <1>5, <1>12 DEF InstallInv

\* A configuration is loaded.
LEMMA LoadStep == ASSUME InstallInv, NEW p \in Procs, LoadConfig(p) PROVE InstallInv'
<1> DEFINE q == [proc[p] EXCEPT !.cfg = LoadedConfig]
<1>1. UNCHANGED <<config, files, server, daemon, asked, used>>
  BY DEF LoadConfig
<1>2. /\ DOMAIN proc' = Procs /\ \A r \in Procs : ProcOK(proc'[r], server.seen, asked)
      /\ settled' \in Gens
  <2>1. CASE ~Loads
    BY <2>1, AbortOK DEF LoadConfig
  <2>2. CASE Loads
    <3>0. Doing(p, "load")
      BY DEF LoadConfig
    <3>1. /\ ProcOK(proc[p], server.seen, asked) /\ proc[p].cmd # "none"
          /\ (proc[p].cmd = "plan upgrade" => proc[p].at # 3)
      <4>1. ProcOK(proc[p], server.seen, asked) /\ proc[p].cmd # "none"
        BY <3>0, RunningOK
      <4>2. proc[p].cmd = "plan upgrade" => proc[p].at # 3
        BY <3>0, RunningOK, "load" # "poll"
      <4> QED
        BY <4>1, <4>2
    <3>2. ConfigOK(LoadedConfig, server.seen, asked)
      BY <2>2, LoadedOK DEF InstallInv, ServerOK, ConfigTextOK
    <3>3. proc[p] \in ProcType /\ LoadedConfig \in [attest : {"yes", "no"}, tier : Plans]
      BY <3>1, <3>2 DEF ProcOK, ConfigOK
    <3>4. q \in ProcType /\ q.cmd = proc[p].cmd /\ q.at = proc[p].at /\ q.reply = proc[p].reply /\ q.cfg = LoadedConfig
      BY <3>3 DEF ProcType
    <3>5. Advance(p, q)
      BY <2>2 DEF LoadConfig
    <3> HIDE DEF q
    <3>6. ReplyOK(q, server.seen)
      BY <3>1, <3>4 DEF ProcOK, ReplyOK
    <3>7. ProcOK(q, server.seen, asked)
      BY <3>1, <3>2, <3>4, <3>6 DEF ProcOK
    <3> QED
      BY <3>1, <3>4, <3>5, <3>7, AdvanceOK
  <2> QED
    BY <2>1, <2>2
<1>3. CountsOK'
  BY <1>1, <1>2 DEF InstallInv, CountsOK
<1> QED
  BY <1>1, <1>2, <1>3, SettingsAlone DEF InstallInv

\* A file is truncated or removed, which no setting is in; or the configuration is.
LEMMA TruncateStep == ASSUME InstallInv, NEW p \in Procs, Truncate(p) PROVE InstallInv'
<1> DEFINE q == [proc[p] EXCEPT !.offset = 0]
<1>1. ProcOK(proc[p], server.seen, asked)
  BY DEF InstallInv, ProcsOK
<1>2. q \in ProcType /\ q.cmd = proc[p].cmd /\ q.at = proc[p].at /\ q.reply = proc[p].reply /\ q.cfg = proc[p].cfg
  <2>1. proc[p] \in ProcType
    BY <1>1 DEF ProcOK
  <2> QED
    BY <2>1 DEF ProcType
<1>3. proc' = [proc EXCEPT ![p] = q]
  BY DEF Truncate
<1> HIDE DEF q
<1>4. ProcsOK'
  <2>1. ProcOK(q, server.seen, asked)
    BY <1>1, <1>2, OtherFieldsOK
  <2>2. DOMAIN proc' = Procs /\ \A r \in Procs : ProcOK(proc'[r], server.seen, asked)
    BY <1>3, <2>1, OneProcess
  <2> QED
    BY <2>2 DEF ProcsOK, Truncate
<1>5. ServerOK' /\ CountsOK'
  BY DEF Truncate, InstallInv, ServerOK, CountsOK
<1>6. CASE Current(p).file = Config
  <2>1. config' = [state |-> "present", text |-> << >>] /\ UNCHANGED <<files, server, asked>>
    BY <1>6 DEF Truncate
  <2>2. ConfigTextOK'
    BY <2>1 DEF ConfigTextOK, TextOK
  <2> QED
    BY <1>4, <1>5, <2>1, <2>2 DEF InstallInv
<1>7. CASE Current(p).file # Config
  <2>1. files' = [files EXCEPT ![Current(p).file] = [state |-> "cut", gen |-> proc[p].gen]] /\ UNCHANGED <<config, server, asked>>
    BY <1>7 DEF Truncate
  <2>2. [state |-> "cut", gen |-> proc[p].gen] \in FileState
    <3>1. proc[p].gen \in Gens
      BY <1>1 DEF ProcOK, ProcType
    <3> QED
      BY <3>1 DEF FileState
  <2>3. (files \in [Files -> FileState])' /\ ConfigTextOK'
    BY <2>1, <2>2 DEF InstallInv, ConfigTextOK
  <2> QED
    BY <1>4, <1>5, <2>3 DEF InstallInv
<1> QED
  BY <1>6, <1>7

\* A section of the configuration is written.
LEMMA WriteConfigStep == ASSUME InstallInv, NEW p \in Procs, WriteConfig(p) PROVE InstallInv'
<1> DEFINE n == proc[p].offset + 1
           c == NewConfig(proc[p])
           section == ConfigText(c)[n]
<1>1. Doing(p, "write") /\ UNCHANGED <<files, server, daemon, asked, used>>
  BY DEF WriteConfig
<1>2. /\ ProcOK(proc[p], server.seen, asked) /\ proc[p].cmd # "none"
      /\ (proc[p].cmd = "plan upgrade" => proc[p].at # 3)
  <2>1. ProcOK(proc[p], server.seen, asked) /\ proc[p].cmd # "none"
    BY <1>1, RunningOK
  <2>2. proc[p].cmd = "plan upgrade" => proc[p].at # 3
    BY <1>1, RunningOK, "write" # "poll"
  <2> QED
    BY <2>1, <2>2
<1>3. proc[p] \in ProcType /\ proc[p].offset \in 0..1 /\ n \in 1..2
  <2>1. proc[p] \in ProcType
    BY <1>2 DEF ProcOK
  <2>2. proc[p].offset \in -1..1 /\ proc[p].offset >= 0
    BY <2>1 DEF ProcType, WriteConfig
  <2> QED
    BY <2>1, <2>2
<1>4. SectionOK(n, section, server.seen, asked)
  <2>1. ConfigOK(c, server.seen, asked)
    BY <1>1, NewConfigOK
  <2> HIDE DEF c
  <2>2. ConfigText(c)[1] = c.attest /\ ConfigText(c)[2] = c.tier
    BY DEF ConfigText
  <2>3. CASE n = 1
    BY <2>1, <2>2, <2>3 DEF SectionOK, ConfigOK
  <2>4. CASE n = 2
    BY <2>1, <2>2, <2>4 DEF SectionOK, ConfigOK
  <2> QED
    BY <1>3, <2>3, <2>4
<1>5. config' = [config EXCEPT !.text = WriteAt(config.text, n, section)]
  BY DEF WriteConfig
<1>6. (n = 2 => Advance(p, [proc[p] EXCEPT !.offset = -1]))
      /\ (n # 2 => proc' = [proc EXCEPT ![p] = [proc[p] EXCEPT !.offset = n]] /\ UNCHANGED settled)
  BY DEF WriteConfig
<1> HIDE DEF section, n
<1>7. ConfigTextOK'
  <2>1. TextOK(WriteAt(config.text, n, section), server.seen, asked)
    BY <1>3, <1>4, WriteOK DEF InstallInv, ServerOK, ConfigTextOK
  <2>2. config' = [state |-> config.state, text |-> WriteAt(config.text, n, section)]
    BY <1>5 DEF InstallInv, ConfigTextOK
  <2>3. config.state \in {"absent", "present"}
    BY DEF InstallInv, ConfigTextOK
  <2> HIDE DEF section
  <2>4. config'.text = WriteAt(config.text, n, section) /\ config'.state = config.state
    BY <2>2
  <2> QED
    BY <1>1, <2>1, <2>2, <2>3, <2>4 DEF ConfigTextOK
<1>8. /\ DOMAIN proc' = Procs /\ \A r \in Procs : ProcOK(proc'[r], server.seen, asked)
      /\ settled' \in Gens
  <2>1. \A o \in -1..1 : ProcOK([proc[p] EXCEPT !.offset = o], server.seen, asked)
    <3> TAKE o \in -1..1
    <3> DEFINE q == [proc[p] EXCEPT !.offset = o]
    <3>1. q \in ProcType /\ q.cmd = proc[p].cmd /\ q.at = proc[p].at /\ q.reply = proc[p].reply /\ q.cfg = proc[p].cfg
      BY <1>3 DEF ProcType
    <3> HIDE DEF q
    <3>2. ProcOK(q, server.seen, asked)
      BY <1>2, <3>1, OtherFieldsOK
    <3> QED
      BY <3>2 DEF q
  <2>2. CASE n = 2
    <3> DEFINE q == [proc[p] EXCEPT !.offset = -1]
    <3>1. ProcOK(q, server.seen, asked) /\ Advance(p, q)
      BY <1>6, <2>1, <2>2
    <3>2. q.cmd = proc[p].cmd /\ q.at = proc[p].at
      BY <1>3 DEF ProcType
    <3> HIDE DEF q
    <3> QED
      BY <1>2, <3>1, <3>2, AdvanceOK
  <2>3. CASE n # 2
    <3>1. n \in -1..1
      BY <1>3, <2>3
    <3>2. DOMAIN proc' = Procs /\ \A r \in Procs : ProcOK(proc'[r], server.seen, asked)
      BY <1>6, <2>1, <2>3, <3>1, OneProcess
    <3> QED
      BY <1>6, <2>3, <3>2 DEF InstallInv, CountsOK
  <2> QED
    BY <2>2, <2>3
<1>9. ProcsOK' /\ ServerOK' /\ CountsOK' /\ (files \in [Files -> FileState])'
  BY <1>1, <1>8 DEF InstallInv, ProcsOK, ServerOK, CountsOK
<1> QED
  BY <1>7, <1>9 DEF InstallInv

\* What follows for a command that goes on as it is, whatever it did to files.
LEMMA GoOnOK ==
    ASSUME InstallInv, NEW p \in Procs, NEW op, Doing(p, op), op # "poll", Advance(p, proc[p])
    PROVE  /\ DOMAIN proc' = Procs /\ \A r \in Procs : ProcOK(proc'[r], server.seen, asked)
           /\ settled' \in Gens
<1>1. /\ ProcOK(proc[p], server.seen, asked) /\ proc[p].cmd # "none"
      /\ (proc[p].cmd = "plan upgrade" => proc[p].at # 3)
  BY RunningOK
<1> QED
  BY <1>1, AdvanceOK

\* Another file is written.
LEMMA WriteFileStep == ASSUME InstallInv, NEW p \in Procs, WriteFile(p) PROVE InstallInv'
<1> DEFINE q == [proc[p] EXCEPT !.offset = -1]
<1>1. Doing(p, "write") /\ UNCHANGED <<config, server, daemon, asked, used>>
  BY DEF WriteFile
<1>2. /\ ProcOK(proc[p], server.seen, asked) /\ proc[p].cmd # "none"
      /\ (proc[p].cmd = "plan upgrade" => proc[p].at # 3)
  <2>1. ProcOK(proc[p], server.seen, asked) /\ proc[p].cmd # "none"
    BY <1>1, RunningOK
  <2>2. proc[p].cmd = "plan upgrade" => proc[p].at # 3
    BY <1>1, RunningOK, "write" # "poll"
  <2> QED
    BY <2>1, <2>2
<1>3. proc[p] \in ProcType
  BY <1>2 DEF ProcOK
<1>4. q \in ProcType /\ q.cmd = proc[p].cmd /\ q.at = proc[p].at /\ q.reply = proc[p].reply /\ q.cfg = proc[p].cfg
  BY <1>3 DEF ProcType
<1>5. Advance(p, q)
  BY DEF WriteFile
<1> HIDE DEF q
<1>6. /\ DOMAIN proc' = Procs /\ \A r \in Procs : ProcOK(proc'[r], server.seen, asked)
      /\ settled' \in Gens
  <2>1. ProcOK(q, server.seen, asked)
    BY <1>2, <1>4, OtherFieldsOK
  <2> QED
    BY <1>2, <1>4, <1>5, <2>1, AdvanceOK
<1>7. (files \in [Files -> FileState])'
  <2>1. [state |-> "whole", gen |-> proc[p].gen] \in FileState
    BY <1>3 DEF ProcType, FileState, Gens
  <2> QED
    BY <2>1 DEF WriteFile, InstallInv
<1>8. CountsOK'
  BY <1>1, <1>6 DEF InstallInv, CountsOK
<1> QED
  BY <1>1, <1>6, <1>7, <1>8, SettingsAlone DEF InstallInv

\* A file is removed.
LEMMA RemoveStep == ASSUME InstallInv, NEW p \in Procs, Remove(p) PROVE InstallInv'
<1>1. Doing(p, "remove") /\ Advance(p, proc[p]) /\ UNCHANGED <<config, server, daemon, asked, used>>
  BY DEF Remove
<1>2. /\ DOMAIN proc' = Procs /\ \A r \in Procs : ProcOK(proc'[r], server.seen, asked)
      /\ settled' \in Gens
  BY <1>1, GoOnOK, "remove" # "poll"
<1>3. NoFile \in FileState
  BY InstallationAssumption DEF NoFile, FileState, Gens, Overlapped
<1>4. (files \in [Files -> FileState])'
  BY <1>3 DEF Remove, InstallInv
<1>5. CountsOK'
  BY <1>1, <1>2 DEF InstallInv, CountsOK
<1> QED
  BY <1>1, <1>2, <1>4, <1>5, SettingsAlone DEF InstallInv

\* A command looks for a file.
LEMMA CheckStep == ASSUME InstallInv, NEW p \in Procs, Check(p) PROVE InstallInv'
<1>1. UNCHANGED <<config, files, server, daemon, asked, used>>
  BY DEF Check
<1>2. Doing(p, "need") \/ Doing(p, "unless")
  BY DEF Check
<1>3. Advance(p, proc[p]) \/ Abort(p)
  BY DEF Check
<1>4. /\ DOMAIN proc' = Procs /\ \A r \in Procs : ProcOK(proc'[r], server.seen, asked)
      /\ settled' \in Gens
  <2>1. CASE Abort(p)
    BY <2>1, AbortOK
  <2>2. CASE Advance(p, proc[p])
    BY <1>2, <2>2, GoOnOK, "need" # "poll", "unless" # "poll"
  <2> QED
    BY <1>3, <2>1, <2>2
<1>5. CountsOK'
  BY <1>1, <1>4 DEF InstallInv, CountsOK
<1> QED
  BY <1>1, <1>4, <1>5, SettingsAlone DEF InstallInv

\* A plan is heard of: of the server, or of the user, who is not believed yet.
LEMMA HearPlan ==
    ASSUME InstallInv, NEW p \in Procs, NEW op, Doing(p, op), op # "poll", NEW plan \in Plans,
           plan \in server.seen \/ op = "checkout",
           Advance(p, [proc[p] EXCEPT !.reply = plan]) \/ Abort(p)
    PROVE  /\ DOMAIN proc' = Procs /\ \A r \in Procs : ProcOK(proc'[r], server.seen, asked)
           /\ settled' \in Gens
<1> DEFINE q == [proc[p] EXCEPT !.reply = plan]
<1>1. /\ ProcOK(proc[p], server.seen, asked) /\ proc[p].cmd # "none"
      /\ (proc[p].cmd = "plan upgrade" => proc[p].at # 3)
  BY RunningOK
<1>2. op = "checkout" => /\ proc[p].cmd \notin {"plan sync", "verify"}
                         /\ (proc[p].cmd = "plan upgrade" => proc[p].at = 2)
  BY RunningOK
<1>3. proc[p] \in ProcType
  BY <1>1 DEF ProcOK
<1>4. q \in ProcType /\ q.cmd = proc[p].cmd /\ q.at = proc[p].at /\ q.reply = plan /\ q.cfg = proc[p].cfg
  BY <1>3 DEF ProcType
<1>5. Advance(p, q) \/ Abort(p)
  OBVIOUS
<1> HIDE DEF q
<1>6. ReplyOK(q, server.seen)
  <2>1. CASE plan \in server.seen
    BY <1>4, <2>1 DEF ReplyOK
  <2>2. CASE op = "checkout"
    <3>1. q.cmd = "plan upgrade" => ~(q.at >= 4)
      <4>1. q.cmd = "plan upgrade" => q.at = 2
        BY <1>2, <1>4, <2>2
      <4>2. ~(2 >= 4)
        BY SMT
      <4> QED
        BY <4>1, <4>2
    <3> QED
      BY <1>2, <1>4, <2>2, <3>1 DEF ReplyOK
  <2> QED
    BY <2>1, <2>2
<1>7. ProcOK(q, server.seen, asked)
  BY <1>1, <1>4, <1>6 DEF ProcOK
<1>8. CASE Abort(p)
  BY <1>8, AbortOK
<1>9. CASE Advance(p, q)
  BY <1>1, <1>4, <1>7, <1>9, AdvanceOK
<1> QED
  BY <1>5, <1>8, <1>9

\* The server is asked for the account's plan.
LEMMA AskStep == ASSUME InstallInv, NEW p \in Procs, AskForPlan(p) PROVE InstallInv'
<1>1. /\ Doing(p, "ask") /\ UNCHANGED <<config, files, server, daemon, asked, used>>
      /\ (\E plan \in {server.plan, "free"} : Advance(p, [proc[p] EXCEPT !.reply = plan])) \/ Abort(p)
  BY DEF AskForPlan
<1>2. \A plan \in {server.plan, "free"} : plan \in server.seen /\ plan \in Plans
  BY DEF InstallInv, ServerOK, Plans
<1>3. /\ DOMAIN proc' = Procs /\ \A r \in Procs : ProcOK(proc'[r], server.seen, asked)
      /\ settled' \in Gens
  <2>1. CASE Abort(p)
    BY <1>1, <1>2, <2>1, AbortOK
  <2>2. CASE \E plan \in {server.plan, "free"} : Advance(p, [proc[p] EXCEPT !.reply = plan])
    <3>1. PICK plan \in {server.plan, "free"} : Advance(p, [proc[p] EXCEPT !.reply = plan])
      BY <2>2
    <3> QED
      BY <1>1, <1>2, <3>1, HearPlan, "ask" # "poll"
  <2> QED
    BY <1>1, <2>1, <2>2
<1>4. CountsOK'
  BY <1>1, <1>3 DEF InstallInv, CountsOK
<1> QED
  BY <1>1, <1>3, <1>4, SettingsAlone DEF InstallInv

\* The user chooses a plan.
LEMMA CheckoutStep ==
    ASSUME InstallInv, NEW p \in Procs, NEW tier \in Tiers, Checkout(p, tier) PROVE InstallInv'
<1>1. /\ Doing(p, "checkout") /\ UNCHANGED <<config, files, server, daemon, asked, used>>
      /\ Advance(p, [proc[p] EXCEPT !.reply = tier]) \/ Abort(p)
  BY DEF Checkout
<1>2. tier \in Plans
  BY DEF Plans
<1>3. /\ DOMAIN proc' = Procs /\ \A r \in Procs : ProcOK(proc'[r], server.seen, asked)
      /\ settled' \in Gens
  BY <1>1, <1>2, HearPlan, "checkout" # "poll"
<1>4. CountsOK'
  BY <1>1, <1>3 DEF InstallInv, CountsOK
<1> QED
  BY <1>1, <1>3, <1>4, SettingsAlone DEF InstallInv

\* The payment is waited for: the poll ends with a plan the server has named.
LEMMA PollStep == ASSUME InstallInv, NEW p \in Procs, Poll(p) PROVE InstallInv'
<1>1. /\ Doing(p, "poll") /\ UNCHANGED <<config, files, server, daemon, asked, used>>
      /\ (server.plan = proc[p].reply /\ Advance(p, proc[p])) \/ Abort(p)
  BY DEF Poll
<1>2. ProcOK(proc[p], server.seen, asked) /\ proc[p].cmd # "none"
  BY <1>1, RunningOK
<1>3. /\ DOMAIN proc' = Procs /\ \A r \in Procs : ProcOK(proc'[r], server.seen, asked)
      /\ settled' \in Gens
  <2>1. CASE Abort(p)
    BY <2>1, AbortOK
  <2>2. CASE server.plan = proc[p].reply /\ Advance(p, proc[p])
    <3>1. proc[p].reply \in server.seen
      BY <2>2 DEF InstallInv, ServerOK
    <3> QED
      BY <1>2, <2>2, <3>1, AdvanceOK
  <2> QED
    BY <1>1, <2>1, <2>2
<1>4. CountsOK'
  BY <1>1, <1>3 DEF InstallInv, CountsOK
<1> QED
  BY <1>1, <1>3, <1>4, SettingsAlone DEF InstallInv

\* The subscription changes.
LEMMA ChangeStep == ASSUME InstallInv, NEW plan \in Plans, ChangePlan(plan) PROVE InstallInv'
<1>1. /\ server' = [plan |-> plan, seen |-> server.seen \cup {plan}]
      /\ UNCHANGED <<config, files, proc, daemon, settled, asked>>
  BY DEF ChangePlan
<1>2. server.seen \subseteq server'.seen
  BY <1>1
<1>3. ServerOK'
  BY <1>1 DEF InstallInv, ServerOK
<1>4. ProcsOK'
  <2>1. \A r \in Procs : ProcOK(proc[r], server'.seen, asked)
    BY <1>2, MoreIsAuthorised DEF InstallInv, ProcsOK
  <2> QED
    BY <1>1, <2>1 DEF InstallInv, ProcsOK
<1>5. ConfigTextOK'
  <2>1. TextOK(config.text, server'.seen, asked)
    BY <1>2, MoreIsAuthorised DEF InstallInv, ConfigTextOK
  <2> QED
    BY <1>1, <2>1 DEF InstallInv, ConfigTextOK
<1>6. CountsOK'
  <2>1. used.payments \in 0..MaxPayments /\ used.payments < MaxPayments /\ MaxPayments \in Nat
    BY InstallationAssumption DEF ChangePlan, InstallInv, CountsOK
  <2>2. used.payments + 1 \in 0..MaxPayments
    BY <2>1, StepNumbers
  <2>3. used' = [used EXCEPT !.payments = used.payments + 1]
    BY DEF ChangePlan
  <2> QED
    BY <1>1, <2>2, <2>3 DEF InstallInv, CountsOK
<1> QED
  BY <1>1, <1>3, <1>4, <1>5, <1>6 DEF InstallInv

\* start looks for the key files ...
LEMMA FindKeysStep == ASSUME InstallInv, NEW p \in Procs, FindKeys(p) PROVE InstallInv'
<1>1. Doing(p, "exists") /\ UNCHANGED <<config, files, server, asked, used>>
  BY DEF FindKeys
<1>2. Advance(p, proc[p]) \/ Abort(p)
  BY DEF FindKeys
<1>3. /\ DOMAIN proc' = Procs /\ \A r \in Procs : ProcOK(proc'[r], server.seen, asked)
      /\ settled' \in Gens
  <2>1. CASE Abort(p)
    BY <2>1, AbortOK
  <2>2. CASE Advance(p, proc[p])
    BY <1>1, <2>2, GoOnOK, "exists" # "poll"
  <2> QED
    BY <1>2, <2>1, <2>2
<1>4. daemon'.state \in {"none", "signing", "unsigned"}
  BY DEF FindKeys, InstallInv, CountsOK
<1>5. CountsOK'
  BY <1>1, <1>3, <1>4 DEF InstallInv, CountsOK
<1> QED
  BY <1>1, <1>3, <1>5, SettingsAlone DEF InstallInv

\* ... and reads them.
LEMMA ReadKeyStep == ASSUME InstallInv, NEW p \in Procs, ReadKey(p) PROVE InstallInv'
<1> DEFINE f == Current(p).file
           q == [proc[p] EXCEPT !.keys[f] = files[f]]
<1>1. Doing(p, "read") /\ UNCHANGED <<config, files, server, asked, used>>
  BY DEF ReadKey
<1>2. /\ ProcOK(proc[p], server.seen, asked) /\ proc[p].cmd # "none"
      /\ (proc[p].cmd = "plan upgrade" => proc[p].at # 3)
  <2>1. ProcOK(proc[p], server.seen, asked) /\ proc[p].cmd # "none"
    BY <1>1, RunningOK
  <2>2. proc[p].cmd = "plan upgrade" => proc[p].at # 3
    BY <1>1, RunningOK, "read" # "poll"
  <2> QED
    BY <2>1, <2>2
<1>3. proc[p] \in ProcType
  BY <1>2 DEF ProcOK
<1>4. q \in ProcType /\ q.cmd = proc[p].cmd /\ q.at = proc[p].at /\ q.reply = proc[p].reply /\ q.cfg = proc[p].cfg
  <2> DEFINE found == [proc[p].keys EXCEPT ![f] = files[f]]
  <2>1. \A g \in KeyFiles \cup {Metadata} : files[g] \in FileState
    BY DEF InstallInv, Files
  <2>2. found \in [KeyFiles \cup {Metadata} -> FileState]
    BY <1>3, <2>1 DEF ProcType
  <2>3. q = [proc[p] EXCEPT !.keys = found]
    BY <1>3 DEF ProcType
  <2> HIDE DEF found, q
  <2> QED
    BY <1>3, <2>2, <2>3 DEF ProcType
<1>5. Advance(p, q) \/ Abort(p)
  BY DEF ReadKey
<1>6. daemon'.state \in {"none", "signing", "unsigned"}
  BY DEF ReadKey, InstallInv, CountsOK
<1> HIDE DEF q, f
<1>7. /\ DOMAIN proc' = Procs /\ \A r \in Procs : ProcOK(proc'[r], server.seen, asked)
      /\ settled' \in Gens
  <2>1. CASE Abort(p)
    BY <2>1, AbortOK
  <2>2. CASE Advance(p, q)
    <3>1. ProcOK(q, server.seen, asked)
      BY <1>2, <1>4, OtherFieldsOK
    <3> QED
      BY <1>2, <1>4, <2>2, <3>1, AdvanceOK
  <2> QED
    BY <1>5, <2>1, <2>2
<1>8. CountsOK'
  BY <1>1, <1>6, <1>7 DEF InstallInv, CountsOK
<1> QED
  BY <1>1, <1>7, <1>8, SettingsAlone DEF InstallInv

\* A process dies.
LEMMA KillStep == ASSUME InstallInv, NEW p \in Procs, Kill(p) PROVE InstallInv'
<1>1. Abort(p) /\ UNCHANGED <<config, files, server, daemon, asked>>
  BY DEF Kill
<1>2. /\ DOMAIN proc' = Procs /\ \A r \in Procs : ProcOK(proc'[r], server.seen, asked)
      /\ settled' \in Gens
  BY <1>1, AbortOK
<1>3. CountsOK'
  <2>1. used.kills \in 0..MaxKills /\ used.kills < MaxKills /\ MaxKills \in Nat
    BY InstallationAssumption DEF Kill, InstallInv, CountsOK
  <2>2. used.kills + 1 \in 0..MaxKills
    BY <2>1, StepNumbers
  <2>3. used' = [used EXCEPT !.kills = used.kills + 1]
    BY DEF Kill
  <2> QED
    BY <1>1, <1>2, <2>2, <2>3 DEF InstallInv, CountsOK
<1> QED
  BY <1>1, <1>2, <1>3, SettingsAlone DEF InstallInv

\* The invariant holds of every reachable state.
LEMMA InstallInvariance == Spec => []InstallInv
<1>1. InstallInv /\ [Next]_vars => InstallInv'
  <2> SUFFICES ASSUME InstallInv, [Next]_vars PROVE InstallInv'
    OBVIOUS
  <2>1. CASE UNCHANGED vars
    BY <2>1 DEF vars, InstallInv, ServerOK, ProcsOK, ConfigTextOK, CountsOK
  <2>2. ASSUME NEW p \in Procs, NEW cmd \in Commands, Begin(p, cmd) PROVE InstallInv'
    BY <2>2, BeginStep
  <2>3. ASSUME NEW p \in Procs, LoadConfig(p) PROVE InstallInv'
    BY <2>3, LoadStep
  <2>4. ASSUME NEW p \in Procs, Truncate(p) PROVE InstallInv'
    BY <2>4, TruncateStep
  <2>5. ASSUME NEW p \in Procs, WriteConfig(p) PROVE InstallInv'
    BY <2>5, WriteConfigStep
  <2>6. ASSUME NEW p \in Procs, WriteFile(p) PROVE InstallInv'
    BY <2>6, WriteFileStep
  <2>7. ASSUME NEW p \in Procs, Remove(p) PROVE InstallInv'
    BY <2>7, RemoveStep
  <2>8. ASSUME NEW p \in Procs, Check(p) PROVE InstallInv'
    BY <2>8, CheckStep
  <2>9. ASSUME NEW p \in Procs, AskForPlan(p) PROVE InstallInv'
    BY <2>9, AskStep
  <2>10. ASSUME NEW p \in Procs, NEW tier \in Tiers, Checkout(p, tier) PROVE InstallInv'
    BY <2>10, CheckoutStep
  <2>11. ASSUME NEW p \in Procs, Poll(p) PROVE InstallInv'
    BY <2>11, PollStep
  <2>12. ASSUME NEW p \in Procs, FindKeys(p) PROVE InstallInv'
    BY <2>12, FindKeysStep
  <2>13. ASSUME NEW p \in Procs, ReadKey(p) PROVE InstallInv'
    BY <2>13, ReadKeyStep
  <2>14. ASSUME NEW p \in Procs, Kill(p) PROVE InstallInv'
    BY <2>14, KillStep
  <2>15. ASSUME NEW plan \in Tiers \cup {"free"}, ChangePlan(plan) PROVE InstallInv'
    BY <2>15, ChangeStep DEF Plans
  <2> QED
    BY <2>1, <2>2, <2>3, <2>4, <2>5, <2>6, <2>7, <2>8, <2>9, <2>10, <2>11, <2>12, <2>13, <2>14, <2>15 DEF Next
<1> QED
  BY <1>1, InstallInit, PTL DEF Spec

\* Commands, files, processes and counters stay what they are, however commands
\* overlap and die.
THEOREM TypeCorrect == Spec => []TypeOK
<1>1. InstallInv => TypeOK
  <2> SUFFICES ASSUME InstallInv PROVE TypeOK
    OBVIOUS
  <2>1. /\ config.state \in {"absent", "present"} /\ Len(config.text) \in 0..2
    BY DEF InstallInv, ConfigTextOK, TextOK
  <2>2. ASSUME NEW p \in Procs
        PROVE  /\ proc[p].cmd \in Commands \cup {"none"}
               /\ Running(p) => proc[p].at \in 1..Len(Steps(proc[p].cmd))
               /\ proc[p].offset \in -1..1
               /\ proc[p].cfg \in [attest : {"yes", "no"}, tier : Plans]
               /\ proc[p].reply \in Plans
               /\ proc[p].gen \in Gens
    <3>1. ProcOK(proc[p], server.seen, asked)
      BY DEF InstallInv, ProcsOK
    <3>2. proc[p] \in ProcType /\ (Running(p) => proc[p].at \in 1..Len(Steps(proc[p].cmd)))
      BY <3>1 DEF ProcOK, Running
    <3> QED
      BY <3>2 DEF ProcType
  <2> QED
    BY <2>1, <2>2 DEF TypeOK, InstallInv, ServerOK, CountsOK
<1> QED
  BY <1>1, InstallInvariance, PTL

\* However many commands overlap and die, a configuration that loads names a plan
\* the server has confirmed, and attests only if the user or such a plan asked for
\* it: "Plan will not change until payment completes" (plan.rs:141).
THEOREM SettingsAlwaysAuthorised == Spec => []SettingsAuthorised
<1>1. InstallInv => SettingsAuthorised
  <2> SUFFICES ASSUME InstallInv, Loads
               PROVE  /\ LoadedConfig.tier \in server.seen
                      /\ LoadedConfig.attest = "yes" => asked = "yes" \/ server.seen \ {"free", "payg"} # {}
    BY DEF SettingsAuthorised
  <2>1. ConfigOK(LoadedConfig, server.seen, asked)
    BY LoadedOK DEF InstallInv, ServerOK, ConfigTextOK
  <2> QED
    BY <2>1 DEF ConfigOK, AttestOK
<1> QED
  BY <1>1, InstallInvariance, PTL

-----------------------------------------------------------------------------
(* The keys.  An init that is alone has written what it has gone past, and *)
(* what is before it is of older inits; so the files stay in the order of  *)
(* save, until two inits overlap.  A start that no init has disturbed has  *)
(* read what is in the files still.                                        *)

\* What start reads of the keys, and only init writes.
SigningFiles == KeyFiles \cup {Metadata}
Whole(gen) == [state |-> "whole", gen |-> gen]
Cut(gen) == [state |-> "cut", gen |-> gen]
\* The file process q is at, and those that it has not done with.
At(q) == Steps(q.cmd)[q.at].file
Left(q) == {Steps(q.cmd)[i].file : i \in q.at..Len(Steps(q.cmd))}

\* q has written the files of content that it has done with, and no other, but
\* that it may have truncated the one it is at.
WrittenUpTo(q, content) ==
    \A f \in SigningFiles :
        /\ f \notin Left(q) => content[f] = Whole(q.gen)
        /\ f \in Left(q) => content[f].gen < q.gen \/ (f = At(q) /\ content[f] = Cut(q.gen))

SettledOK ==
    settled > 0 => /\ \A p \in Procs : proc[p].cmd # "init"
                   /\ \A f \in SigningFiles : files[f] = Whole(settled)
OrderOK ==
    settled # Overlapped => /\ \A p \in Procs : proc[p].cmd = "init" => proc[p].alone = "yes"
                            /\ InOrder(files)
WriterOK(p) ==
    proc[p].cmd = "init" /\ proc[p].alone = "yes" =>
        /\ WrittenUpTo(proc[p], files)
        /\ \A r \in Procs \ {p} : proc[r].cmd # "init"
ReaderOK(p) ==
    proc[p].cmd = "start" /\ proc[p].gen # Overlapped =>
        /\ proc[p].gen = settled
        /\ \A r \in Procs : proc[r].cmd # "init"
        /\ \A f \in SigningFiles : f \notin Left(proc[p]) => proc[p].keys[f] = files[f]
\* The next init is newer than all.
NewestOK ==
    /\ \A f \in SigningFiles : files[f].gen < used.commands + 2
    /\ \A p \in Procs : proc[p].cmd = "init" => proc[p].gen < used.commands + 2
WritingOK == SettledOK /\ OrderOK /\ NewestOK /\ \A p \in Procs : WriterOK(p) /\ ReaderOK(p)
KeysInv == WritingOK /\ KeysInOrder

\* The steps a command is made of.
StepsIn(s) == {s[i] : i \in 1..Len(s)}
KeyStep == [op : {"load", "write", "exists", "read"}, file : KeyFiles \cup {Config, Identity, Metadata, NoFileName}]

\* What the steps of a concatenation are.
LEMMA ConcatAt ==
    ASSUME NEW s \in Seq(KeyStep), NEW t \in Seq(KeyStep), NEW m, NEW n, m = Len(s), n = Len(t)
    PROVE  /\ s \o t \in Seq(KeyStep) /\ Len(s \o t) = m + n /\ m \in Nat /\ n \in Nat
           /\ \A i \in 1..(m + n) : (s \o t)[i] = IF i <= m THEN s[i] ELSE t[i - m]
  BY ConcatProperties

\* A concatenation has the steps of both its parts.
LEMMA StepsOfConcat ==
    ASSUME NEW s \in Seq(KeyStep), NEW t \in Seq(KeyStep)
    PROVE  s \o t \in Seq(KeyStep) /\ StepsIn(s \o t) = StepsIn(s) \cup StepsIn(t)
<1> DEFINE m == Len(s)
           n == Len(t)
<1>1. /\ s \o t \in Seq(KeyStep) /\ Len(s \o t) = m + n /\ m \in Nat /\ n \in Nat
      /\ \A i \in 1..(m + n) : (s \o t)[i] = IF i <= m THEN s[i] ELSE t[i - m]
  BY ConcatProperties
<1> HIDE DEF m, n
<1>2. ASSUME NEW i \in 1..(m + n) PROVE (i <= m => i \in 1..m) /\ (~(i <= m) => i - m \in 1..n)
  BY <1>1
<1>3. \A i \in 1..m : i \in 1..(m + n) /\ i <= m
  BY <1>1
<1>4. \A i \in 1..n : i + m \in 1..(m + n) /\ ~(i + m <= m) /\ (i + m) - m = i
  BY <1>1
<1>5. StepsIn(s \o t) \subseteq StepsIn(s) \cup StepsIn(t)
  <2> SUFFICES ASSUME NEW i \in 1..(m + n) PROVE (s \o t)[i] \in StepsIn(s) \cup StepsIn(t)
    BY <1>1 DEF StepsIn
  <2>1. CASE i <= m
    BY <1>1, <1>2, <2>1 DEF StepsIn, m
  <2>2. CASE ~(i <= m)
    <3>1. (s \o t)[i] = t[i - m] /\ i - m \in 1..n
      BY <1>1, <1>2, <2>2
    <3> QED
      BY <3>1 DEF StepsIn, n
  <2> QED
    BY <2>1, <2>2
<1>6. StepsIn(s) \subseteq StepsIn(s \o t)
  <2> SUFFICES ASSUME NEW i \in 1..m PROVE s[i] \in StepsIn(s \o t)
    BY DEF StepsIn, m
  <2>1. i \in 1..(m + n) /\ (s \o t)[i] = s[i]
    BY <1>1, <1>3
  <2> QED
    BY <1>1, <2>1 DEF StepsIn
<1>7. StepsIn(t) \subseteq StepsIn(s \o t)
  <2> SUFFICES ASSUME NEW i \in 1..n PROVE t[i] \in StepsIn(s \o t)
    BY DEF StepsIn, n
  <2>1. i + m \in 1..(m + n) /\ (s \o t)[i + m] = t[(i + m) - m] /\ (i + m) - m = i
    BY <1>1, <1>4
  <2>2. (s \o t)[i + m] = t[i]
    BY <2>1
  <2> QED
    BY <1>1, <2>1, <2>2 DEF StepsIn
<1> QED
  BY <1>1, <1>5, <1>6, <1>7

\* One step for each family.
LEMMA StepsForEach ==
    ASSUME NEW op \in {"write", "read"}, NEW kind \in {"pub", "key"}
    PROVE  /\ ForEach(op, kind) \in Seq(KeyStep)
           /\ StepsIn(ForEach(op, kind)) = {Step(op, <<family, kind>>) : family \in Family}
<1>1. /\ ForEach(op, kind) = [i \in 1..Len(FamilyOrder) |-> Step(op, <<FamilyOrder[i], kind>>)]
      /\ DOMAIN FamilyOrder = 1..Len(FamilyOrder) /\ Len(FamilyOrder) \in Nat
  BY InstallationAssumption DEF ForEach
<1>2. \A i \in 1..Len(FamilyOrder) : <<FamilyOrder[i], kind>> \in KeyFiles
  BY <1>1 DEF KeyFiles, Family
<1>3. \A f \in KeyFiles : Step(op, f) \in KeyStep
  BY DEF Step, KeyStep
<1>4. ForEach(op, kind) \in Seq(KeyStep)
  BY <1>1, <1>2, <1>3, SequenceOf
<1>5. Len(ForEach(op, kind)) = Len(FamilyOrder)
  BY <1>1, <1>4
<1>6. StepsIn(ForEach(op, kind)) = {Step(op, <<FamilyOrder[i], kind>>) : i \in 1..Len(FamilyOrder)}
  BY <1>1, <1>5 DEF StepsIn
<1>7. Family = {FamilyOrder[i] : i \in 1..Len(FamilyOrder)}
  BY <1>1 DEF Family
<1> QED
  BY <1>4, <1>6, <1>7

\* One step is a sequence of one.
LEMMA StepsOfOne == \A e \in KeyStep : << e >> \in Seq(KeyStep) /\ StepsIn(<< e >>) = {e}
<1> SUFFICES ASSUME NEW e \in KeyStep PROVE << e >> \in Seq(KeyStep) /\ StepsIn(<< e >>) = {e}
  OBVIOUS
<1>1. << e >> \in Seq(KeyStep) /\ Len(<< e >>) = 1 /\ << e >>[1] = e
  OBVIOUS
<1>2. \A i : i \in 1..1 <=> i = 1
  OBVIOUS
<1> QED
  BY <1>1, <1>2 DEF StepsIn

\* These steps are of that kind.
LEMMA KeyStepsAre ==
    /\ SaveConfig \in KeyStep /\ Load \in KeyStep /\ Step("write", Identity) \in KeyStep
    /\ Step("write", Metadata) \in KeyStep /\ Step("read", Metadata) \in KeyStep /\ Step("exists", NoFileName) \in KeyStep
  BY DEF SaveConfig, Load, Step, KeyStep

\* The two kinds of key file are all of them.
LEMMA BothKinds ==
    \A op : {Step(op, <<family, "pub">>) : family \in Family} \cup {Step(op, <<family, "key">>) : family \in Family}
                = {Step(op, f) : f \in KeyFiles}
<1> TAKE op
<1>1. ASSUME NEW f \in KeyFiles PROVE \E family \in Family : f = <<family, "pub">> \/ f = <<family, "key">>
  BY DEF KeyFiles
<1>2. \A family \in Family : <<family, "pub">> \in KeyFiles /\ <<family, "key">> \in KeyFiles
  BY DEF KeyFiles
<1> QED
  BY <1>1, <1>2

\* init writes the configuration, the identity and every file of the keys.
LEMMA InitSteps ==
    /\ init \in Seq(KeyStep)
    /\ StepsIn(init) = {SaveConfig, Step("write", Identity), Step("write", Metadata)} \cup {Step("write", f) : f \in KeyFiles}
<1> DEFINE pub == ForEach("write", "pub")
           key == ForEach("write", "key")
           first == << SaveConfig, Step("write", Identity) >>
<1>1. pub \in Seq(KeyStep) /\ StepsIn(pub) = {Step("write", <<family, "pub">>) : family \in Family}
  BY StepsForEach
<1>2. key \in Seq(KeyStep) /\ StepsIn(key) = {Step("write", <<family, "key">>) : family \in Family}
  BY StepsForEach
<1>3. << Step("write", Metadata) >> \in Seq(KeyStep) /\ StepsIn(<< Step("write", Metadata) >>) = {Step("write", Metadata)}
  BY KeyStepsAre, StepsOfOne
<1>4. first \in Seq(KeyStep) /\ StepsIn(first) = {SaveConfig, Step("write", Identity)}
  <2>1. first \in Seq(KeyStep) /\ Len(first) = 2 /\ first[1] = SaveConfig /\ first[2] = Step("write", Identity)
    BY KeyStepsAre
  <2>2. \A i : i \in 1..2 <=> (i = 1 \/ i = 2)
    OBVIOUS
  <2> HIDE DEF first
  <2> QED
    BY <2>1, <2>2 DEF StepsIn
<1> HIDE DEF pub, key, first
<1>5. pub \o key \in Seq(KeyStep) /\ StepsIn(pub \o key) = {Step("write", f) : f \in KeyFiles}
  <2>1. pub \o key \in Seq(KeyStep) /\ StepsIn(pub \o key) = StepsIn(pub) \cup StepsIn(key)
    BY <1>1, <1>2, StepsOfConcat
  <2>2. {Step("write", <<family, "pub">>) : family \in Family} \cup {Step("write", <<family, "key">>) : family \in Family}
            = {Step("write", f) : f \in KeyFiles}
    BY BothKinds
  <2> QED
    BY <1>1, <1>2, <2>1, <2>2
<1>6. /\ PqKeySet_save \in Seq(KeyStep)
      /\ StepsIn(PqKeySet_save) = {Step("write", f) : f \in KeyFiles} \cup {Step("write", Metadata)}
  BY <1>3, <1>5, StepsOfConcat DEF PqKeySet_save, pub, key
<1>7. init = first \o PqKeySet_save
  BY DEF init, first
<1>8. init \in Seq(KeyStep) /\ StepsIn(init) = StepsIn(first) \cup StepsIn(PqKeySet_save)
  BY <1>4, <1>6, <1>7, StepsOfConcat
<1> QED
  BY <1>4, <1>6, <1>8

\* start loads the configuration, looks for the keys and reads every file of them.
LEMMA StartSteps ==
    /\ start \in Seq(KeyStep)
    /\ StepsIn(start) = {Load, Step("exists", NoFileName), Step("read", Metadata)} \cup {Step("read", f) : f \in KeyFiles}
<1> DEFINE pub == ForEach("read", "pub")
           key == ForEach("read", "key")
<1>1. pub \in Seq(KeyStep) /\ StepsIn(pub) = {Step("read", <<family, "pub">>) : family \in Family}
  BY StepsForEach
<1>2. key \in Seq(KeyStep) /\ StepsIn(key) = {Step("read", <<family, "key">>) : family \in Family}
  BY StepsForEach
<1>3. /\ << Step("read", Metadata) >> \in Seq(KeyStep) /\ StepsIn(<< Step("read", Metadata) >>) = {Step("read", Metadata)}
      /\ << Step("exists", NoFileName) >> \in Seq(KeyStep)
      /\ StepsIn(<< Step("exists", NoFileName) >>) = {Step("exists", NoFileName)}
      /\ << Load >> \in Seq(KeyStep) /\ StepsIn(<< Load >>) = {Load}
  BY KeyStepsAre, StepsOfOne
<1> HIDE DEF pub, key
<1> DEFINE x == << Step("exists", NoFileName) >> \o pub
           y == x \o << Step("read", Metadata) >>
<1>4. x \in Seq(KeyStep) /\ StepsIn(x) = {Step("exists", NoFileName)} \cup StepsIn(pub)
  BY <1>1, <1>3, StepsOfConcat
<1> HIDE DEF x
<1>5. y \in Seq(KeyStep) /\ StepsIn(y) = StepsIn(x) \cup {Step("read", Metadata)}
  BY <1>3, <1>4, StepsOfConcat
<1> HIDE DEF y
<1>6. y \o key \in Seq(KeyStep) /\ StepsIn(y \o key) = StepsIn(y) \cup StepsIn(key)
  BY <1>2, <1>5, StepsOfConcat
<1>7. PqKeySet_load = y \o key
  BY DEF PqKeySet_load, x, y, pub, key
<1>8. start \in Seq(KeyStep) /\ StepsIn(start) = {Load} \cup StepsIn(PqKeySet_load)
  BY <1>3, <1>6, <1>7, StepsOfConcat DEF start
<1>9. StepsIn(pub) \cup StepsIn(key) = {Step("read", f) : f \in KeyFiles}
  BY <1>1, <1>2, BothKinds
<1> QED
  BY <1>4, <1>5, <1>6, <1>7, <1>8, <1>9

\* Configuration, identity, certificates, credentials are no part of the keys.
LEMMA OtherNames ==
    {Config, Identity, Backup, Credentials, Pending, Cert, CertKey, NoFileName} \cap SigningFiles = {}
<1>1. \A f \in KeyFiles : f[2] \in {"pub", "key"}
  BY DEF KeyFiles
<1> QED
  BY <1>1 DEF SigningFiles, Config, Identity, Backup, Credentials, Pending, Cert, CertKey, NoFileName, Metadata

\* init writes every file of the keys, start reads every one, no other command writes any.
LEMMA WhoWrites ==
    ASSUME NEW cmd \in CommandNames, NEW i \in 1..Len(Steps(cmd))
    PROVE  /\ cmd = "init" => Steps(cmd)[i].op = "write"
           /\ cmd = "start" => /\ Steps(cmd)[i].op \in {"load", "exists", "read"}
                               /\ Steps(cmd)[i].op # "read" => Steps(cmd)[i].file \notin SigningFiles
           /\ cmd # "init" => (Steps(cmd)[i].op \in {"write", "remove"} => Steps(cmd)[i].file \notin SigningFiles)
           /\ cmd # "start" => Steps(cmd)[i].op # "read"
<1>1. CASE cmd = "init"
  <2>1. Steps(cmd) = init
    BY <1>1 DEF Steps
  <2>2. init[i] \in StepsIn(init)
    BY <2>1 DEF StepsIn
  <2>3. init[i].op = "write"
    BY <2>2, InitSteps DEF SaveConfig, Step
  <2> QED
    BY <1>1, <2>1, <2>3
<1>2. CASE cmd = "start"
  <2>1. Steps(cmd) = start
    BY <1>2 DEF Steps
  <2>2. start[i] \in StepsIn(start)
    BY <2>1 DEF StepsIn
  <2>3. start[i] \in {Load, Step("exists", NoFileName)} \/ \E f : start[i] = Step("read", f)
    BY <2>2, StartSteps
  <2>4. ASSUME start[i] \in {Load, Step("exists", NoFileName)}
        PROVE  start[i].op \in {"load", "exists"} /\ start[i].file \in {Config, NoFileName}
    BY <2>4 DEF Load, Step
  <2>5. ASSUME NEW f, start[i] = Step("read", f) PROVE start[i].op = "read"
    BY <2>5 DEF Step
  <2> QED
    BY <1>2, <2>1, <2>3, <2>4, <2>5, OtherNames
<1>3. CASE cmd \notin {"init", "start"}
  <2>1. /\ Steps(cmd)[i].op # "read"
        /\ Steps(cmd)[i].op \in {"write", "remove"} =>
            Steps(cmd)[i].file \in {Config, Identity, Backup, Credentials, Pending, Cert, CertKey}
    <3>1. Steps(cmd) \in {attest_enable, attest_disable, signup, verify, logout, upgrade, sync, tls_enable, rotate_keys}
      BY <1>3 DEF Steps, CommandNames
    <3>2. ASSUME NEW s \in {attest_enable, attest_disable, signup, verify, logout, upgrade, sync, tls_enable, rotate_keys},
                 NEW k \in 1..Len(s)
          PROVE  /\ s[k].op # "read"
                 /\ s[k].op \in {"write", "remove"} =>
                    s[k].file \in {Config, Identity, Backup, Credentials, Pending, Cert, CertKey}
      BY DEF attest_enable, attest_disable, signup, verify, logout, upgrade, sync, tls_enable, rotate_keys,
             Step, Load, SaveConfig, AskServer
    <3> QED
      BY <3>1, <3>2
  <2> QED
    BY <1>3, <2>1, OtherNames
<1> QED
  BY <1>1, <1>2, <1>3

\* A command that begins has all of the keys before it.
LEMMA AllLeft ==
    \A q : (q.cmd \in {"init", "start"} /\ q.at = 1) => SigningFiles \subseteq Left(q)
<1> SUFFICES ASSUME NEW q, q.cmd \in {"init", "start"}, q.at = 1, NEW f \in SigningFiles PROVE f \in Left(q)
  OBVIOUS
<1>1. Steps(q.cmd) \in {init, start}
  BY DEF Steps
<1>2. \E i \in 1..Len(Steps(q.cmd)) : Steps(q.cmd)[i].file = f
  <2>0. \A op : Step(op, f).file = f
    BY DEF Step
  <2>1. \E e \in StepsIn(init) : e.file = f
    <3>1. Step("write", f) \in StepsIn(init)
      BY InitSteps DEF SigningFiles
    <3> QED
      BY <2>0, <3>1
  <2>2. \E e \in StepsIn(start) : e.file = f
    <3>1. Step("read", f) \in StepsIn(start)
      BY StartSteps DEF SigningFiles
    <3> QED
      BY <2>0, <3>1
  <2> QED
    BY <1>1, <2>1, <2>2 DEF StepsIn
<1> QED
  BY <1>2 DEF Left

\* A step further, only the file of that step is done with.
LEMMA LeftAfter ==
    ASSUME NEW q, NEW r, r.cmd = q.cmd, r.at = q.at + 1, q.at \in 1..Len(Steps(q.cmd)), Len(Steps(q.cmd)) \in Nat,
           NEW f, f \notin Left(r), f # Steps(q.cmd)[q.at].file
    PROVE  f \notin Left(q)
<1>1. \A n \in Nat : \A k \in 1..n : \A i \in k..n : i = k \/ i \in (k + 1)..n
  OBVIOUS
<1> QED
  BY <1>1 DEF Left

\* After the last step nothing is left.
LEMMA LeftAtEnd ==
    ASSUME NEW q, q.at = Len(Steps(q.cmd)), Len(Steps(q.cmd)) \in Nat, NEW f, f # Steps(q.cmd)[q.at].file
    PROVE  f \notin Left(q)
<1>1. \A n \in Nat : \A i \in n..n : i = n
  OBVIOUS
<1> QED
  BY <1>1 DEF Left

-----------------------------------------------------------------------------
(* The order of save, as a relation of files.                              *)

Before(f, g) ==
    \E i, j \in DOMAIN PqKeySet_save : i < j /\ f = PqKeySet_save[i].file /\ g = PqKeySet_save[j].file

\* The steps of save: each public key, each private key, the metadata.
LEMMA SaveSteps ==
    LET n == Len(FamilyOrder)
    IN  /\ n \in Nat /\ Len(PqKeySet_save) = n + n + 1 /\ PqKeySet_save \in Seq(KeyStep)
        /\ \A i \in 1..n : PqKeySet_save[i].file = <<FamilyOrder[i], "pub">>
        /\ \A i \in (n + 1)..(n + n) : PqKeySet_save[i].file = <<FamilyOrder[i - n], "key">>
        /\ PqKeySet_save[n + n + 1].file = Metadata
<1> DEFINE n == Len(FamilyOrder)
           pub == ForEach("write", "pub")
           key == ForEach("write", "key")
           last == << Step("write", Metadata) >>
<1>1. n \in Nat /\ DOMAIN FamilyOrder = 1..n
  BY InstallationAssumption
<1>2. /\ pub \in Seq(KeyStep) /\ Len(pub) = n /\ \A i \in 1..n : pub[i].file = <<FamilyOrder[i], "pub">>
      /\ key \in Seq(KeyStep) /\ Len(key) = n /\ \A i \in 1..n : key[i].file = <<FamilyOrder[i], "key">>
  <2>1. pub \in Seq(KeyStep) /\ key \in Seq(KeyStep)
    BY StepsForEach
  <2>2. /\ pub = [i \in 1..n |-> Step("write", <<FamilyOrder[i], "pub">>)]
        /\ key = [i \in 1..n |-> Step("write", <<FamilyOrder[i], "key">>)]
    BY <1>1 DEF ForEach
  <2> HIDE DEF pub, key, n
  <2>3. Len(pub) = n /\ Len(key) = n
    BY <1>1, <2>1, <2>2
  <2> QED
    BY <2>1, <2>2, <2>3 DEF Step
<1>3. last \in Seq(KeyStep) /\ Len(last) = 1 /\ last[1].file = Metadata
  <2>1. last \in Seq(KeyStep)
    BY KeyStepsAre, StepsOfOne
  <2> QED
    BY <2>1 DEF Step
<1> HIDE DEF n, pub, key, last
<1>4. /\ pub \o key \in Seq(KeyStep) /\ Len(pub \o key) = n + n
      /\ \A i \in 1..(n + n) : (pub \o key)[i] = IF i <= n THEN pub[i] ELSE key[i - n]
  BY <1>2, ConcatAt
<1>5. PqKeySet_save = (pub \o key) \o last
  BY DEF PqKeySet_save, pub, key, last
<1>6. /\ PqKeySet_save \in Seq(KeyStep) /\ Len(PqKeySet_save) = n + n + 1
      /\ \A i \in 1..(n + n + 1) : PqKeySet_save[i] = IF i <= n + n THEN (pub \o key)[i] ELSE last[i - (n + n)]
  <2>1. PICK save : save = PqKeySet_save
    OBVIOUS
  <2>2. PICK k : k = n + n
    OBVIOUS
  <2>3. PICK both : both = pub \o key
    OBVIOUS
  <2>4. both \in Seq(KeyStep) /\ Len(both) = k /\ save = both \o last
    BY <1>4, <1>5, <2>1, <2>2, <2>3
  <2>5. /\ both \o last \in Seq(KeyStep) /\ Len(both \o last) = k + 1
        /\ \A i \in 1..(k + 1) : (both \o last)[i] = IF i <= k THEN both[i] ELSE last[i - k]
    <3>1. PICK one : one = 1
      OBVIOUS
    <3>2. k = Len(both) /\ one = Len(last) /\ last \in Seq(KeyStep)
      BY <1>3, <2>4, <3>1
    <3>3. /\ both \o last \in Seq(KeyStep) /\ Len(both \o last) = k + one
          /\ \A i \in 1..(k + one) : (both \o last)[i] = IF i <= k THEN both[i] ELSE last[i - k]
      BY <2>4, <3>2, ConcatAt
    <3> QED
      BY <3>1, <3>3
  <2>6. /\ save \in Seq(KeyStep) /\ Len(save) = k + 1
        /\ \A i \in 1..(k + 1) : save[i] = IF i <= k THEN both[i] ELSE last[i - k]
    BY <2>4, <2>5
  <2> QED
    BY <2>1, <2>2, <2>3, <2>6
<1>7. ASSUME NEW i \in 1..n PROVE PqKeySet_save[i].file = <<FamilyOrder[i], "pub">>
  <2>1. i \in 1..(n + n) /\ i \in 1..(n + n + 1) /\ i <= n + n /\ i <= n
    BY <1>1
  <2>2. PqKeySet_save[i] = pub[i]
    BY <1>4, <1>6, <2>1
  <2> QED
    BY <1>2, <2>2
<1>8. ASSUME NEW i \in (n + 1)..(n + n) PROVE PqKeySet_save[i].file = <<FamilyOrder[i - n], "key">>
  <2>1. i \in 1..(n + n) /\ i \in 1..(n + n + 1) /\ i <= n + n /\ ~(i <= n) /\ i - n \in 1..n
    BY <1>1
  <2>2. PqKeySet_save[i] = key[i - n]
    BY <1>4, <1>6, <2>1
  <2> QED
    BY <1>2, <2>1, <2>2
<1>9. PqKeySet_save[n + n + 1].file = Metadata
  <2>1. n + n + 1 \in 1..(n + n + 1) /\ ~(n + n + 1 <= n + n) /\ (n + n + 1) - (n + n) = 1
    BY <1>1
  <2>2. PqKeySet_save[n + n + 1] = last[1]
    BY <1>6, <2>1
  <2> QED
    BY <1>3, <2>2
<1> QED
  BY <1>1, <1>6, <1>7, <1>8, <1>9 DEF n

\* save writes files of the keys, each one once.
LEMMA SaveFiles ==
    /\ \A i \in DOMAIN PqKeySet_save : PqKeySet_save[i].file \in SigningFiles
    /\ \A i, j \in DOMAIN PqKeySet_save : PqKeySet_save[i].file = PqKeySet_save[j].file => i = j
<1>1. PICK n : n = Len(FamilyOrder)
  OBVIOUS
<1>2. n \in Nat /\ DOMAIN FamilyOrder = 1..n /\ DOMAIN PqKeySet_save = 1..(n + n + 1)
  BY <1>1, SaveSteps, InstallationAssumption
<1>3. \A i \in 1..n : PqKeySet_save[i].file = <<FamilyOrder[i], "pub">>
  BY <1>1, SaveSteps
<1>4. \A i \in (n + 1)..(n + n) : PqKeySet_save[i].file = <<FamilyOrder[i - n], "key">> /\ i - n \in 1..n
  BY <1>1, <1>2, SaveSteps
<1>5. PqKeySet_save[n + n + 1].file = Metadata
  BY <1>1, SaveSteps
<1>6. \A i \in 1..(n + n + 1) : i \in 1..n \/ i \in (n + 1)..(n + n) \/ i = n + n + 1
  BY <1>2
<1>7. ASSUME NEW i \in 1..(n + n + 1) PROVE PqKeySet_save[i].file \in SigningFiles
  <2>1. \A k \in 1..n : FamilyOrder[k] \in Family
    BY <1>2 DEF Family
  <2>2. CASE i \in 1..n
    BY <1>3, <2>1, <2>2 DEF SigningFiles, KeyFiles
  <2>3. CASE i \in (n + 1)..(n + n)
    BY <1>4, <2>1, <2>3 DEF SigningFiles, KeyFiles
  <2>4. CASE i = n + n + 1
    BY <1>5, <2>4 DEF SigningFiles
  <2> QED
    BY <1>6, <2>2, <2>3, <2>4
<1>8. ASSUME NEW i \in 1..(n + n + 1), NEW j \in 1..(n + n + 1), PqKeySet_save[i].file = PqKeySet_save[j].file
      PROVE  i = j
  <2>1. \A k, l \in 1..n : FamilyOrder[k] = FamilyOrder[l] => k = l
    BY <1>2, InstallationAssumption
  <2>2. CASE i \in 1..n
    <3>1. PqKeySet_save[j].file[2] = "pub" /\ PqKeySet_save[j].file[1] = FamilyOrder[i]
      BY <1>3, <1>8, <2>2
    <3>2. j \in 1..n
      BY <1>4, <1>5, <1>6, <3>1 DEF Metadata
    <3> QED
      BY <1>3, <2>1, <2>2, <3>1, <3>2
  <2>3. CASE i \in (n + 1)..(n + n)
    <3>1. PqKeySet_save[j].file[2] = "key" /\ PqKeySet_save[j].file[1] = FamilyOrder[i - n]
      BY <1>4, <1>8, <2>3
    <3>2. j \in (n + 1)..(n + n)
      BY <1>3, <1>5, <1>6, <3>1 DEF Metadata
    <3>3. i - n = j - n
      BY <1>4, <2>1, <2>3, <3>1, <3>2
    <3> QED
      BY <1>2, <2>3, <3>2, <3>3
  <2>4. CASE i = n + n + 1
    <3>1. PqKeySet_save[j].file[2] = "json"
      BY <1>5, <1>8, <2>4 DEF Metadata
    <3> QED
      BY <1>3, <1>4, <1>6, <2>4, <3>1
  <2> QED
    BY <1>6, <2>2, <2>3, <2>4
<1> QED
  BY <1>2, <1>7, <1>8

\* init writes the configuration and the identity, then does what save does.
LEMMA InitThenSave ==
    LET m == Len(PqKeySet_save)
    IN  /\ m \in Nat /\ DOMAIN PqKeySet_save = 1..m /\ Len(init) = m + 2
        /\ init[1].file \notin SigningFiles /\ init[2].file \notin SigningFiles
        /\ \A i \in 1..m : init[i + 2] = PqKeySet_save[i]
<1> DEFINE m == Len(PqKeySet_save)
           first == << SaveConfig, Step("write", Identity) >>
<1>1. PqKeySet_save \in Seq(KeyStep) /\ m \in Nat /\ DOMAIN PqKeySet_save = 1..m
  BY SaveSteps
<1>2. /\ first \in Seq(KeyStep) /\ Len(first) = 2
      /\ first[1].file = Config /\ first[2].file = Identity
  <2>1. first \in Seq(KeyStep)
    BY KeyStepsAre
  <2> QED
    BY <2>1 DEF SaveConfig, Step
<1> HIDE DEF m, first
<1>3. init = first \o PqKeySet_save
  BY DEF init, first
<1>4. /\ Len(init) = 2 + m
      /\ \A i \in 1..(2 + m) : init[i] = IF i <= 2 THEN first[i] ELSE PqKeySet_save[i - 2]
  <2>1. PICK save : save = PqKeySet_save
    OBVIOUS
  <2>2. save \in Seq(KeyStep) /\ m = Len(save)
    BY <1>1, <2>1 DEF m
  <2>3. /\ Len(first \o save) = 2 + m
        /\ \A i \in 1..(2 + m) : (first \o save)[i] = IF i <= 2 THEN first[i] ELSE save[i - 2]
    <3>1. PICK two : two = 2
      OBVIOUS
    <3>2. two = Len(first) /\ first \in Seq(KeyStep)
      BY <1>2, <3>1
    <3>3. /\ Len(first \o save) = two + m
          /\ \A i \in 1..(two + m) : (first \o save)[i] = IF i <= two THEN first[i] ELSE save[i - two]
      BY <2>2, <3>2, ConcatAt
    <3> QED
      BY <3>1, <3>3
  <2> QED
    BY <1>3, <2>1, <2>3
<1>5. init[1] = first[1] /\ init[2] = first[2]
  BY <1>1, <1>4
<1>6. ASSUME NEW i \in 1..m PROVE init[i + 2] = PqKeySet_save[i]
  <2>1. i + 2 \in 1..(2 + m) /\ ~(i + 2 <= 2) /\ (i + 2) - 2 = i
    BY <1>1
  <2>2. init[i + 2] = PqKeySet_save[(i + 2) - 2]
    BY <1>4, <2>1
  <2> QED
    BY <2>1, <2>2
<1>7. Len(init) = m + 2
  BY <1>1, <1>4
<1> QED
  BY <1>1, <1>2, <1>5, <1>6, <1>7, OtherNames DEF m

\* So init writes each file of the keys once, and those before it first.
LEMMA InitInOrder ==
    /\ Len(init) \in Nat
    /\ \A k, l \in 1..Len(init) : (init[k].file \in SigningFiles /\ init[k].file = init[l].file) => k = l
    /\ \A f, g : Before(f, g) =>
          /\ f \in SigningFiles /\ g \in SigningFiles
          /\ \E k, l \in 1..Len(init) : k < l /\ f = init[k].file /\ g = init[l].file
<1>1. PICK m : m = Len(PqKeySet_save)
  OBVIOUS
<1>2. /\ m \in Nat /\ DOMAIN PqKeySet_save = 1..m /\ Len(init) = m + 2
      /\ init[1].file \notin SigningFiles /\ init[2].file \notin SigningFiles
      /\ \A i \in 1..m : init[i + 2] = PqKeySet_save[i]
  BY <1>1, InitThenSave
<1>3. ASSUME NEW k \in 1..(m + 2), init[k].file \in SigningFiles
      PROVE  k - 2 \in 1..m /\ init[k] = PqKeySet_save[k - 2]
  <2>1. k # 1 /\ k # 2
    BY <1>2, <1>3
  <2>2. k - 2 \in 1..m /\ (k - 2) + 2 = k
    BY <1>2, <2>1
  <2>3. init[(k - 2) + 2] = PqKeySet_save[k - 2]
    BY <1>2, <2>2
  <2> QED
    BY <2>2, <2>3
<1>4. ASSUME NEW k \in 1..(m + 2), NEW l \in 1..(m + 2), init[k].file \in SigningFiles, init[k].file = init[l].file
      PROVE  k = l
  <2>1. /\ k - 2 \in 1..m /\ init[k] = PqKeySet_save[k - 2]
        /\ l - 2 \in 1..m /\ init[l] = PqKeySet_save[l - 2]
    BY <1>3, <1>4
  <2>2. PqKeySet_save[k - 2].file = PqKeySet_save[l - 2].file
    BY <1>4, <2>1
  <2>3. k - 2 = l - 2
    BY <1>2, <2>1, <2>2, SaveFiles
  <2> QED
    BY <1>2, <2>3
<1>5. ASSUME NEW f, NEW g, Before(f, g)
      PROVE  /\ f \in SigningFiles /\ g \in SigningFiles
             /\ \E k, l \in 1..(m + 2) : k < l /\ f = init[k].file /\ g = init[l].file
  <2>1. PICK i \in 1..m, j \in 1..m : i < j /\ f = PqKeySet_save[i].file /\ g = PqKeySet_save[j].file
    BY <1>2, <1>5 DEF Before
  <2>2. i + 2 \in 1..(m + 2) /\ j + 2 \in 1..(m + 2) /\ i + 2 < j + 2
    BY <1>2, <2>1
  <2>3. f = init[i + 2].file /\ g = init[j + 2].file
    BY <1>2, <2>1
  <2> QED
    BY <1>2, <2>1, <2>2, <2>3, SaveFiles
<1> QED
  BY <1>2, <1>4, <1>5

\* Files are in order if those behind others are.
LEMMA InOrderBefore ==
    \A content : InOrder(content) <=>
        \A f, g : Before(f, g) => /\ content[g].gen <= content[f].gen
                                  /\ content[f].state = "cut" => content[g].gen < content[f].gen
  BY DEF InOrder, Before

\* The same files are in the same order.
LEMMA InOrderSame ==
    ASSUME NEW c, NEW d, \A f \in SigningFiles : c[f] = d[f], InOrder(c)
    PROVE  InOrder(d)
  BY InOrderBefore, InitInOrder

\* So are those of one init.
LEMMA InOrderWhole ==
    ASSUME NEW c, NEW gen \in Int, \A f \in SigningFiles : c[f] = Whole(gen)
    PROVE  InOrder(c)
<1>1. \A f \in SigningFiles : c[f].gen = gen /\ c[f].state = "whole"
  BY DEF Whole
<1>2. gen <= gen
  OBVIOUS
<1> QED
  BY <1>1, <1>2, InOrderBefore, InitInOrder

\* An init is at the first of the files it has left.
LEMMA AtFirst ==
    ASSUME NEW q, q.cmd = "init", q.at \in 1..Len(init)
    PROVE  /\ At(q) \in Left(q)
           /\ \A f, g : Before(f, g) => /\ f = At(q) => g \in Left(q) /\ g # f
                                        /\ g = At(q) => f \notin Left(q)
<1>0. Steps(q.cmd) = init /\ Len(init) \in Nat
  BY InitInOrder DEF Steps
<1>1. At(q) = init[q.at].file /\ Left(q) = {init[i].file : i \in q.at..Len(init)}
  BY <1>0 DEF At, Left
<1>2. \A n \in Nat : \A k \in 1..n : k \in k..n
  OBVIOUS
<1>3. \A n \in Nat : \A k, l \in 1..n : k < l => l \in k..n /\ l # k /\ k \notin l..n
  OBVIOUS
<1>4. \A n \in Nat : \A k \in 1..n : \A l \in k..n : l \in 1..n
  OBVIOUS
<1>6. \A k, l \in 1..Len(init) : (init[k].file \in SigningFiles /\ init[k].file = init[l].file) => k = l
  BY InitInOrder
<1>5. ASSUME NEW f, NEW g, Before(f, g)
      PROVE  (f = At(q) => g \in Left(q) /\ g # f) /\ (g = At(q) => f \notin Left(q))
  <2>1. PICK k \in 1..Len(init), l \in 1..Len(init) : k < l /\ f = init[k].file /\ g = init[l].file
    BY <1>5, InitInOrder
  <2>2. f \in SigningFiles /\ g \in SigningFiles
    BY <1>5, InitInOrder
  <2>3. l \in k..Len(init) /\ l # k /\ k \notin l..Len(init)
    BY <1>0, <1>3, <2>1
  <2>4. ASSUME f = At(q) PROVE g \in Left(q) /\ g # f
    <3>1. k = q.at
      BY <1>1, <1>6, <2>1, <2>2, <2>4
    <3> QED
      BY <1>1, <1>6, <2>1, <2>2, <2>3, <3>1
  <2>5. ASSUME g = At(q), f \in Left(q) PROVE FALSE
    <3>1. l = q.at
      BY <1>1, <1>6, <2>1, <2>2, <2>5
    <3>2. PICK i \in q.at..Len(init) : f = init[i].file
      BY <1>1, <2>5
    <3>3. i \in 1..Len(init)
      BY <1>0, <1>4, <3>2
    <3>4. i = k
      BY <1>6, <2>1, <2>2, <3>2, <3>3
    <3> QED
      BY <2>3, <3>1, <3>2, <3>4
  <2> QED
    BY <2>4, <2>5
<1>7. At(q) \in Left(q)
  BY <1>0, <1>1, <1>2
<1> QED
  BY <1>5, <1>7

\* A step further, that file is not left.
LEMMA NotLeft ==
    ASSUME NEW q, q.cmd = "init", q.at \in 1..Len(init), NEW r, r.cmd = "init", r.at = q.at + 1,
           NEW f \in SigningFiles, f \in Left(r)
    PROVE  f \in Left(q) /\ f # At(q)
<1>0. Len(init) \in Nat /\ Steps("init") = init
  BY InitInOrder DEF Steps
<1>1. PICK i \in (q.at + 1)..Len(init) : f = init[i].file
  BY <1>0 DEF Left
<1>2. \A n \in Nat : \A k \in 1..n : \A l \in (k + 1)..n : l \in k..n /\ l \in 1..n /\ l # k
  OBVIOUS
<1>3. i \in q.at..Len(init) /\ i \in 1..Len(init) /\ i # q.at
  BY <1>0, <1>1, <1>2
<1>4. At(q) = init[q.at].file
  BY <1>0 DEF At
<1>5. f # At(q)
  BY <1>1, <1>3, <1>4, InitInOrder
<1> QED
  BY <1>0, <1>1, <1>3, <1>5 DEF Left

\* What an init that is alone writes keeps the files in order: those in front are
\* its own already, those behind are older.
LEMMA OrderKept ==
    ASSUME NEW q, q.cmd = "init", q.at \in 1..Len(init), q.gen \in Int,
           NEW c, NEW d, WrittenUpTo(q, c), InOrder(c), \A f \in SigningFiles : c[f].gen \in Int,
           \A f \in SigningFiles : d[f] = c[f] \/ (f = At(q) /\ d[f].gen = q.gen)
    PROVE  InOrder(d)
<1> SUFFICES ASSUME NEW f, NEW g, Before(f, g)
             PROVE  d[g].gen <= d[f].gen /\ (d[f].state = "cut" => d[g].gen < d[f].gen)
  BY InOrderBefore
<1>1. f \in SigningFiles /\ g \in SigningFiles
  BY InitInOrder
<1>2. /\ f = At(q) => g \in Left(q) /\ g # f
      /\ g = At(q) => f \notin Left(q)
  BY AtFirst
<1>3. CASE f = At(q) /\ d[f].gen = q.gen
  <2>1. d[g] = c[g] /\ g \in Left(q) /\ g # At(q)
    BY <1>1, <1>2, <1>3
  <2>2. c[g].gen < q.gen
    BY <1>1, <2>1 DEF WrittenUpTo
  <2>3. d[g].gen < d[f].gen
    BY <1>3, <2>1, <2>2
  <2>4. \A a, b \in Int : a < b => a <= b
    OBVIOUS
  <2> QED
    BY <1>1, <1>3, <2>1, <2>3, <2>4
<1>4. CASE d[f] = c[f] /\ g = At(q) /\ d[g].gen = q.gen
  <2>1. d[f] = Whole(q.gen)
    BY <1>1, <1>2, <1>4 DEF WrittenUpTo
  <2>2. d[f].gen = q.gen /\ d[f].state = "whole" /\ q.gen <= q.gen
    BY <2>1 DEF Whole
  <2> QED
    BY <1>4, <2>2
<1>5. CASE d[f] = c[f] /\ d[g] = c[g]
  BY <1>5, InOrderBefore
<1> QED
  BY <1>1, <1>3, <1>4, <1>5

\* When it has truncated the file it is at, it has still written the same.
LEMMA CutKept ==
    ASSUME NEW q, NEW r, r.cmd = q.cmd, r.at = q.at, r.gen = q.gen, NEW c, NEW d, WrittenUpTo(q, c),
           q.cmd = "init", q.at \in 1..Len(init),
           \A f \in SigningFiles : d[f] = c[f] \/ (f = At(q) /\ d[f] = Cut(q.gen))
    PROVE  WrittenUpTo(r, d)
<1>1. Left(r) = Left(q) /\ At(r) = At(q) /\ At(q) \in Left(q)
  BY AtFirst DEF Left, At
<1> QED
  BY <1>1 DEF WrittenUpTo

\* When it has written the file it is at, it may go on to the next.
LEMMA WrittenFurther ==
    ASSUME NEW q, NEW r, r.cmd = q.cmd, r.at = q.at + 1, r.gen = q.gen, NEW c, NEW d, WrittenUpTo(q, c),
           q.cmd = "init", q.at \in 1..Len(init),
           \A f \in SigningFiles : d[f] = IF f = At(q) THEN Whole(q.gen) ELSE c[f]
    PROVE  WrittenUpTo(r, d)
<1>1. Len(Steps(q.cmd)) \in Nat /\ Steps(q.cmd) = init /\ At(q) = Steps(q.cmd)[q.at].file
  BY InitInOrder DEF Steps, At
<1>2. \A f : (f \notin Left(r) /\ f # At(q)) => f \notin Left(q)
  BY <1>1, LeftAfter
<1>3. \A f \in SigningFiles : f \in Left(r) => f \in Left(q) /\ f # At(q)
  BY NotLeft
<1> QED
  BY <1>2, <1>3 DEF WrittenUpTo

-----------------------------------------------------------------------------
(* Steps and the keys.                                                     *)

\* While an init is running, nothing is settled and no start is undisturbed.
LEMMA InitUnsettles ==
    ASSUME WritingOK, NEW p \in Procs, proc[p].cmd = "init"
    PROVE  ~(settled > 0) /\ \A r \in Procs : proc[r].cmd = "start" => proc[r].gen = Overlapped
  BY DEF WritingOK, SettledOK, ReaderOK

\* What process p knows of itself stays, and so do the files it may not write.
SameRole(q, r) == q.cmd = r.cmd /\ q.at = r.at /\ q.gen = r.gen /\ q.alone = r.alone
WritesOwn(p, state) ==
    \A f \in SigningFiles :
        files'[f] = files[f] \/ /\ proc[p].cmd = "init" /\ f = At(proc[p])
                                /\ files'[f] = [state |-> state, gen |-> proc[p].gen]

\* Whatever is written or left, the next init is newer.
LEMMA NewestKept ==
    ASSUME WritingOK, NEW p \in Procs, NEW state, WritesOwn(p, state), used'.commands = used.commands,
           \A r \in Procs : proc'[r].cmd = "init" => proc[r].cmd = "init" /\ proc'[r].gen = proc[r].gen
    PROVE  NewestOK'
<1>1. \A r \in Procs : proc[r].cmd = "init" => proc[r].gen < used.commands + 2
  BY DEF WritingOK, NewestOK
<1>2. ASSUME NEW f \in SigningFiles PROVE files'[f].gen < used.commands + 2
  <2>1. files[f].gen < used.commands + 2
    BY DEF WritingOK, NewestOK
  <2>2. CASE files'[f] = files[f]
    BY <2>1, <2>2
  <2>3. CASE proc[p].cmd = "init" /\ files'[f] = [state |-> state, gen |-> proc[p].gen]
    BY <1>1, <2>3
  <2> QED
    BY <2>2, <2>3 DEF WritesOwn
<1> QED
  BY <1>1, <1>2 DEF NewestOK

\* Whatever an init writes, files stay in order that no other init is writing.
LEMMA InOrderKept ==
    ASSUME InstallInv, WritingOK, NEW p \in Procs, Running(p), NEW state, WritesOwn(p, state), settled # Overlapped
    PROVE  InOrder(files')
<1>1. InOrder(files)
  BY DEF WritingOK, OrderOK
<1>2. CASE proc[p].cmd # "init"
  <2>1. \A f \in SigningFiles : files[f] = files'[f]
    BY <1>2 DEF WritesOwn
  <2> QED
    BY <1>1, <2>1, InOrderSame
<1>3. CASE proc[p].cmd = "init"
  <2>1. WrittenUpTo(proc[p], files)
    BY <1>3 DEF WritingOK, OrderOK, WriterOK
  <2>2. proc[p].gen \in Int /\ proc[p].at \in 1..Len(init)
    <3>1. ProcOK(proc[p], server.seen, asked)
      BY DEF InstallInv, ProcsOK
    <3>2. proc[p].gen \in Gens
      BY <3>1 DEF ProcOK, ProcType
    <3>3. proc[p].at \in 1..Len(Steps(proc[p].cmd))
      BY <3>1 DEF ProcOK, Running
    <3> QED
      BY <1>3, <3>2, <3>3, InstallationAssumption DEF Gens, Overlapped, Steps
  <2>3. \A f \in SigningFiles : files'[f] = files[f] \/ (f = At(proc[p]) /\ files'[f].gen = proc[p].gen)
    BY DEF WritesOwn
  <2>4. \A f \in SigningFiles : files[f].gen \in Int
    <3>1. \A f \in SigningFiles : files[f] \in FileState
      BY DEF InstallInv, SigningFiles, Files
    <3> QED
      BY <3>1, InstallationAssumption DEF FileState, Gens, Overlapped
  <2> QED
    BY <1>1, <1>3, <2>1, <2>2, <2>3, <2>4, OrderKept
<1> QED
  BY <1>2, <1>3

\* A process that ends, or has more to do in its step, leaves the keys in order.
LEMMA StaysOK ==
    ASSUME InstallInv, WritingOK, NEW p \in Procs, NEW q, proc' = [proc EXCEPT ![p] = q], settled' = settled,
           used'.commands = used.commands, Running(p), WritesOwn(p, "cut"),
           q.cmd = "none" \/ (SameRole(q, proc[p]) /\ q.keys = proc[p].keys)
    PROVE  WritingOK'
<1>0. DOMAIN proc = Procs /\ ProcOK(proc[p], server.seen, asked)
  BY DEF InstallInv, ProcsOK
<1>1. proc'[p] = q /\ \A r \in Procs \ {p} : proc'[r] = proc[r]
  BY <1>0
<1>2. \A r \in Procs : proc'[r].cmd # "none" =>
          SameRole(proc'[r], proc[r]) /\ proc'[r].keys = proc[r].keys
  BY <1>1 DEF SameRole
<1>3. proc[p].cmd = "init" => proc[p].at \in 1..Len(init)
  BY <1>0 DEF ProcOK, Steps
<1>4. SettledOK'
  <2> SUFFICES ASSUME settled > 0
               PROVE  (\A r \in Procs : proc'[r].cmd # "init") /\ \A f \in SigningFiles : files'[f] = Whole(settled)
    BY DEF SettledOK
  <2>1. \A r \in Procs : proc[r].cmd # "init"
    BY DEF WritingOK, SettledOK
  <2>2. \A f \in SigningFiles : files'[f] = files[f]
    BY <2>1 DEF WritesOwn
  <2>3. \A r \in Procs : proc'[r].cmd # "init"
    BY <1>2, <2>1 DEF SameRole
  <2> QED
    BY <2>2, <2>3 DEF WritingOK, SettledOK
<1>5. OrderOK'
  <2> SUFFICES ASSUME settled # Overlapped
               PROVE  (\A r \in Procs : proc'[r].cmd = "init" => proc'[r].alone = "yes") /\ InOrder(files')
    BY DEF OrderOK
  <2>1. \A r \in Procs : proc'[r].cmd = "init" => proc'[r].alone = "yes"
    BY <1>2 DEF WritingOK, OrderOK, SameRole
  <2> QED
    BY <2>1, InOrderKept
<1>6. NewestOK'
  BY <1>2, NewestKept DEF SameRole
<1>7. ASSUME NEW r \in Procs PROVE WriterOK(r)'
  <2> SUFFICES ASSUME proc'[r].cmd = "init", proc'[r].alone = "yes"
               PROVE  WrittenUpTo(proc'[r], files') /\ \A s \in Procs \ {r} : proc'[s].cmd # "init"
    BY DEF WriterOK
  <2>1. SameRole(proc'[r], proc[r])
    BY <1>2
  <2>2. WrittenUpTo(proc[r], files) /\ \A s \in Procs \ {r} : proc[s].cmd # "init"
    BY <2>1 DEF WritingOK, WriterOK, SameRole
  <2>3. \A s \in Procs \ {r} : proc'[s].cmd # "init"
    BY <1>2, <2>2 DEF SameRole
  <2>4. \A f \in SigningFiles : files'[f] = files[f] \/ (f = At(proc[r]) /\ files'[f] = Cut(proc[r].gen))
    BY <2>2 DEF WritesOwn, Cut
  <2>5. proc[r].at \in 1..Len(init)
    <3>1. ProcOK(proc[r], server.seen, asked)
      BY DEF InstallInv, ProcsOK
    <3> QED
      BY <2>1, <3>1 DEF ProcOK, SameRole, Steps
  <2>6. WrittenUpTo(proc'[r], files')
    BY <2>1, <2>2, <2>4, <2>5, CutKept DEF SameRole
  <2> QED
    BY <2>3, <2>6
<1>8. ASSUME NEW r \in Procs PROVE ReaderOK(r)'
  <2> SUFFICES ASSUME proc'[r].cmd = "start", proc'[r].gen # Overlapped
               PROVE  /\ proc'[r].gen = settled /\ \A s \in Procs : proc'[s].cmd # "init"
                      /\ \A f \in SigningFiles : f \notin Left(proc'[r]) => proc'[r].keys[f] = files'[f]
    BY DEF ReaderOK
  <2>1. SameRole(proc'[r], proc[r]) /\ proc'[r].keys = proc[r].keys
    BY <1>2
  <2>2. /\ proc[r].gen = settled /\ \A s \in Procs : proc[s].cmd # "init"
        /\ \A f \in SigningFiles : f \notin Left(proc[r]) => proc[r].keys[f] = files[f]
    BY <2>1 DEF WritingOK, ReaderOK, SameRole
  <2>3. Left(proc'[r]) = Left(proc[r]) /\ proc'[r].gen = proc[r].gen
    BY <2>1 DEF SameRole, Left
  <2>4. \A f \in SigningFiles : files'[f] = files[f]
    BY <2>2 DEF WritesOwn
  <2>5. \A s \in Procs : proc'[s].cmd # "init"
    BY <1>2, <2>2 DEF SameRole
  <2> QED
    BY <2>1, <2>2, <2>3, <2>4, <2>5
<1> QED
  BY <1>4, <1>5, <1>6, <1>7, <1>8 DEF WritingOK

\* So does one that goes on to its next step: an init if it wrote the file of this
\* one, a start if it read it.
LEMMA GoesOnOK ==
    ASSUME InstallInv, WritingOK, NEW p \in Procs, NEW q \in ProcType, Advance(p, q), Running(p),
           used'.commands = used.commands, SameRole(q, proc[p]), WritesOwn(p, "whole"),
           proc[p].cmd = "init" =>
              (At(proc[p]) \in SigningFiles => files'[At(proc[p])] = Whole(proc[p].gen)),
           proc[p].cmd = "start" =>
              \A f \in SigningFiles : q.keys[f] = IF f = At(proc[p]) THEN files[f] ELSE proc[p].keys[f]
    PROVE  WritingOK'
<1> DEFINE n == [q EXCEPT !.at = @ + 1]
           done == q.at = Len(Steps(q.cmd))
<1>0. DOMAIN proc = Procs /\ ProcOK(proc[p], server.seen, asked)
  BY DEF InstallInv, ProcsOK
<1>1. /\ proc[p].at \in 1..Len(Steps(proc[p].cmd)) /\ Len(Steps(proc[p].cmd)) \in Nat
      /\ q.cmd = proc[p].cmd /\ q.at = proc[p].at /\ q.gen = proc[p].gen /\ q.alone = proc[p].alone
  BY <1>0, StepsNonEmpty DEF ProcOK, ProcType, Running, SameRole
<1>2. n.cmd = q.cmd /\ n.at = q.at + 1 /\ n.gen = q.gen /\ n.alone = q.alone /\ n.keys = q.keys
  BY DEF ProcType
<1>3. proc'[p] = (IF done THEN Idle ELSE n) /\ \A r \in Procs \ {p} : proc'[r] = proc[r]
  BY <1>0 DEF Advance
<1>4. settled' = IF done /\ q.cmd = "init" /\ q.alone = "yes" THEN q.gen ELSE settled
  BY DEF Advance
<1>5. Idle.cmd = "none"
  BY DEF Idle
<1>6. \A r \in Procs : proc'[r].cmd # "none" =>
          proc'[r].cmd = proc[r].cmd /\ proc'[r].gen = proc[r].gen /\ proc'[r].alone = proc[r].alone
  BY <1>1, <1>2, <1>3, <1>5
<1>7. \A f : (f \notin Left(n) /\ f # At(proc[p])) => f \notin Left(q)
  BY <1>1, <1>2, LeftAfter DEF At
<1>8. done => \A f : f # At(proc[p]) => f \notin Left(q)
  BY <1>1, LeftAtEnd DEF At
<1>9. Left(q) = Left(proc[p])
  BY <1>1 DEF Left
<1> HIDE DEF n, done
<1>10. NewestOK'
  BY <1>6, NewestKept
<1>11. CASE proc[p].cmd = "init"
  <2>1. ~(settled > 0) /\ \A r \in Procs : proc[r].cmd = "start" => proc[r].gen = Overlapped
    BY <1>11, InitUnsettles
  <2>2. \A r \in Procs : ReaderOK(r)'
    BY <1>6, <2>1 DEF ReaderOK
  <2>3. CASE proc[p].alone # "yes"
    <3>1. settled = Overlapped /\ settled' = Overlapped /\ ~(Overlapped > 0)
      BY <1>1, <1>4, <1>11, <2>3 DEF WritingOK, OrderOK, Overlapped
    <3>2. ASSUME NEW r \in Procs PROVE ~(proc'[r].cmd = "init" /\ proc'[r].alone = "yes")
      <4>1. CASE r = p
        BY <1>6, <2>3, <4>1
      <4>2. CASE r # p
        BY <1>3, <1>11, <4>2 DEF WritingOK, WriterOK
      <4> QED
        BY <4>1, <4>2
    <3> QED
      BY <1>10, <2>2, <3>1, <3>2 DEF WritingOK, SettledOK, OrderOK, WriterOK
  <2>4. CASE proc[p].alone = "yes"
    <3>1. WrittenUpTo(proc[p], files) /\ \A r \in Procs \ {p} : proc[r].cmd # "init"
      BY <1>11, <2>4 DEF WritingOK, WriterOK
    <3>2. \A f \in SigningFiles : files'[f] = IF f = At(proc[p]) THEN Whole(proc[p].gen) ELSE files[f]
      BY <1>11 DEF WritesOwn
    <3>3. \A r \in Procs \ {p} : proc'[r].cmd # "init"
      BY <1>3, <3>1
    <3>4. CASE done
      <4>1. settled' = proc[p].gen /\ proc'[p].cmd # "init"
        BY <1>1, <1>3, <1>4, <1>5, <1>11, <2>4, <3>4
      <4>2. \A f \in SigningFiles : files'[f] = Whole(proc[p].gen)
        BY <1>8, <1>9, <3>1, <3>2, <3>4 DEF WrittenUpTo
      <4>3. proc[p].gen \in Int
        <5>1. proc[p].gen \in Gens
          BY <1>0 DEF ProcOK, ProcType
        <5> QED
          BY <5>1, InstallationAssumption DEF Gens, Overlapped
      <4>4. InOrder(files')
        BY <4>2, <4>3, InOrderWhole
      <4> QED
        BY <1>10, <2>2, <3>3, <4>1, <4>2, <4>4 DEF WritingOK, SettledOK, OrderOK, WriterOK
    <3>5. CASE ~done
      <4>1. settled' = settled /\ proc'[p] = n
        BY <1>3, <1>4, <3>5
      <4>2. WrittenUpTo(n, files')
        <5>1. proc[p].at \in 1..Len(init)
          BY <1>1, <1>11 DEF Steps
        <5> QED
          BY <1>1, <1>2, <1>11, <3>1, <3>2, <5>1, WrittenFurther
      <4>3. settled # Overlapped => InOrder(files')
        BY InOrderKept
      <4>4. OrderOK'
        BY <1>1, <1>2, <2>4, <3>3, <4>1, <4>3 DEF OrderOK
      <4> QED
        BY <1>10, <2>1, <2>2, <3>3, <4>1, <4>2, <4>4 DEF WritingOK, SettledOK, WriterOK
    <3> QED
      BY <3>4, <3>5
  <2> QED
    BY <2>3, <2>4
<1>12. CASE proc[p].cmd # "init"
  <2>1. settled' = settled /\ \A f \in SigningFiles : files'[f] = files[f]
    BY <1>1, <1>4, <1>12 DEF WritesOwn
  <2>2. SettledOK'
    BY <1>6, <2>1 DEF WritingOK, SettledOK
  <2>3. OrderOK'
    <3>1. settled # Overlapped => InOrder(files')
      BY InOrderKept
    <3> QED
      BY <1>6, <2>1, <3>1 DEF WritingOK, OrderOK
  <2>4. ASSUME NEW r \in Procs PROVE WriterOK(r)'
    <3>1. CASE r = p
      BY <1>6, <1>12, <3>1 DEF WriterOK
    <3>2. CASE r # p
      <4>1. proc'[r] = proc[r]
        BY <1>3, <3>2
      <4>2. WrittenUpTo(proc[r], files) => WrittenUpTo(proc'[r], files')
        BY <2>1, <4>1 DEF WrittenUpTo
      <4> QED
        BY <1>6, <4>1, <4>2 DEF WritingOK, WriterOK
    <3> QED
      BY <3>1, <3>2
  <2>5. ASSUME NEW r \in Procs PROVE ReaderOK(r)'
    <3>1. CASE r = p
      <4> SUFFICES ASSUME proc'[p].cmd = "start", proc'[p].gen # Overlapped
                   PROVE  /\ proc'[p].gen = settled' /\ \A s \in Procs : proc'[s].cmd # "init"
                          /\ \A f \in SigningFiles : f \notin Left(proc'[p]) => proc'[p].keys[f] = files'[f]
        BY <3>1 DEF ReaderOK
      <4>1. /\ proc'[p] = n /\ proc[p].cmd = "start" /\ proc[p].gen # Overlapped
            /\ n.gen = proc[p].gen /\ n.keys = q.keys
        BY <1>1, <1>2, <1>3, <1>5
      <4>2. /\ proc[p].gen = settled /\ \A s \in Procs : proc[s].cmd # "init"
            /\ \A f \in SigningFiles : f \notin Left(proc[p]) => proc[p].keys[f] = files[f]
        BY <4>1 DEF WritingOK, ReaderOK
      <4>3. \A f \in SigningFiles : f \notin Left(n) => q.keys[f] = files[f]
        BY <1>7, <1>9, <4>1, <4>2
      <4>4. \A s \in Procs : proc'[s].cmd # "init"
        BY <1>6, <4>2
      <4> QED
        BY <2>1, <4>1, <4>2, <4>3, <4>4
    <3>2. CASE r # p
      <4>1. proc'[r] = proc[r]
        BY <1>3, <3>2
      <4>2. Left(proc'[r]) = Left(proc[r])
        BY <4>1
      <4> QED
        BY <1>6, <2>1, <4>1, <4>2 DEF WritingOK, ReaderOK
    <3> QED
      BY <3>1, <3>2
  <2> QED
    BY <1>10, <2>2, <2>3, <2>4, <2>5 DEF WritingOK
<1> QED
  BY <1>11, <1>12

\* A step that neither writes nor reads a file, ended or not, leaves them in order.
LEMMA PlainStep ==
    ASSUME InstallInv, WritingOK, NEW p \in Procs, NEW op, op \notin {"write", "read"}, Doing(p, op),
           used'.commands = used.commands, \A f \in SigningFiles : files'[f] = files[f],
           NEW q \in ProcType, SameRole(q, proc[p]), q.keys = proc[p].keys, Advance(p, q) \/ Abort(p)
    PROVE  WritingOK'
<1>1. Running(p) /\ WritesOwn(p, "cut") /\ WritesOwn(p, "whole")
  BY DEF Doing, WritesOwn
<1>2. /\ proc[p].cmd \in CommandNames /\ Current(p).op = op
      /\ proc[p].at \in 1..Len(Steps(proc[p].cmd))
  BY InstallationAssumption DEF InstallInv, ProcsOK, ProcOK, ProcType, Doing, Running
<1>3. CASE Abort(p)
  BY <1>1, <1>3, StaysOK DEF Abort, Idle
<1>4. CASE Advance(p, q)
  <2>1. proc[p].cmd # "init" /\ (proc[p].cmd = "start" => At(proc[p]) \notin SigningFiles)
    BY <1>2, WhoWrites DEF Current, At
  <2>2. proc[p].cmd = "start" => \A f \in SigningFiles : q.keys[f] = IF f = At(proc[p]) THEN files[f] ELSE proc[p].keys[f]
    BY <2>1
  <2> QED
    BY <1>1, <1>4, <2>1, <2>2, GoesOnOK
<1> QED
  BY <1>3, <1>4

\* A process that ends leaves them in order, whatever it was doing.
LEMMA EndStep ==
    ASSUME InstallInv, WritingOK, NEW p \in Procs, Running(p), Abort(p), used'.commands = used.commands,
           \A f \in SigningFiles : files'[f] = files[f]
    PROVE  WritingOK'
  BY StaysOK DEF Abort, Idle, WritesOwn

\* What the daemon has loaded stays.
LEMMA SameDaemon == ASSUME KeysInv, UNCHANGED daemon, WritingOK' PROVE KeysInv'
  BY DEF KeysInv, KeysInOrder

\* A process is what it is, whatever the field that changes.
LEMMA ProcTypes == ASSUME InstallInv, NEW p \in Procs PROVE proc[p] \in ProcType
  BY DEF InstallInv, ProcsOK, ProcOK

\* Nothing installed, or one init done: the keys are in order.
LEMMA KeysInit == Init => KeysInv
<1> SUFFICES ASSUME Init PROVE KeysInv
  OBVIOUS
<1>1. \A p \in Procs : proc[p].cmd = "none"
  BY DEF Init, Idle
<1>2. SettledOK
  <2>1. CASE Empty
    BY <1>1, <2>1 DEF Empty, SettledOK
  <2>2. CASE SignedUp
    BY <1>1, <2>2 DEF SignedUp, SettledOK, SigningFiles, Files, Whole
  <2> QED
    BY <2>1, <2>2 DEF Init
<1>3. KeysInOrder
  BY DEF Init, KeysInOrder
<1>4. \E gen \in {0, 1}, state \in {"absent", "whole"} :
          \A f \in SigningFiles : files[f] = [state |-> state, gen |-> gen]
  BY DEF Init, Empty, SignedUp, SigningFiles, Files, NoFile
<1>5. OrderOK
  <2>1. PICK gen \in {0, 1}, state \in {"absent", "whole"} :
            \A f \in SigningFiles : files[f] = [state |-> state, gen |-> gen]
    BY <1>4
  <2>2. \A f \in SigningFiles : files[f].gen = gen /\ files[f].state # "cut"
    BY <2>1
  <2>3. \A f, g : Before(f, g) => /\ files[g].gen <= files[f].gen
                                  /\ files[f].state = "cut" => files[g].gen < files[f].gen
    BY <2>2, InitInOrder
  <2>4. InOrder(files)
    BY <2>3, InOrderBefore
  <2> QED
    BY <1>1, <2>4 DEF OrderOK
<1>6. NewestOK
  BY <1>1, <1>4 DEF NewestOK, Init
<1> QED
  BY <1>1, <1>2, <1>3, <1>5, <1>6 DEF KeysInv, WritingOK, WriterOK, ReaderOK

\* A command begins.
LEMMA BeginKeys ==
    ASSUME InstallInv, KeysInv, NEW p \in Procs, NEW cmd \in Commands, Begin(p, cmd) PROVE KeysInv'
<1> DEFINE g == IF cmd # "start" THEN used.commands + 2 ELSE IF InitRunning THEN Overlapped ELSE settled
           a == IF InitRunning THEN "no" ELSE "yes"
           idle == Idle
           new == [idle EXCEPT !.cmd = cmd, !.at = 1, !.gen = g, !.alone = a]
           other(r) == [proc[r] EXCEPT !.alone = "no", !.gen = IF proc[r].cmd = "start" THEN Overlapped ELSE @]
<1>1. /\ UNCHANGED <<files, daemon>> /\ ~Running(p) /\ used'.commands = used.commands + 1
      /\ settled' = IF cmd # "init" THEN settled
                    ELSE IF InitRunning \/ settled = Overlapped THEN Overlapped ELSE 0
      /\ proc' = [r \in Procs |-> IF r = p THEN new ELSE IF cmd # "init" THEN proc[r] ELSE other(r)]
  BY DEF Begin, InstallInv, CountsOK
<1>2. new.cmd = cmd /\ new.at = 1 /\ new.gen = g /\ new.alone = a
  <2>1. PICK gen : gen = g
    OBVIOUS
  <2>2. PICK alone : alone = a
    OBVIOUS
  <2>3. idle = [cmd |-> "none", at |-> 0, offset |-> -1, cfg |-> DefaultConfig, reply |-> "free",
                gen |-> 0, alone |-> "no", keys |-> NoKeys]
    BY DEF Idle
  <2>4. new = [idle EXCEPT !.cmd = cmd, !.at = 1, !.gen = gen, !.alone = alone]
    BY <2>1, <2>2
  <2> HIDE DEF g, a, new
  <2> QED
    BY <2>1, <2>2, <2>3, <2>4
<1>3. \A r \in Procs : /\ other(r).cmd = proc[r].cmd /\ other(r).alone = "no"
                       /\ other(r).gen = IF proc[r].cmd = "start" THEN Overlapped ELSE proc[r].gen
  BY ProcTypes DEF ProcType
<1> HIDE DEF new, other, a, g
<1>4. proc'[p] = new /\ \A r \in Procs \ {p} : proc'[r] = IF cmd # "init" THEN proc[r] ELSE other(r)
  BY <1>1
<1>5. WritingOK /\ used.commands \in Int
  BY DEF KeysInv, InstallInv, CountsOK
<1>6. NewestOK'
  <2>1. \A f \in SigningFiles : files[f].gen \in Int
    <3>1. \A f \in SigningFiles : files[f] \in FileState
      BY DEF InstallInv, SigningFiles, Files
    <3> QED
      BY <3>1, InstallationAssumption DEF FileState, Gens, Overlapped
  <2>2. \A r \in Procs : proc[r].gen \in Int
    BY ProcTypes, InstallationAssumption DEF ProcType, Gens, Overlapped
  <2>3. \A i, k \in Int : i < k + 2 => i < (k + 1) + 2
    OBVIOUS
  <2>4. \A f \in SigningFiles : files'[f].gen < used'.commands + 2
    BY <1>1, <1>5, <2>1, <2>3 DEF WritingOK, NewestOK
  <2>5. ASSUME NEW r \in Procs, proc'[r].cmd = "init" PROVE proc'[r].gen < used'.commands + 2
    <3>1. CASE r = p
      <4>1. proc'[r].gen = used.commands + 2
        BY <1>2, <1>4, <2>5, <3>1 DEF g
      <4> QED
        BY <1>1, <1>5, <4>1
    <3>2. CASE r # p
      <4>1. proc[r].cmd = "init" /\ proc'[r].gen = proc[r].gen
        BY <1>3, <1>4, <2>5, <3>2
      <4> QED
        BY <1>1, <1>5, <2>2, <2>3, <4>1 DEF WritingOK, NewestOK
    <3> QED
      BY <3>1, <3>2
  <2> QED
    BY <2>4, <2>5 DEF NewestOK
<1>7. CASE cmd = "init"
  <2>1. SettledOK' /\ \A r \in Procs : ReaderOK(r)'
    BY <1>1, <1>2, <1>3, <1>4, <1>7 DEF SettledOK, ReaderOK, Overlapped
  <2>2. ASSUME NEW r \in Procs PROVE WriterOK(r)'
    <3>1. CASE r # p
      BY <1>3, <1>4, <1>7, <3>1 DEF WriterOK
    <3>2. CASE r = p
      <4>1. SigningFiles \subseteq Left(new)
        BY <1>2, <1>7, AllLeft
      <4>2. new.gen = used.commands + 2
        BY <1>2, <1>7 DEF g
      <4>3. WrittenUpTo(new, files')
        BY <1>1, <1>5, <4>1, <4>2 DEF WrittenUpTo, WritingOK, NewestOK
      <4>4. new.alone = "yes" => \A s \in Procs : proc[s].cmd # "init"
        BY <1>2 DEF a, InitRunning
      <4>5. new.alone = "yes" => \A s \in Procs \ {p} : proc'[s].cmd # "init"
        BY <1>3, <1>4, <4>4
      <4> QED
        BY <1>4, <3>2, <4>3, <4>5 DEF WriterOK
    <3> QED
      BY <3>1, <3>2
  <2>3. OrderOK'
    <3> SUFFICES ASSUME settled' # Overlapped
                 PROVE  (\A r \in Procs : proc'[r].cmd = "init" => proc'[r].alone = "yes") /\ InOrder(files')
      BY DEF OrderOK
    <3>1. ~InitRunning /\ settled # Overlapped
      BY <1>1, <1>7
    <3>2. \A r \in Procs \ {p} : proc'[r].cmd # "init"
      BY <1>3, <1>4, <3>1 DEF InitRunning
    <3>3. proc'[p].alone = "yes"
      BY <1>2, <1>4, <3>1 DEF a
    <3> QED
      BY <1>1, <1>5, <3>1, <3>2, <3>3 DEF WritingOK, OrderOK
  <2> QED
    BY <1>1, <1>6, <2>1, <2>2, <2>3, SameDaemon DEF WritingOK
<1>8. CASE cmd # "init"
  <2>0. proc'[p].cmd # "init" /\ (\A r \in Procs \ {p} : proc'[r] = proc[r]) /\ settled' = settled
    BY <1>1, <1>2, <1>4, <1>8
  <2>1. SettledOK' /\ OrderOK'
    BY <1>1, <1>5, <2>0 DEF WritingOK, SettledOK, OrderOK
  <2>2. ASSUME NEW r \in Procs PROVE WriterOK(r)'
    <3>1. CASE r = p
      BY <2>0, <3>1 DEF WriterOK
    <3>2. CASE r # p
      <4>1. proc'[r] = proc[r]
        BY <2>0, <3>2
      <4>2. WriterOK(r)
        BY <1>5 DEF WritingOK
      <4>3. WrittenUpTo(proc[r], files) => WrittenUpTo(proc'[r], files')
        BY <1>1, <4>1
      <4> QED
        BY <2>0, <4>1, <4>2, <4>3 DEF WriterOK
    <3> QED
      BY <3>1, <3>2
  <2>3. ASSUME NEW r \in Procs PROVE ReaderOK(r)'
    <3>1. CASE r = p
      <4> SUFFICES ASSUME cmd = "start", new.gen # Overlapped PROVE ReaderOK(p)'
        BY <1>2, <1>4, <3>1 DEF ReaderOK
      <4>1. new.gen = settled /\ ~InitRunning /\ SigningFiles \subseteq Left(new)
        BY <1>2, AllLeft DEF g
      <4>2. \A s \in Procs : proc'[s].cmd # "init"
        BY <2>0, <4>1 DEF InitRunning
      <4> QED
        BY <1>4, <2>0, <4>1, <4>2 DEF ReaderOK
    <3>2. CASE r # p
      <4>1. proc'[r] = proc[r]
        BY <2>0, <3>2
      <4>2. Left(proc'[r]) = Left(proc[r])
        BY <4>1
      <4>3. ReaderOK(r)
        BY <1>5 DEF WritingOK
      <4> QED
        BY <1>1, <2>0, <4>1, <4>2, <4>3 DEF ReaderOK
    <3> QED
      BY <3>1, <3>2
  <2> QED
    BY <1>1, <1>6, <2>1, <2>2, <2>3, SameDaemon DEF WritingOK
<1> QED
  BY <1>7, <1>8

\* A file of the keys is truncated or written by an init only.
LEMMA OnlyInitWrites ==
    ASSUME InstallInv, NEW p \in Procs, Doing(p, "write"), Current(p).file \in SigningFiles
    PROVE  proc[p].cmd = "init"
<1>1. proc[p].cmd \in CommandNames /\ proc[p].at \in 1..Len(Steps(proc[p].cmd)) /\ Current(p).op = "write"
  BY InstallationAssumption DEF InstallInv, ProcsOK, ProcOK, ProcType, Doing, Running
<1> QED
  BY <1>1, WhoWrites DEF Current

\* A file is truncated.
LEMMA TruncateKeys == ASSUME InstallInv, KeysInv, NEW p \in Procs, Truncate(p) PROVE KeysInv'
<1> DEFINE q == [proc[p] EXCEPT !.offset = 0]
<1>1. Doing(p, "write") /\ Running(p) /\ proc' = [proc EXCEPT ![p] = q] /\ UNCHANGED <<daemon, settled, used>>
  BY DEF Truncate, Doing
<1>2. SameRole(q, proc[p]) /\ q.keys = proc[p].keys
  BY ProcTypes DEF ProcType, SameRole
<1>3. WritesOwn(p, "cut")
  <2>1. Current(p).file = At(proc[p])
    BY DEF Current, At
  <2>2. UNCHANGED files \/ files' = [files EXCEPT ![At(proc[p])] = [state |-> "cut", gen |-> proc[p].gen]]
    BY <2>1 DEF Truncate
  <2>3. files \in [Files -> FileState] /\ SigningFiles \subseteq Files
    BY DEF InstallInv, SigningFiles, Files
  <2>4. ASSUME NEW f \in SigningFiles, files'[f] # files[f]
        PROVE  f = At(proc[p]) /\ files'[f] = [state |-> "cut", gen |-> proc[p].gen]
    BY <2>2, <2>3, <2>4
  <2>5. At(proc[p]) \in SigningFiles => proc[p].cmd = "init"
    BY <1>1, <2>1, OnlyInitWrites
  <2> QED
    BY <2>4, <2>5 DEF WritesOwn
<1> HIDE DEF q
<1>4. WritingOK'
  BY <1>1, <1>2, <1>3, StaysOK DEF KeysInv
<1> QED
  BY <1>1, <1>4, SameDaemon

\* The configuration is no part of the keys.
LEMMA WriteConfigKeys == ASSUME InstallInv, KeysInv, NEW p \in Procs, WriteConfig(p) PROVE KeysInv'
<1>1. /\ Doing(p, "write") /\ Running(p) /\ UNCHANGED <<files, daemon, used>> /\ At(proc[p]) \notin SigningFiles
      /\ WritesOwn(p, "cut") /\ WritesOwn(p, "whole") /\ WritingOK
  BY OtherNames DEF WriteConfig, Doing, WritesOwn, KeysInv, Current, At
<1>2. proc[p].cmd # "start"
  <2>1. proc[p].cmd \in CommandNames /\ proc[p].at \in 1..Len(Steps(proc[p].cmd)) /\ Current(p).op = "write"
    BY <1>1, InstallationAssumption DEF InstallInv, ProcsOK, ProcOK, ProcType, Doing, Running
  <2> QED
    BY <2>1, WhoWrites DEF Current
<1>3. \A o \in -1..1 : /\ [proc[p] EXCEPT !.offset = o] \in ProcType
                       /\ SameRole([proc[p] EXCEPT !.offset = o], proc[p])
                       /\ [proc[p] EXCEPT !.offset = o].keys = proc[p].keys
  BY ProcTypes DEF ProcType, SameRole
<1>4. CASE proc[p].offset + 1 = 2
  <2>1. Advance(p, [proc[p] EXCEPT !.offset = -1])
    BY <1>4 DEF WriteConfig
  <2>2. WritingOK'
    BY <1>1, <1>2, <1>3, <2>1, GoesOnOK
  <2> QED
    BY <1>1, <2>2, SameDaemon
<1>5. CASE proc[p].offset + 1 # 2
  <2>1. proc' = [proc EXCEPT ![p].offset = proc[p].offset + 1] /\ UNCHANGED settled /\ proc[p].offset + 1 \in -1..1
    BY <1>5, ProcTypes DEF WriteConfig, ProcType
  <2>2. proc' = [proc EXCEPT ![p] = [proc[p] EXCEPT !.offset = proc[p].offset + 1]]
    BY <2>1
  <2>3. WritingOK'
    BY <1>1, <1>3, <2>1, <2>2, StaysOK
  <2> QED
    BY <1>1, <2>3, SameDaemon
<1> QED
  BY <1>4, <1>5

\* A file is written, one of the keys by an init.
LEMMA WriteFileKeys == ASSUME InstallInv, KeysInv, NEW p \in Procs, WriteFile(p) PROVE KeysInv'
<1> DEFINE q == [proc[p] EXCEPT !.offset = -1]
<1>1. /\ Doing(p, "write") /\ Running(p) /\ UNCHANGED <<daemon, used>> /\ Advance(p, q) /\ WritingOK
      /\ files' = [files EXCEPT ![Current(p).file] = [state |-> "whole", gen |-> proc[p].gen]]
  BY DEF WriteFile, Doing, KeysInv
<1>2. q \in ProcType /\ SameRole(q, proc[p]) /\ q.keys = proc[p].keys
  BY ProcTypes DEF ProcType, SameRole
<1>3. \A f \in SigningFiles : files'[f] = IF f = At(proc[p]) THEN Whole(proc[p].gen) ELSE files[f]
  <2>1. files \in [Files -> FileState] /\ SigningFiles \subseteq Files
    BY DEF InstallInv, SigningFiles, Files
  <2> QED
    BY <1>1, <2>1 DEF Whole, Current, At
<1>4. WritesOwn(p, "whole")
  <2>1. At(proc[p]) \in SigningFiles => proc[p].cmd = "init"
    BY <1>1, OnlyInitWrites DEF Current, At
  <2> QED
    BY <1>3, <2>1 DEF WritesOwn, Whole
<1>5. proc[p].cmd # "start"
  <2>1. proc[p].cmd \in CommandNames /\ proc[p].at \in 1..Len(Steps(proc[p].cmd)) /\ Current(p).op = "write"
    BY <1>1, InstallationAssumption DEF InstallInv, ProcsOK, ProcOK, ProcType, Doing, Running
  <2> QED
    BY <2>1, WhoWrites DEF Current
<1> HIDE DEF q
<1>6. WritingOK'
  BY <1>1, <1>2, <1>3, <1>4, <1>5, GoesOnOK
<1> QED
  BY <1>1, <1>6, SameDaemon

\* A process stays what it is when it goes on.
LEMMA SameAsItWas ==
    ASSUME InstallInv, NEW p \in Procs
    PROVE  proc[p] \in ProcType /\ SameRole(proc[p], proc[p]) /\ proc[p].keys = proc[p].keys
  BY ProcTypes DEF SameRole

\* The other steps only go on or end.
LEMMA LoadKeys == ASSUME InstallInv, KeysInv, NEW p \in Procs, LoadConfig(p) PROVE KeysInv'
<1> DEFINE q == [proc[p] EXCEPT !.cfg = LoadedConfig]
<1>1. Doing(p, "load") /\ UNCHANGED <<files, daemon, used>> /\ WritingOK /\ Running(p)
  BY DEF LoadConfig, KeysInv, Doing
<1>2. CASE Loads
  <2>1. LoadedConfig \in [attest : {"yes", "no"}, tier : Plans]
    <3>1. ConfigOK(LoadedConfig, server.seen, asked)
      BY <1>2, LoadedOK DEF InstallInv, ServerOK, ConfigTextOK
    <3> QED
      BY <3>1 DEF ConfigOK
  <2>2. q \in ProcType /\ SameRole(q, proc[p]) /\ q.keys = proc[p].keys
    BY <2>1, ProcTypes DEF ProcType, SameRole
  <2>3. Advance(p, q)
    BY <1>2 DEF LoadConfig
  <2> HIDE DEF q
  <2>4. WritingOK'
    BY <1>1, <2>2, <2>3, PlainStep, "load" \notin {"write", "read"}
  <2> QED
    BY <1>1, <2>4, SameDaemon
<1>3. CASE ~Loads
  <2>1. WritingOK'
    BY <1>1, <1>3, EndStep DEF LoadConfig
  <2> QED
    BY <1>1, <2>1, SameDaemon
<1> QED
  BY <1>2, <1>3

\* Nothing of the keys is removed.
LEMMA RemoveKeys == ASSUME InstallInv, KeysInv, NEW p \in Procs, Remove(p) PROVE KeysInv'
<1>1. Doing(p, "remove") /\ Advance(p, proc[p]) /\ UNCHANGED <<daemon, used>> /\ WritingOK
  BY DEF Remove, KeysInv
<1>2. Current(p).file \notin SigningFiles
  <2>1. proc[p].cmd \in CommandNames /\ proc[p].at \in 1..Len(Steps(proc[p].cmd)) /\ Current(p).op = "remove"
    BY <1>1, InstallationAssumption DEF InstallInv, ProcsOK, ProcOK, ProcType, Doing, Running
  <2>2. proc[p].cmd # "init"
    BY <2>1, WhoWrites DEF Current
  <2> QED
    BY <2>1, <2>2, WhoWrites DEF Current
<1>3. \A f \in SigningFiles : files'[f] = files[f]
  BY <1>2 DEF Remove, InstallInv
<1>4. WritingOK'
  BY <1>1, <1>3, SameAsItWas, PlainStep, "remove" \notin {"write", "read"}
<1> QED
  BY <1>1, <1>4, SameDaemon

\* A file is looked for.
LEMMA CheckKeys == ASSUME InstallInv, KeysInv, NEW p \in Procs, Check(p) PROVE KeysInv'
<1>1. /\ Doing(p, "need") \/ Doing(p, "unless")
      /\ Advance(p, proc[p]) \/ Abort(p)
      /\ UNCHANGED <<files, daemon, used>> /\ WritingOK
  BY DEF Check, KeysInv
<1>2. WritingOK'
  <2>1. CASE Doing(p, "need")
    BY <1>1, <2>1, SameAsItWas, PlainStep, "need" \notin {"write", "read"}
  <2>2. CASE Doing(p, "unless")
    BY <1>1, <2>2, SameAsItWas, PlainStep, "unless" \notin {"write", "read"}
  <2> QED
    BY <1>1, <2>1, <2>2
<1> QED
  BY <1>1, <1>2, SameDaemon

\* A process hears of a plan.
LEMMA HearKeys ==
    ASSUME InstallInv, KeysInv, NEW p \in Procs, NEW op \in {"ask", "checkout"}, Doing(p, op), NEW plan \in Plans,
           Advance(p, [proc[p] EXCEPT !.reply = plan]) \/ Abort(p), UNCHANGED <<files, daemon, used>>
    PROVE  KeysInv'
<1> DEFINE q == [proc[p] EXCEPT !.reply = plan]
<1>1. q \in ProcType /\ SameRole(q, proc[p]) /\ q.keys = proc[p].keys
  BY ProcTypes DEF ProcType, SameRole
<1>2. Advance(p, q) \/ Abort(p)
  OBVIOUS
<1> HIDE DEF q
<1>3. WritingOK /\ op \notin {"write", "read"}
  BY DEF KeysInv
<1>4. WritingOK'
  BY <1>1, <1>2, <1>3, PlainStep
<1> QED
  BY <1>4, SameDaemon

\* The server is asked.
LEMMA AskKeys == ASSUME InstallInv, KeysInv, NEW p \in Procs, AskForPlan(p) PROVE KeysInv'
<1>1. server.plan \in Plans /\ "free" \in Plans
  BY DEF InstallInv, ServerOK, Plans
<1>2. /\ Doing(p, "ask") /\ UNCHANGED <<files, daemon, used>>
      /\ (\E plan \in {server.plan, "free"} : Advance(p, [proc[p] EXCEPT !.reply = plan])) \/ Abort(p)
  BY DEF AskForPlan
<1>3. CASE Abort(p)
  BY <1>1, <1>2, <1>3, HearKeys
<1>4. CASE \E plan \in {server.plan, "free"} : Advance(p, [proc[p] EXCEPT !.reply = plan])
  <2>1. PICK plan \in {server.plan, "free"} : Advance(p, [proc[p] EXCEPT !.reply = plan])
    BY <1>4
  <2>2. plan \in Plans
    BY <1>1
  <2> QED
    BY <1>2, <2>1, <2>2, HearKeys
<1> QED
  BY <1>2, <1>3, <1>4

\* A tier is asked for.
LEMMA CheckoutKeys ==
    ASSUME InstallInv, KeysInv, NEW p \in Procs, NEW tier \in Tiers, Checkout(p, tier) PROVE KeysInv'
<1>1. tier \in Plans
  BY DEF Plans
<1> QED
  BY <1>1, HearKeys DEF Checkout

\* The payment is waited for.
LEMMA PollKeys == ASSUME InstallInv, KeysInv, NEW p \in Procs, Poll(p) PROVE KeysInv'
<1>1. Doing(p, "poll") /\ (Advance(p, proc[p]) \/ Abort(p)) /\ UNCHANGED <<files, daemon, used>> /\ WritingOK
  BY DEF Poll, KeysInv
<1>2. WritingOK'
  BY <1>1, SameAsItWas, PlainStep, "poll" \notin {"write", "read"}
<1> QED
  BY <1>1, <1>2, SameDaemon

\* A daemon that finds no keys does not sign.
LEMMA FindKeysKeys == ASSUME InstallInv, KeysInv, NEW p \in Procs, FindKeys(p) PROVE KeysInv'
<1>1. /\ Doing(p, "exists") /\ (Advance(p, proc[p]) \/ Abort(p)) /\ UNCHANGED <<files, used>> /\ WritingOK
      /\ UNCHANGED daemon \/ daemon'.state = "unsigned"
  BY DEF FindKeys, KeysInv
<1>2. WritingOK'
  BY <1>1, SameAsItWas, PlainStep, "exists" \notin {"write", "read"}
<1> QED
  BY <1>1, <1>2, SameDaemon DEF KeysInv, KeysInOrder

\* A key is read; with the last one the daemon signs.
LEMMA ReadKeyKeys == ASSUME InstallInv, KeysInv, NEW p \in Procs, ReadKey(p) PROVE KeysInv'
<1> DEFINE f == At(proc[p])
           q == [proc[p] EXCEPT !.keys[f] = files[f]]
<1>1. Doing(p, "read") /\ Running(p) /\ UNCHANGED <<files, used>> /\ WritingOK
  BY DEF ReadKey, KeysInv, Doing
<1>2. proc[p].cmd = "start" /\ proc[p].at \in 1..Len(start)
  <2>1. proc[p].cmd \in CommandNames /\ proc[p].at \in 1..Len(Steps(proc[p].cmd)) /\ Current(p).op = "read"
    BY <1>1, InstallationAssumption DEF InstallInv, ProcsOK, ProcOK, ProcType, Doing, Running
  <2>2. proc[p].cmd = "start"
    BY <2>1, WhoWrites DEF Current
  <2> QED
    BY <2>1, <2>2 DEF Steps
<1>3. f \in SigningFiles
  <2>1. start[proc[p].at] \in StepsIn(start) /\ f = start[proc[p].at].file /\ start[proc[p].at].op = "read"
    BY <1>1, <1>2 DEF StepsIn, Steps, Current, Doing, At
  <2>2. start[proc[p].at] \notin {Load, Step("exists", NoFileName)}
    BY <2>1 DEF Load, Step
  <2>3. \E k \in SigningFiles : start[proc[p].at] = Step("read", k)
    BY <2>1, <2>2, StartSteps DEF SigningFiles
  <2> QED
    BY <2>1, <2>3 DEF Step
<1>4. proc[p] \in ProcType /\ proc[p].keys \in [SigningFiles -> FileState] /\ files[f] \in FileState
  <2>1. files[f] \in FileState
    BY <1>3 DEF InstallInv, SigningFiles, Files
  <2> QED
    BY <2>1, ProcTypes DEF ProcType, SigningFiles
<1>5. q \in ProcType /\ SameRole(q, proc[p])
  <2>1. [proc[p].keys EXCEPT ![f] = files[f]] \in [SigningFiles -> FileState]
    BY <1>4
  <2> QED
    BY <1>4, <2>1 DEF ProcType, SameRole, SigningFiles
<1>6. \A k \in SigningFiles : q.keys[k] = IF k = f THEN files[k] ELSE proc[p].keys[k]
  BY <1>3, <1>4
<1>7. WritesOwn(p, "whole")
  BY <1>1 DEF WritesOwn
<1>8. CASE Advance(p, q)
  <2>1. WritingOK'
    <3> HIDE DEF q
    <3> QED
      BY <1>1, <1>2, <1>5, <1>6, <1>7, <1>8, GoesOnOK
  <2>2. CASE UNCHANGED daemon
    BY <2>1, <2>2, SameDaemon
  <2>3. CASE daemon' = [state |-> "signing", keys |-> q.keys, settled |-> q.gen] /\ q.at = Len(start)
    <3>1. proc[p].at = Len(start) /\ q.gen = proc[p].gen
      BY <1>5, <2>3 DEF SameRole
    <3>2. ASSUME q.gen # Overlapped PROVE q.gen = settled /\ \A k \in SigningFiles : q.keys[k] = files[k]
      <4>1. q.gen = settled /\ \A k \in SigningFiles : k \notin Left(proc[p]) => proc[p].keys[k] = files[k]
        BY <1>1, <1>2, <3>1, <3>2 DEF WritingOK, ReaderOK
      <4>2. \A k : k # f => k \notin Left(proc[p])
        <5>1. Steps(proc[p].cmd) = start /\ Len(start) \in Nat /\ f = start[proc[p].at].file
          BY <1>2, StartSteps DEF Steps, At
        <5> HIDE DEF f
        <5> QED
          BY <3>1, <5>1, LeftAtEnd
      <4> HIDE DEF q, f
      <4> QED
        BY <1>6, <4>1, <4>2
    <3>3. q.gen # Overlapped => InOrder(q.keys)
      <4> SUFFICES ASSUME q.gen # Overlapped PROVE InOrder(q.keys)
        OBVIOUS
      <4>1. InOrder(files)
        BY <1>1, <3>2 DEF WritingOK, OrderOK
      <4> HIDE DEF q
      <4> QED
        BY <3>2, <4>1, InOrderSame
    <3>4. q.gen > 0 => \A k \in SigningFiles : q.keys[k] = Whole(q.gen)
      <4> SUFFICES ASSUME q.gen > 0 PROVE \A k \in SigningFiles : q.keys[k] = Whole(q.gen)
        OBVIOUS
      <4>1. q.gen # Overlapped
        BY DEF Overlapped
      <4> HIDE DEF q
      <4> QED
        BY <1>1, <3>2, <4>1 DEF WritingOK, SettledOK
    <3> HIDE DEF q
    <3>5. KeysInOrder'
      <4>1. daemon'.keys = q.keys /\ daemon'.settled = q.gen
        BY <2>3
      <4> QED
        BY <3>3, <3>4, <4>1 DEF KeysInOrder, SigningFiles, Whole
    <3> QED
      BY <2>1, <3>5 DEF KeysInv
  <2>4. UNCHANGED daemon \/ (daemon' = [state |-> "signing", keys |-> q.keys, settled |-> q.gen] /\ q.at = Len(start))
        \/ daemon'.state = "unsigned"
    BY DEF ReadKey, Current, At
  <2>5. CASE daemon'.state = "unsigned"
    BY <2>1, <2>5 DEF KeysInv, KeysInOrder
  <2> QED
    BY <2>2, <2>3, <2>4, <2>5
<1>9. CASE Abort(p) /\ daemon' = [state |-> "unsigned", keys |-> NoKeys, settled |-> q.gen]
  <2>1. WritingOK'
    BY <1>1, <1>9, EndStep
  <2> QED
    BY <1>9, <2>1 DEF KeysInv, KeysInOrder
<1>10. Advance(p, q) \/ (Abort(p) /\ daemon' = [state |-> "unsigned", keys |-> NoKeys, settled |-> q.gen])
  <2>1. CASE ~Exists(f) /\ f # Metadata
    BY <2>1 DEF ReadKey, Current, At
  <2>2. CASE ~(~Exists(f) /\ f # Metadata)
    BY <2>2 DEF ReadKey, Current, At
  <2> QED
    BY <2>1, <2>2
<1> QED
  BY <1>8, <1>9, <1>10

\* A process dies.
LEMMA KillKeys == ASSUME InstallInv, KeysInv, NEW p \in Procs, Kill(p) PROVE KeysInv'
<1>1. WritingOK'
  <2>1. used'.commands = used.commands
    BY DEF Kill, InstallInv, CountsOK
  <2> QED
    BY <2>1, EndStep DEF Kill, KeysInv
<1> QED
  BY <1>1, SameDaemon DEF Kill

\* A step that leaves the keys and the processes alone.
LEMMA SameKeys ==
    ASSUME KeysInv, UNCHANGED <<files, proc, daemon, settled>>, used'.commands = used.commands PROVE KeysInv'
<1>1. SettledOK' /\ NewestOK' /\ KeysInOrder'
  BY DEF KeysInv, WritingOK, SettledOK, NewestOK, KeysInOrder
<1>2. OrderOK'
  BY DEF KeysInv, WritingOK, OrderOK
<1>3. \A p \in Procs : WriterOK(p)'
  BY DEF KeysInv, WritingOK, WriterOK
<1>4. \A p \in Procs : ReaderOK(p)'
  BY DEF KeysInv, WritingOK, ReaderOK
<1> QED
  BY <1>1, <1>2, <1>3, <1>4 DEF KeysInv, WritingOK

\* The subscription changes.
LEMMA ChangeKeys == ASSUME InstallInv, KeysInv, NEW plan \in Plans, ChangePlan(plan) PROVE KeysInv'
<1>1. UNCHANGED <<files, proc, daemon, settled>> /\ used'.commands = used.commands
  BY DEF ChangePlan, InstallInv, CountsOK
<1> QED
  BY <1>1, SameKeys

\* Whatever commands run, overlap and die, unless two inits overlap, or an init and
\* the start, a daemon signs with files of which none is of an older init than those
\* behind it in the order of save; and if the last init ran to its end, with the keys
\* and the metadata of that init, every one of them whole (pq_keys.rs:123-158).
THEOREM KeysAlwaysInOrder == Spec => []KeysInOrder
<1>1. InstallInv /\ KeysInv /\ [Next]_vars => KeysInv'
  <2> SUFFICES ASSUME InstallInv, KeysInv, [Next]_vars PROVE KeysInv'
    OBVIOUS
  <2>1. CASE UNCHANGED vars
    BY <2>1, SameKeys DEF vars
  <2>2. ASSUME NEW p \in Procs, NEW cmd \in Commands, Begin(p, cmd) PROVE KeysInv'
    BY <2>2, BeginKeys
  <2>3. ASSUME NEW p \in Procs, LoadConfig(p) PROVE KeysInv'
    BY <2>3, LoadKeys
  <2>4. ASSUME NEW p \in Procs, Truncate(p) PROVE KeysInv'
    BY <2>4, TruncateKeys
  <2>5. ASSUME NEW p \in Procs, WriteConfig(p) PROVE KeysInv'
    BY <2>5, WriteConfigKeys
  <2>6. ASSUME NEW p \in Procs, WriteFile(p) PROVE KeysInv'
    BY <2>6, WriteFileKeys
  <2>7. ASSUME NEW p \in Procs, Remove(p) PROVE KeysInv'
    BY <2>7, RemoveKeys
  <2>8. ASSUME NEW p \in Procs, Check(p) PROVE KeysInv'
    BY <2>8, CheckKeys
  <2>9. ASSUME NEW p \in Procs, AskForPlan(p) PROVE KeysInv'
    BY <2>9, AskKeys
  <2>10. ASSUME NEW p \in Procs, NEW tier \in Tiers, Checkout(p, tier) PROVE KeysInv'
    BY <2>10, CheckoutKeys
  <2>11. ASSUME NEW p \in Procs, Poll(p) PROVE KeysInv'
    BY <2>11, PollKeys
  <2>12. ASSUME NEW p \in Procs, FindKeys(p) PROVE KeysInv'
    BY <2>12, FindKeysKeys
  <2>13. ASSUME NEW p \in Procs, ReadKey(p) PROVE KeysInv'
    BY <2>13, ReadKeyKeys
  <2>14. ASSUME NEW p \in Procs, Kill(p) PROVE KeysInv'
    BY <2>14, KillKeys
  <2>15. ASSUME NEW plan \in Tiers \cup {"free"}, ChangePlan(plan) PROVE KeysInv'
    BY <2>15, ChangeKeys DEF Plans
  <2> QED
    BY <2>1, <2>2, <2>3, <2>4, <2>5, <2>6, <2>7, <2>8, <2>9, <2>10, <2>11, <2>12, <2>13, <2>14, <2>15 DEF Next
<1>2. KeysInv => KeysInOrder
  BY DEF KeysInv
<1> QED
  BY <1>1, <1>2, KeysInit, InstallInvariance, PTL DEF Spec
=============================================================================

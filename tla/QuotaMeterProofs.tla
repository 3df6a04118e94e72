-------------------------- MODULE QuotaMeterProofs --------------------------
(***************************************************************************)
(* Theorems about quota metering, for every number of connections and keys *)
(* and every limit: its types; as long as the flusher does not run, that   *)
(* the cap holds and each command is decided as if in one step; and with   *)
(* the flusher that no op is lost.                                         *)
(***************************************************************************)
EXTENDS QuotaMeter, TLAPS, FiniteSetTheorems

\* The values of a counter are closed under the wrapping arithmetic.
LEMMA Arithmetic ==
    ASSUME NEW x \in 0..(Width - 1), NEW y \in 0..(Width - 1)
    PROVE  Plus(x, y) \in 0..(Width - 1) /\ Minus(x, y) \in 0..(Width - 1)
BY LimitAssumption DEF Plus, Minus

\* 0 and 1 are values of a counter: Width exceeds some limit, which is not 0.
LEMMA ZeroOne ==
    ASSUME NEW k \in Keys
    PROVE  0 \in 0..(Width - 1) /\ 1 \in 0..(Width - 1)
<1>1. Limit[k] \in Nat \ {0} /\ Width > Limit[k] + Cardinality(Conns)
  BY LimitAssumption
<1>2. Cardinality(Conns) \in Nat
  BY ConnsAssumption, FS_CardinalityType
<1> QED
  BY <1>1, <1>2, LimitAssumption

\* Every step keeps the types.
LEMMA TypeStep == TypeOK /\ [Next]_vars => TypeOK'
<1> SUFFICES ASSUME TypeOK, [Next]_vars PROVE TypeOK'
  OBVIOUS
<1> USE DEF TypeOK
<1>1. ASSUME NEW c \in Conns, Lookup(c) PROVE TypeOK'
  BY <1>1, LimitAssumption DEF Lookup, flusherVars, Goto
<1>2. ASSUME NEW c \in Conns, RequestWrite(c) PROVE TypeOK'
  BY <1>2 DEF RequestWrite, flusherVars, Goto
<1>3. ASSUME NEW c \in Conns, Create(c) PROVE TypeOK'
  <2>1. KeyOf[c] \in Keys /\ 0 \in 0..(Width - 1)
    BY ConnsAssumption, ZeroOne
  <2> QED
    BY <1>3, <2>1 DEF Create, flusherVars, Goto
<1>4. ASSUME NEW c \in Conns, FetchAdd(c) PROVE TypeOK'
  <2>1. KeyOf[c] \in Keys
    BY ConnsAssumption
  <2>2. counter[KeyOf[c]] \in 0..(Width - 1)
    BY <2>1
  <2>3. Plus(counter[KeyOf[c]], 1) \in 0..(Width - 1)
    BY <2>1, <2>2, ZeroOne, Arithmetic
  <2>4. counter' \in [Keys -> 0..(Width - 1)]
    BY <1>4, <2>3 DEF FetchAdd
  <2>5. admitted' \in [Keys -> Nat] /\ pc' \in [Conns -> {"idle", "missing", "write", "add", "undo"}]
    BY <1>4, <2>1 DEF FetchAdd, Goto
  <2> QED
    BY <1>4, <2>4, <2>5 DEF FetchAdd, flusherVars
<1>5. ASSUME NEW c \in Conns, FetchSub(c) PROVE TypeOK'
  <2>1. KeyOf[c] \in Keys
    BY ConnsAssumption
  <2>2. counter[KeyOf[c]] \in 0..(Width - 1)
    BY <2>1
  <2>3. Minus(counter[KeyOf[c]], 1) \in 0..(Width - 1)
    BY <2>1, <2>2, ZeroOne, Arithmetic
  <2>4. counter' \in [Keys -> 0..(Width - 1)]
    BY <1>5, <2>3 DEF FetchSub
  <2> QED
    BY <1>5, <2>4 DEF FetchSub, flusherVars, Goto
<1>6. CASE StartRound
  BY <1>6 DEF StartRound, connVars
<1>7. ASSUME NEW k \in Keys, Swap(k) PROVE TypeOK'
  <2>1. 0 \in 0..(Width - 1) /\ counter[k] \in 0..(Width - 1)
    BY ZeroOne
  <2> QED
    BY <1>7, <2>1 DEF Swap, connVars
<1>8. CASE PostOk
  BY <1>8 DEF PostOk, connVars
<1>9. CASE PostFailed
  BY <1>9 DEF PostFailed, connVars
<1>10. CASE AddBack
  <2>1. flushed.key \in Keys /\ flushed.ops \in 0..(Width - 1)
    OBVIOUS
  <2>2. Plus(counter[flushed.key], flushed.ops) \in 0..(Width - 1)
    BY <2>1, Arithmetic
  <2> QED
    BY <1>10, <2>1, <2>2 DEF AddBack, connVars
<1>11. CASE EndRound
  BY <1>11 DEF EndRound, connVars
<1>12. CASE UNCHANGED vars
  BY <1>12 DEF vars, connVars, flusherVars
<1> QED
  BY <1>1, <1>2, <1>3, <1>4, <1>5, <1>6, <1>7, <1>8, <1>9, <1>10, <1>11, <1>12
     DEF Next, Check, Post

\* Counters stay within 64 bits and every thread in one of its states, with or
\* without the flusher.
THEOREM TypeCorrect == Spec => []TypeOK
<1>1. Init => TypeOK
  <2> SUFFICES ASSUME Init PROVE TypeOK
    OBVIOUS
  <2>1. Width - 1 >= 0
    BY LimitAssumption
  <2> QED
    BY <2>1, LimitAssumption DEF Init, TypeOK
<1> QED
  BY <1>1, TypeStep, PTL DEF Spec

-----------------------------------------------------------------------------
(* Without a flusher *)

\* The cap alone is not inductive: it rests on the counter being exact, which
\* rests on no counter being reset by Create and none wrapping around, which
\* rests on the cap.
LocalInv ==
    /\ TypeOK
    /\ metering = "local"
    /\ flusher = "sleep"
    /\ \A c \in Conns : pc[c] \in {"add", "undo"} => KeyOf[c] \in created
    /\ \A k \in Keys : k \notin created => counter[k] = 0
    /\ CounterExact
    /\ CapRespected
    /\ RejectionsJustified

\* A rejected command is one of finitely many connections.
LEMMA UndoingBounded ==
    ASSUME NEW k \in Keys
    PROVE  /\ IsFiniteSet(Undoing(k))
           /\ Cardinality(Undoing(k)) \in Nat
           /\ Cardinality(Undoing(k)) <= Cardinality(Conns)
           /\ Cardinality(Conns) \in Nat
<1>1. Undoing(k) \subseteq Conns
  BY DEF Undoing
<1> QED
  BY <1>1, ConnsAssumption, FS_Subset, FS_CardinalityType

\* Moving a connection between labels other than "undo" changes no Undoing set.
LEMMA UndoingKept ==
    ASSUME TypeOK, NEW c \in Conns, NEW label, label # "undo", pc[c] # "undo",
           Goto(c, label), NEW k \in Keys
    PROVE  Undoing(k)' = Undoing(k)
BY DEF TypeOK, Goto, Undoing

\* An admitted command: the counter and the count of admissions move together.
LEMMA AdmitStep ==
    ASSUME LocalInv, NEW c \in Conns, FetchAdd(c), counter[KeyOf[c]] < Limit[KeyOf[c]]
    PROVE  LocalInv'
<1> DEFINE k0 == KeyOf[c]
<1>1. k0 \in Keys
  BY ConnsAssumption
<1>2. /\ counter' = [counter EXCEPT ![k0] = Plus(@, 1)]
      /\ Goto(c, "idle") /\ pc[c] = "add"
      /\ admitted' = [admitted EXCEPT ![k0] = @ + 1]
      /\ UNCHANGED <<created, sent, flusher, metering>>
  <2>1. counter[k0] \in Int /\ Limit[k0] \in Int
    BY <1>1, LimitAssumption DEF LocalInv, TypeOK
  <2>2. ~(counter[k0] >= Limit[k0])
    BY <2>1
  <2> QED
    BY <2>2 DEF FetchAdd, flusherVars
<1>3. TypeOK'
  BY TypeStep DEF LocalInv, Next, Check
<1>4. \A k \in Keys : Undoing(k)' = Undoing(k)
  BY <1>2, UndoingKept DEF LocalInv
<1>5. Plus(counter[k0], 1) = counter[k0] + 1
  <2>1. counter[k0] \in Nat /\ counter[k0] < Limit[k0] /\ Limit[k0] \in Nat
        /\ Width > Limit[k0] + Cardinality(Conns) /\ Cardinality(Conns) \in Nat
    BY <1>1, LimitAssumption, UndoingBounded DEF LocalInv, TypeOK
  <2> QED
    BY <2>1, LimitAssumption DEF Plus
<1>6. /\ counter'[k0] = counter[k0] + 1 /\ admitted'[k0] = admitted[k0] + 1
      /\ \A k \in Keys \ {k0} : counter'[k] = counter[k] /\ admitted'[k] = admitted[k]
  BY <1>1, <1>2, <1>5 DEF LocalInv, TypeOK
<1>7. CounterExact'
  BY <1>1, <1>4, <1>6, UndoingBounded DEF LocalInv, CounterExact, TypeOK
<1>8. admitted[k0] < Limit[k0] /\ Undoing(k0) = {}
  <2>1. counter[k0] = admitted[k0] + Cardinality(Undoing(k0)) /\ admitted[k0] \in Nat
        /\ Limit[k0] \in Nat /\ Cardinality(Undoing(k0)) \in Nat
    BY <1>1, LimitAssumption, UndoingBounded DEF LocalInv, CounterExact, TypeOK
  <2> QED
    BY <1>1, <2>1 DEF LocalInv, RejectionsJustified
<1>9. CapRespected'
  BY <1>1, <1>6, <1>8, LimitAssumption DEF LocalInv, CapRespected, TypeOK
<1>10. RejectionsJustified'
  BY <1>1, <1>4, <1>6, <1>8 DEF LocalInv, RejectionsJustified
<1>11. (\A k \in Keys : k \notin created => counter[k] = 0)'
  BY <1>1, <1>2, <1>6 DEF LocalInv
<1>12. (\A d \in Conns : pc[d] \in {"add", "undo"} => KeyOf[d] \in created)'
  BY <1>2 DEF LocalInv, Goto, TypeOK
<1> QED
  BY <1>2, <1>3, <1>7, <1>9, <1>10, <1>11, <1>12 DEF LocalInv

\* A rejected command: its charge shows as one more member of Undoing, and the
\* quota is used up.
LEMMA RejectStep ==
    ASSUME LocalInv, NEW c \in Conns, FetchAdd(c), counter[KeyOf[c]] >= Limit[KeyOf[c]]
    PROVE  LocalInv'
<1> DEFINE k0 == KeyOf[c]
<1>1. k0 \in Keys
  BY ConnsAssumption
<1>2. /\ counter' = [counter EXCEPT ![k0] = Plus(@, 1)]
      /\ Goto(c, "undo") /\ pc[c] = "add"
      /\ UNCHANGED <<admitted, created, sent, flusher, metering>>
  BY <1>1 DEF FetchAdd, flusherVars
<1>3. TypeOK'
  BY TypeStep DEF LocalInv, Next, Check
<1>4. /\ Undoing(k0)' = Undoing(k0) \cup {c} /\ c \notin Undoing(k0)
      /\ \A k \in Keys \ {k0} : Undoing(k)' = Undoing(k)
  BY <1>2 DEF LocalInv, TypeOK, Goto, Undoing
<1>5. Cardinality(Undoing(k0)') = Cardinality(Undoing(k0)) + 1
  BY <1>1, <1>4, UndoingBounded, FS_AddElement
<1>6. admitted[k0] = Limit[k0]
  <2>1. counter[k0] = admitted[k0] + Cardinality(Undoing(k0)) /\ admitted[k0] \in Nat
        /\ admitted[k0] <= Limit[k0] /\ Limit[k0] \in Nat
        /\ (Undoing(k0) # {} => admitted[k0] = Limit[k0])
    BY <1>1, LimitAssumption DEF LocalInv, CounterExact, CapRespected,
                                 RejectionsJustified, TypeOK
  <2>2. CASE Undoing(k0) = {}
    <3>1. counter[k0] = admitted[k0]
      BY <2>1, <2>2, FS_EmptySet
    <3> QED
      BY <2>1, <3>1
  <2> QED
    BY <2>1, <2>2
<1>7. Plus(counter[k0], 1) = counter[k0] + 1
  <2>1. (Undoing(k0) \cup {c}) \subseteq Conns
    BY DEF Undoing
  <2>2. Cardinality(Undoing(k0)) + 1 <= Cardinality(Conns)
    BY <1>1, <1>4, <1>5, <2>1, ConnsAssumption, FS_Subset
  <2>3. counter[k0] = Limit[k0] + Cardinality(Undoing(k0))
        /\ Limit[k0] \in Nat /\ Width > Limit[k0] + Cardinality(Conns)
        /\ Cardinality(Undoing(k0)) \in Nat /\ Cardinality(Conns) \in Nat
    BY <1>1, <1>6, LimitAssumption, UndoingBounded DEF LocalInv, CounterExact
  <2> QED
    BY <2>2, <2>3, LimitAssumption DEF Plus
<1>8. /\ counter'[k0] = counter[k0] + 1
      /\ \A k \in Keys \ {k0} : counter'[k] = counter[k]
  BY <1>1, <1>2, <1>7 DEF LocalInv, TypeOK
<1>9. CounterExact'
  <2> SUFFICES ASSUME NEW k \in Keys
               PROVE  counter'[k] = admitted[k] + Cardinality(Undoing(k)')
    BY <1>2 DEF CounterExact
  <2>1. counter[k] = admitted[k] + Cardinality(Undoing(k))
        /\ admitted[k] \in Nat /\ Cardinality(Undoing(k)) \in Nat
    BY UndoingBounded DEF LocalInv, CounterExact, TypeOK
  <2>2. CASE k = k0
    BY <2>1, <2>2, <1>5, <1>8
  <2>3. CASE k # k0
    BY <2>1, <2>3, <1>4, <1>8
  <2> QED
    BY <2>2, <2>3
<1>10. CapRespected' /\ RejectionsJustified'
  BY <1>1, <1>2, <1>4, <1>6 DEF LocalInv, CapRespected, RejectionsJustified
<1>11. (\A k \in Keys : k \notin created => counter[k] = 0)'
  BY <1>1, <1>2, <1>8 DEF LocalInv
<1>12. (\A d \in Conns : pc[d] \in {"add", "undo"} => KeyOf[d] \in created)'
  BY <1>2 DEF LocalInv, Goto, TypeOK
<1> QED
  BY <1>2, <1>3, <1>9, <1>10, <1>11, <1>12 DEF LocalInv

\* The charge of a rejected command is taken back.
LEMMA UndoStep ==
    ASSUME LocalInv, NEW c \in Conns, FetchSub(c)
    PROVE  LocalInv'
<1> DEFINE k0 == KeyOf[c]
<1>1. k0 \in Keys
  BY ConnsAssumption
<1>2. /\ counter' = [counter EXCEPT ![k0] = Minus(@, 1)]
      /\ Goto(c, "idle") /\ pc[c] = "undo"
      /\ UNCHANGED <<admitted, created, sent, flusher, metering>>
  BY <1>1 DEF FetchSub, flusherVars
<1>3. TypeOK'
  BY TypeStep DEF LocalInv, Next, Check
<1>4. /\ Undoing(k0)' = Undoing(k0) \ {c} /\ c \in Undoing(k0)
      /\ \A k \in Keys \ {k0} : Undoing(k)' = Undoing(k)
  BY <1>2 DEF LocalInv, TypeOK, Goto, Undoing
<1>5. Cardinality(Undoing(k0)') = Cardinality(Undoing(k0)) - 1
  BY <1>1, <1>4, UndoingBounded, FS_RemoveElement
<1>6. Minus(counter[k0], 1) = counter[k0] - 1
  <2>1. Cardinality(Undoing(k0)') \in Nat
    BY <1>1, <1>4, UndoingBounded, FS_RemoveElement, FS_CardinalityType
  <2>2. counter[k0] = admitted[k0] + Cardinality(Undoing(k0)) /\ admitted[k0] \in Nat
        /\ Cardinality(Undoing(k0)) \in Nat
    BY <1>1, UndoingBounded DEF LocalInv, CounterExact, TypeOK
  <2> QED
    BY <1>5, <2>1, <2>2 DEF Minus
<1>7. /\ counter'[k0] = counter[k0] - 1
      /\ \A k \in Keys \ {k0} : counter'[k] = counter[k]
  BY <1>1, <1>2, <1>6 DEF LocalInv, TypeOK
<1>8. CounterExact'
  <2> SUFFICES ASSUME NEW k \in Keys
               PROVE  counter'[k] = admitted[k] + Cardinality(Undoing(k)')
    BY <1>2 DEF CounterExact
  <2>1. counter[k] = admitted[k] + Cardinality(Undoing(k))
        /\ admitted[k] \in Nat /\ Cardinality(Undoing(k)) \in Nat
    BY UndoingBounded DEF LocalInv, CounterExact, TypeOK
  <2>2. CASE k = k0
    BY <2>1, <2>2, <1>5, <1>7
  <2>3. CASE k # k0
    BY <2>1, <2>3, <1>4, <1>7
  <2> QED
    BY <2>2, <2>3
<1>9. CapRespected' /\ RejectionsJustified'
  BY <1>1, <1>2, <1>4 DEF LocalInv, CapRespected, RejectionsJustified
<1>10. (\A k \in Keys : k \notin created => counter[k] = 0)'
  BY <1>1, <1>2, <1>7 DEF LocalInv
<1>11. (\A d \in Conns : pc[d] \in {"add", "undo"} => KeyOf[d] \in created)'
  BY <1>2 DEF LocalInv, Goto, TypeOK
<1> QED
  BY <1>2, <1>3, <1>8, <1>9, <1>10, <1>11 DEF LocalInv

\* Without the flusher, every step keeps the local invariant.
LEMMA LocalStep == LocalInv /\ [Next]_vars => LocalInv'
<1> SUFFICES ASSUME LocalInv, [Next]_vars PROVE LocalInv'
  OBVIOUS
<1>0. TypeOK'
  BY TypeStep DEF LocalInv
<1>1. ASSUME NEW c \in Conns, Lookup(c) \/ RequestWrite(c) PROVE LocalInv'
  <2>1. PICK label \in {"add", "missing", "write"} :
          /\ Goto(c, label) /\ pc[c] # "undo"
          /\ label = "add" => KeyOf[c] \in created
          /\ UNCHANGED <<counter, created, admitted, flusher, metering>>
    BY <1>1 DEF Lookup, RequestWrite, flusherVars
  <2>2. \A k \in Keys : Undoing(k)' = Undoing(k)
    BY <2>1, UndoingKept DEF LocalInv
  <2>3. CounterExact' /\ CapRespected' /\ RejectionsJustified'
    BY <2>1, <2>2 DEF LocalInv, CounterExact, CapRespected, RejectionsJustified
  <2>4. (\A d \in Conns : pc[d] \in {"add", "undo"} => KeyOf[d] \in created)'
    BY <2>1 DEF LocalInv, Goto, TypeOK
  <2> QED
    BY <1>0, <2>1, <2>3, <2>4 DEF LocalInv
<1>2. ASSUME NEW c \in Conns, Create(c) PROVE LocalInv'
  <2>1. /\ Goto(c, "add") /\ pc[c] = "write" /\ created' = created \cup {KeyOf[c]}
        /\ UNCHANGED <<admitted, flusher, metering>>
    BY <1>2 DEF Create, flusherVars
  <2>2. counter' = counter
    <3>1. KeyOf[c] \notin created => counter[KeyOf[c]] = 0
      BY ConnsAssumption DEF LocalInv
    <3> QED
      BY <1>2, <3>1 DEF Create, LocalInv, TypeOK
  <2>3. \A k \in Keys : Undoing(k)' = Undoing(k)
    BY <2>1, UndoingKept DEF LocalInv
  <2>4. CounterExact' /\ CapRespected' /\ RejectionsJustified'
    BY <2>1, <2>2, <2>3 DEF LocalInv, CounterExact, CapRespected, RejectionsJustified
  <2>5. (\A d \in Conns : pc[d] \in {"add", "undo"} => KeyOf[d] \in created)'
    BY <2>1 DEF LocalInv, Goto, TypeOK
  <2>6. (\A k \in Keys : k \notin created => counter[k] = 0)'
    BY <2>1, <2>2 DEF LocalInv
  <2> QED
    BY <1>0, <2>1, <2>4, <2>5, <2>6 DEF LocalInv
<1>3. ASSUME NEW c \in Conns, FetchAdd(c) PROVE LocalInv'
  <2>1. counter[KeyOf[c]] \in Int /\ Limit[KeyOf[c]] \in Int
    BY ConnsAssumption, LimitAssumption DEF LocalInv, TypeOK
  <2>2. counter[KeyOf[c]] < Limit[KeyOf[c]] \/ counter[KeyOf[c]] >= Limit[KeyOf[c]]
    BY <2>1
  <2> QED
    BY <1>3, <2>2, AdmitStep, RejectStep
<1>4. ASSUME NEW c \in Conns, FetchSub(c) PROVE LocalInv'
  BY <1>4, UndoStep
<1>5. CASE UNCHANGED vars
  <2>1. UNCHANGED <<counter, created, pc, sent, admitted, flusher, metering>>
    BY <1>5 DEF vars, connVars, flusherVars
  <2>2. \A k \in Keys : Undoing(k)' = Undoing(k)
    BY <2>1 DEF Undoing
  <2> QED
    BY <1>0, <2>1, <2>2 DEF LocalInv, CounterExact, CapRespected, RejectionsJustified
<1>6. ~(StartRound \/ (\E k \in Keys : Swap(k)) \/ Post \/ AddBack \/ EndRound)
  BY DEF StartRound, Swap, Post, PostOk, PostFailed, AddBack, EndRound, LocalInv
<1> QED
  BY <1>1, <1>2, <1>3, <1>4, <1>5, <1>6 DEF Next, Check

\* It holds when the daemon starts.
LEMMA LocalInit == Init /\ metering = "local" => LocalInv
<1> SUFFICES ASSUME Init, metering = "local" PROVE LocalInv
  OBVIOUS
<1>1. TypeOK
  <2>1. Width - 1 >= 0
    BY LimitAssumption
  <2> QED
    BY <2>1, LimitAssumption DEF Init, TypeOK
<1>2. \A k \in Keys : Undoing(k) = {}
  BY DEF Init, Undoing
<1>3. CounterExact
  BY <1>2, FS_EmptySet DEF Init, CounterExact
<1>4. CapRespected /\ RejectionsJustified
  BY <1>2, LimitAssumption DEF Init, CapRespected, RejectionsJustified
<1> QED
  BY <1>1, <1>3, <1>4 DEF Init, LocalInv

\* A daemon that starts without a flusher never has one.
LEMMA MeteringFixed == [Next]_vars => UNCHANGED metering
BY DEF Next, Lookup, Check, RequestWrite, Create, FetchAdd, FetchSub, StartRound,
       Swap, Post, PostOk, PostFailed, AddBack, EndRound, vars, flusherVars

\* With local metering, no interleaving of the connections lets more than the
\* limit through, turns a command away before the quota is used up, or leaves
\* the counter off by anything but pending rejections.
THEOREM LocalMeteringCorrect == Spec => []LocallyExact
<1> DEFINE Inv == metering = "local" => LocalInv
<1>1. Init => Inv
  BY LocalInit
<1>2. Inv /\ [Next]_vars => Inv'
  BY LocalStep, MeteringFixed
<1>3. Inv => LocallyExact
  BY DEF LocalInv, LocallyExact
<1> HIDE DEF Inv
<1> QED
  BY <1>1, <1>2, <1>3, PTL DEF Spec
-----------------------------------------------------------------------------
(* A meter that decides in one step.                                       *)

\* As the counter is exact, what it counts are the commands let through.
LEMMA UncancelledAreAdmitted == LocalInv => Uncancelled = admitted
<1> SUFFICES ASSUME LocalInv PROVE Uncancelled = admitted
  OBVIOUS
<1>1. admitted \in [Keys -> Nat]
  BY DEF LocalInv, TypeOK
<1>2. \A k \in Keys : counter[k] - Cardinality(Undoing(k)) = admitted[k]
  <2> TAKE k \in Keys
  <2>1. Cardinality(Undoing(k)) \in Nat
    BY UndoingBounded
  <2> QED
    BY <1>1, <2>1 DEF LocalInv, CounterExact
<1> QED
  BY <1>1, <1>2 DEF Uncancelled

\* Each step is one of the meter or none.
LEMMA MeterStep ==
    ASSUME LocalInv, LocalInv', [Next]_vars
    PROVE  Atomic!Next \/ UNCHANGED <<Uncancelled, Undecided>>
<1>0. Uncancelled = admitted /\ Uncancelled' = admitted'
  <2>1. Uncancelled = admitted
    BY UncancelledAreAdmitted
  <2>2. (LocalInv => Uncancelled = admitted)'
    BY UncancelledAreAdmitted, PTL
  <2> QED
    BY <2>1, <2>2
<1>1. ASSUME NEW c \in Conns, Lookup(c) PROVE Atomic!Next
  <2>1. c \notin Undecided /\ Undecided' = Undecided \cup {c}
    BY <1>1 DEF Lookup, Goto, LocalInv, TypeOK, Undecided
  <2>2. Atomic!Ask(c)
    BY <1>0, <1>1, <2>1 DEF Atomic!Ask, Lookup
  <2> QED
    BY <2>2 DEF Atomic!Next
<1>2. ASSUME NEW c \in Conns, RequestWrite(c) \/ Create(c) \/ FetchSub(c)
      PROVE  UNCHANGED <<Uncancelled, Undecided>>
  <2>1. UNCHANGED Undecided
    BY <1>2 DEF RequestWrite, Create, FetchSub, Goto, LocalInv, TypeOK, Undecided
  <2>2. UNCHANGED admitted
    BY <1>2 DEF RequestWrite, Create, FetchSub
  <2> QED
    BY <1>0, <2>1, <2>2
<1>3. ASSUME NEW c \in Conns, FetchAdd(c) PROVE Atomic!Next
  <2> DEFINE k == KeyOf[c]
  <2>1. k \in Keys /\ admitted[k] \in Nat /\ Limit[k] \in Nat
    BY ConnsAssumption, LimitAssumption DEF LocalInv, TypeOK
  <2>2. c \in Undecided /\ Undecided' = Undecided \ {c}
    BY <1>3 DEF FetchAdd, Goto, LocalInv, TypeOK, Undecided
  <2>3. CASE admitted' = [admitted EXCEPT ![k] = @ + 1]
    <3>1. admitted'[k] = admitted[k] + 1
      BY <2>1, <2>3 DEF LocalInv, TypeOK
    <3>2. admitted[k] < Limit[k]
      BY <2>1, <3>1 DEF LocalInv, CapRespected
    <3>3. Atomic!Admit(c)
      BY <1>0, <2>2, <2>3, <3>2 DEF Atomic!Admit
    <3> QED
      BY <3>3 DEF Atomic!Next
  <2>4. CASE UNCHANGED admitted /\ Goto(c, "undo")
    <3>1. c \in Undoing(k)'
      BY <2>4 DEF Goto, LocalInv, TypeOK, Undoing
    <3>2. admitted[k] = Limit[k]
      BY <2>1, <2>4, <3>1 DEF LocalInv, RejectionsJustified
    <3>3. Atomic!Refuse(c)
      BY <1>0, <2>2, <2>4, <3>2 DEF Atomic!Refuse
    <3> QED
      BY <3>3 DEF Atomic!Next
  <2> QED
    BY <1>3, <2>3, <2>4 DEF FetchAdd
<1>4. CASE UNCHANGED vars
  <2>1. UNCHANGED <<counter, pc, admitted>>
    BY <1>4 DEF vars, connVars
  <2> QED
    BY <1>0, <2>1 DEF Undecided
<1>5. ~(StartRound \/ (\E k \in Keys : Swap(k)) \/ Post \/ AddBack \/ EndRound)
  BY DEF StartRound, Swap, Post, PostOk, PostFailed, AddBack, EndRound, LocalInv
<1> QED
  BY <1>1, <1>2, <1>3, <1>4, <1>5 DEF Next, Check

\* A daemon without a flusher implements a meter that lets each command through
\* or turns it away in one step, for any number of connections that share a key.
THEOREM ImplementsMeter == Spec => MeterImplemented
<1> DEFINE Inv == metering = "local" => LocalInv
           Step == metering = "local" => [Atomic!Next]_(Atomic!vars)
<1>1. Init => Inv
  BY LocalInit
<1>2. Inv /\ [Next]_vars => Inv'
  BY LocalStep, MeteringFixed
<1>3. Inv /\ Inv' /\ [Next]_vars => [Step]_vars
  <2> SUFFICES ASSUME Inv, Inv', [Next]_vars, metering = "local" PROVE [Atomic!Next]_(Atomic!vars)
    OBVIOUS
  <2>1. LocalInv /\ LocalInv'
    BY MeteringFixed
  <2> QED
    BY <2>1, MeterStep DEF Atomic!vars
<1>4. Init => (metering = "local" => Atomic!Init)
  <2> SUFFICES ASSUME Init, metering = "local" PROVE Atomic!Init
    OBVIOUS
  <2>1. Uncancelled = admitted
    BY LocalInit, UncancelledAreAdmitted
  <2> QED
    BY <2>1 DEF Init, Undecided, Atomic!Init
<1> HIDE DEF Inv, Step
<1>5. Spec => (metering = "local" => Atomic!Init)
  BY <1>4, PTL DEF Spec
<1>6. Spec => [][Step]_vars
  BY <1>1, <1>2, <1>3, PTL DEF Spec
<1> QED
  BY <1>5, <1>6 DEF Step, MeterImplemented

-----------------------------------------------------------------------------
(* Arithmetic modulo w.                                                    *)

\* What % and \div are to each other.
LEMMA Division ==
    ASSUME NEW x \in Int, NEW w \in Nat \ {0}
    PROVE  /\ x \div w \in Int
           /\ x = (w * (x \div w)) + (x % w)
           /\ (x % w) \in 0..(w - 1)
  OBVIOUS

\* A number is divided in one way only.
LEMMA DivisionUnique ==
    ASSUME NEW w \in Nat \ {0}, NEW q \in Int, NEW p \in Int, NEW r \in 0..(w - 1), NEW s \in 0..(w - 1),
           (w * q) + r = (w * p) + s
    PROVE  r = s
<1>1. ASSUME NEW d \in Int, d >= 1 PROVE w * d >= w
  BY <1>1
<1>2. w * (q - p) = s - r /\ w * (p - q) = r - s
  OBVIOUS
<1>3. CASE q - p >= 1
  <2>1. w * (q - p) >= w
    BY <1>1, <1>3
  <2> QED
    BY <1>2, <2>1
<1>4. CASE p - q >= 1
  <2>1. w * (p - q) >= w
    BY <1>1, <1>4
  <2> QED
    BY <1>2, <2>1
<1>5. CASE p = q
  BY <1>5
<1> QED
  BY <1>3, <1>4, <1>5

\* So a remainder is known by exhibiting the quotient.
LEMMA Remainder ==
    ASSUME NEW w \in Nat \ {0}, NEW x \in Int, NEW q \in Int, NEW r \in 0..(w - 1), x = (w * q) + r
    PROVE  x % w = r
<1>1. PICK p \in Int : p = x \div w
  BY Division
<1>2. PICK s \in 0..(w - 1) : s = x % w
  BY Division
<1>3. (w * p) + s = (w * q) + r
  BY Division, <1>1, <1>2
<1>4. s = r
  BY <1>3, DivisionUnique
<1> QED
  BY <1>2, <1>4

\* Numbers that are equal modulo w stay so when the same is added to both,
\* whether or not the one addition wraps around.
LEMMA AddedToBoth ==
    ASSUME NEW w \in Nat \ {0}, NEW x \in Int, NEW y \in Int, NEW d \in Int, NEW wrap \in {0, w, -w},
           x % w = y % w
    PROVE  (x + d + wrap) % w = (y + d) % w
<1>1. PICK q \in Int : q = x \div w
  BY Division
<1>2. PICK p \in Int : p = y \div w
  BY Division
<1>3. PICK m \in 0..(w - 1) : m = x % w
  BY Division
<1>4. PICK z \in Int : z = y + d
  OBVIOUS
<1>5. PICK t \in Int : t = z \div w
  BY Division
<1>6. PICK r \in 0..(w - 1) : r = z % w
  BY Division
<1>7. PICK u \in Int : u = x + d + wrap
  OBVIOUS
<1>8. PICK e \in {0, 1, -1} : wrap = w * e
  OBVIOUS
<1>9. x = (w * q) + m /\ y = (w * p) + m /\ z = (w * t) + r
  <2>1. x = (w * q) + m
    BY <1>1, <1>3, Division
  <2>2. y = (w * p) + m
    BY <1>2, <1>3, Division
  <2>3. z = (w * t) + r
    BY <1>5, <1>6, Division
  <2> QED
    BY <2>1, <2>2, <2>3
<1>10. u = z + (w * q) - (w * p) + (w * e)
  BY <1>4, <1>7, <1>8, <1>9
<1>11. u = (w * (q - p + t + e)) + r
  BY <1>9, <1>10
<1>12. u % w = r
  <2>1. PICK v \in Int : v = q - p + t + e
    OBVIOUS
  <2> QED
    BY <1>11, <2>1, Remainder
<1> QED
  BY <1>4, <1>6, <1>7, <1>12

-----------------------------------------------------------------------------
(* With the flusher.                                                       *)

\* Where the ops of k are, and what they were charged for.
Held(k) == counter[k] + InFlight(k) + acked[k]
Charged(k) == admitted[k] + Cardinality(Undoing(k))

\* That no op is lost needs that Create never meets a counter that has been
\* charged: commands and the flusher reach only counters that were created.
AccountInv ==
    /\ TypeOK
    /\ \A c \in Conns : pc[c] \in {"add", "undo"} => KeyOf[c] \in created
    /\ flusher \in {"post", "addback"} => flushed.key \in created
    /\ \A k \in Keys : k \notin created => counter[k] = 0
    /\ NoOpLost

\* Both sides of the account are numbers.
LEMMA AccountTypes ==
    ASSUME TypeOK, NEW k \in Keys
    PROVE  /\ Held(k) \in Int /\ Charged(k) \in Int
           /\ counter[k] \in Int /\ InFlight(k) \in Int /\ acked[k] \in Int /\ admitted[k] \in Int
           /\ Cardinality(Undoing(k)) \in Int
<1>1. Cardinality(Undoing(k)) \in Nat
  BY UndoingBounded
<1>2. InFlight(k) \in Int
  BY LimitAssumption DEF TypeOK, InFlight
<1>3. counter[k] \in Int /\ acked[k] \in Int /\ admitted[k] \in Int
  BY LimitAssumption DEF TypeOK
<1> QED
  BY <1>1, <1>2, <1>3 DEF Held, Charged

\* NoOpLost in these terms.
LEMMA NoOpLostIs == NoOpLost <=> \A k \in Keys : Held(k) % Width = Charged(k) % Width
  BY DEF NoOpLost, Held, Charged

\* A step that moves both sides by the same amount, up to a wrap, keeps them equal.
LEMMA AccountKept ==
    ASSUME TypeOK, NoOpLost, NEW k \in Keys, NEW d \in Int, NEW wrap \in {0, Width, -Width},
           Held(k)' = Held(k) + d + wrap, Charged(k)' = Charged(k) + d
    PROVE  Held(k)' % Width = Charged(k)' % Width
<1>1. PICK x \in Int : x = Held(k)
  BY AccountTypes
<1>2. PICK y \in Int : y = Charged(k)
  BY AccountTypes
<1>3. x % Width = y % Width
  BY <1>1, <1>2, NoOpLostIs
<1>4. (x + d + wrap) % Width = (y + d) % Width
  BY <1>3, LimitAssumption, AddedToBoth
<1> QED
  BY <1>1, <1>2, <1>4

\* Adding wraps around once at most, and so does taking back.
LEMMA Wraps ==
    ASSUME NEW x \in 0..(Width - 1), NEW y \in 0..(Width - 1)
    PROVE  /\ \E wrap \in {0, Width, -Width} : Plus(x, y) = x + y + wrap
           /\ \E wrap \in {0, Width, -Width} : Minus(x, y) = x - y + wrap
  BY LimitAssumption DEF Plus, Minus

\* Keys that a step does not touch.
LEMMA AccountUntouched ==
    ASSUME TypeOK, NoOpLost, NEW k \in Keys,
           counter'[k] = counter[k], acked'[k] = acked[k], admitted'[k] = admitted[k],
           InFlight(k)' = InFlight(k), Cardinality(Undoing(k)') = Cardinality(Undoing(k))
    PROVE  Held(k)' % Width = Charged(k)' % Width
<1>1. Held(k)' = Held(k) + 0 + 0 /\ Charged(k)' = Charged(k) + 0
  BY AccountTypes DEF Held, Charged
<1> QED
  BY <1>1, AccountKept, LimitAssumption

\* The charge of a command, admitted or not: both sides grow by one.
LEMMA ChargeAccount == ASSUME AccountInv, NEW c \in Conns, FetchAdd(c) PROVE NoOpLost'
<1> DEFINE k0 == KeyOf[c]
<1>0. k0 \in Keys /\ TypeOK /\ NoOpLost
  BY ConnsAssumption DEF AccountInv
<1>1. PICK wrap \in {0, Width, -Width} : Plus(counter[k0], 1) = counter[k0] + 1 + wrap
  BY <1>0, ZeroOne, Wraps DEF TypeOK
<1>2. /\ counter' = [counter EXCEPT ![k0] = Plus(@, 1)]
      /\ pc[c] = "add" /\ UNCHANGED <<acked, flusher, flushed>>
      /\ \/ Goto(c, "undo") /\ UNCHANGED admitted
         \/ Goto(c, "idle") /\ admitted' = [admitted EXCEPT ![k0] = @ + 1]
  BY DEF FetchAdd, flusherVars
<1>3. /\ counter'[k0] = counter[k0] + 1 + wrap
      /\ \A k \in Keys \ {k0} : counter'[k] = counter[k] /\ admitted'[k] = admitted[k]
      /\ \A k \in Keys : InFlight(k)' = InFlight(k) /\ acked'[k] = acked[k]
  BY <1>0, <1>1, <1>2 DEF TypeOK, InFlight
<1>4. \A k \in Keys \ {k0} : Undoing(k)' = Undoing(k)
  BY <1>0, <1>2 DEF TypeOK, Goto, Undoing
<1>5. admitted'[k0] + Cardinality(Undoing(k0)') = admitted[k0] + Cardinality(Undoing(k0)) + 1
  <2>1. CASE Goto(c, "undo") /\ UNCHANGED admitted
    <3>1. Undoing(k0)' = Undoing(k0) \cup {c} /\ c \notin Undoing(k0)
      BY <1>0, <1>2, <2>1 DEF TypeOK, Goto, Undoing
    <3>2. Cardinality(Undoing(k0)') = Cardinality(Undoing(k0)) + 1
      BY <1>0, <3>1, UndoingBounded, FS_AddElement
    <3>3. admitted[k0] \in Int /\ Cardinality(Undoing(k0)) \in Int
      BY <1>0, AccountTypes
    <3> QED
      BY <2>1, <3>2, <3>3
  <2>2. CASE Goto(c, "idle") /\ admitted' = [admitted EXCEPT ![k0] = @ + 1]
    <3>1. Undoing(k0)' = Undoing(k0)
      BY <1>0, <1>2, <2>2, UndoingKept
    <3>2. admitted'[k0] = admitted[k0] + 1
      BY <1>0, <2>2 DEF TypeOK
    <3>3. admitted[k0] \in Int /\ Cardinality(Undoing(k0)) \in Int
      BY <1>0, AccountTypes
    <3> QED
      BY <3>1, <3>2, <3>3
  <2> QED
    BY <1>2, <2>1, <2>2
<1>6. Held(k0)' = Held(k0) + 1 + wrap /\ Charged(k0)' = Charged(k0) + 1
  <2>1. counter[k0] \in Int /\ InFlight(k0) \in Int /\ acked[k0] \in Int
    BY <1>0, AccountTypes
  <2>2. Held(k0)' = counter'[k0] + InFlight(k0) + acked[k0]
    BY <1>0, <1>3 DEF Held
  <2>3. Held(k0)' = Held(k0) + 1 + wrap
    BY <1>3, <2>1, <2>2, LimitAssumption DEF Held
  <2> QED
    BY <1>5, <2>3 DEF Charged
<1>7. ASSUME NEW k \in Keys PROVE Held(k)' % Width = Charged(k)' % Width
  <2>1. CASE k = k0
    BY <1>0, <1>6, <2>1, AccountKept
  <2>2. CASE k # k0
    BY <1>0, <1>3, <1>4, <2>2, AccountUntouched
  <2> QED
    BY <2>1, <2>2
<1> QED
  BY <1>7 DEF NoOpLost, Held, Charged

\* A charge that is taken back: both sides shrink by one.
LEMMA UndoAccount == ASSUME AccountInv, NEW c \in Conns, FetchSub(c) PROVE NoOpLost'
<1> DEFINE k0 == KeyOf[c]
<1>0. k0 \in Keys /\ TypeOK /\ NoOpLost
  BY ConnsAssumption DEF AccountInv
<1>1. PICK wrap \in {0, Width, -Width} : Minus(counter[k0], 1) = counter[k0] - 1 + wrap
  BY <1>0, ZeroOne, Wraps DEF TypeOK
<1>2. /\ counter' = [counter EXCEPT ![k0] = Minus(@, 1)]
      /\ pc[c] = "undo" /\ Goto(c, "idle") /\ UNCHANGED <<admitted, acked, flusher, flushed>>
  BY DEF FetchSub, flusherVars
<1>3. /\ counter'[k0] = counter[k0] - 1 + wrap
      /\ \A k \in Keys \ {k0} : counter'[k] = counter[k]
      /\ \A k \in Keys : InFlight(k)' = InFlight(k) /\ acked'[k] = acked[k] /\ admitted'[k] = admitted[k]
  BY <1>0, <1>1, <1>2 DEF TypeOK, InFlight
<1>4. /\ Undoing(k0)' = Undoing(k0) \ {c} /\ c \in Undoing(k0)
      /\ \A k \in Keys \ {k0} : Undoing(k)' = Undoing(k)
  BY <1>0, <1>2 DEF TypeOK, Goto, Undoing
<1>5. Cardinality(Undoing(k0)') = Cardinality(Undoing(k0)) - 1
  BY <1>0, <1>4, UndoingBounded, FS_RemoveElement
<1>6. Held(k0)' = Held(k0) + (-1) + wrap /\ Charged(k0)' = Charged(k0) + (-1)
  <2>1. /\ counter[k0] \in Int /\ InFlight(k0) \in Int /\ acked[k0] \in Int
        /\ admitted[k0] \in Int /\ Cardinality(Undoing(k0)) \in Int
    BY <1>0, AccountTypes
  <2>2. Held(k0)' = counter'[k0] + InFlight(k0) + acked[k0]
    BY <1>0, <1>3 DEF Held
  <2>3. Held(k0)' = Held(k0) + (-1) + wrap
    BY <1>3, <2>1, <2>2, LimitAssumption DEF Held
  <2>4. Charged(k0)' = admitted[k0] + Cardinality(Undoing(k0)')
    BY <1>0, <1>3 DEF Charged
  <2> QED
    BY <1>5, <2>1, <2>3, <2>4 DEF Charged
<1>7. ASSUME NEW k \in Keys PROVE Held(k)' % Width = Charged(k)' % Width
  <2>1. CASE k = k0
    BY <1>0, <1>6, <2>1, AccountKept
  <2>2. CASE k # k0
    BY <1>0, <1>3, <1>4, <2>2, AccountUntouched
  <2> QED
    BY <2>1, <2>2
<1> QED
  BY <1>7 DEF NoOpLost, Held, Charged

\* The flusher moves ops: from the counter into flight, from there to the server
\* or back to the counter, which may wrap around.
LEMMA FlushAccount ==
    ASSUME AccountInv, (\E k \in Keys : Swap(k)) \/ PostOk \/ AddBack
    PROVE  NoOpLost'
<1>0. TypeOK /\ NoOpLost
  BY DEF AccountInv
<1>1. \A k \in Keys : Undoing(k)' = Undoing(k) /\ admitted'[k] = admitted[k]
  BY DEF Undoing, Swap, PostOk, AddBack, connVars
<1>2. \A k \in Keys : Charged(k)' = Charged(k) + 0
  BY <1>0, <1>1, AccountTypes DEF Charged
<1>3. ASSUME NEW k \in Keys PROVE \E wrap \in {0, Width, -Width} : Held(k)' = Held(k) + 0 + wrap
  <2>0. /\ counter[k] \in Int /\ InFlight(k) \in Int /\ acked[k] \in Int /\ Width \in Int
        /\ counter[k] \in 0..(Width - 1) /\ DOMAIN counter = Keys /\ DOMAIN acked = Keys
    BY <1>0, AccountTypes, LimitAssumption DEF TypeOK
  <2>1. ASSUME NEW k0 \in Keys, Swap(k0) PROVE Held(k)' = Held(k) + 0 + 0
    <3>1. /\ flusher = "walk" /\ counter' = [counter EXCEPT ![k0] = 0] /\ acked' = acked
          /\ flushed' = [key |-> k0, ops |-> counter[k0]]
          /\ flusher' = IF counter[k0] = 0 THEN "walk" ELSE "post"
      BY <2>1 DEF Swap
    <3>2. InFlight(k) = 0
      BY <3>1 DEF InFlight
    <3>3. CASE k = k0
      <4>1. counter'[k] = 0 /\ InFlight(k)' = counter[k]
        BY <2>0, <3>1, <3>3 DEF InFlight
      <4> QED
        BY <2>0, <3>1, <3>2, <4>1 DEF Held
    <3>4. CASE k # k0
      <4>1. counter'[k] = counter[k] /\ InFlight(k)' = 0
        BY <2>0, <3>1, <3>4 DEF InFlight
      <4> QED
        BY <2>0, <3>1, <3>2, <4>1 DEF Held
    <3> QED
      BY <3>3, <3>4
  <2>2. CASE PostOk
    <3>1. /\ flusher = "post" /\ flusher' = "walk" /\ counter' = counter
          /\ acked' = [acked EXCEPT ![flushed.key] = @ + flushed.ops]
      BY <2>2 DEF PostOk
    <3>2. InFlight(k)' = 0 /\ acked'[k] = acked[k] + InFlight(k)
      BY <2>0, <3>1 DEF InFlight
    <3> QED
      BY <2>0, <3>1, <3>2 DEF Held
  <2>3. CASE AddBack
    <3>1. /\ flusher = "addback" /\ flusher' = "walk" /\ acked' = acked
          /\ counter' = [counter EXCEPT ![flushed.key] = Plus(@, flushed.ops)]
      BY <2>3 DEF AddBack
    <3>2. InFlight(k)' = 0
      BY <3>1 DEF InFlight
    <3>3. CASE flushed.key = k
      <4>1. flushed.ops \in 0..(Width - 1) /\ InFlight(k) = flushed.ops
        BY <1>0, <3>1, <3>3 DEF TypeOK, InFlight
      <4>2. PICK wrap \in {0, Width, -Width} : Plus(counter[k], flushed.ops) = counter[k] + flushed.ops + wrap
        BY <2>0, <4>1, Wraps
      <4>3. counter'[k] = counter[k] + InFlight(k) + wrap
        BY <2>0, <3>1, <3>3, <4>1, <4>2
      <4>4. Held(k)' = Held(k) + 0 + wrap
        BY <2>0, <3>1, <3>2, <4>3 DEF Held
      <4> QED
        BY <4>4
    <3>4. CASE flushed.key # k
      <4>1. counter'[k] = counter[k] /\ InFlight(k) = 0
        BY <2>0, <3>1, <3>4 DEF InFlight
      <4> QED
        BY <2>0, <3>1, <3>2, <4>1 DEF Held
    <3> QED
      BY <3>3, <3>4
  <2> QED
    BY <2>1, <2>2, <2>3
<1>4. \A k \in Keys : Held(k)' % Width = Charged(k)' % Width
  BY <1>0, <1>2, <1>3, AccountKept
<1> QED
  BY <1>4 DEF NoOpLost, Held, Charged

\* Every other step leaves all accounts as they are.
LEMMA OtherAccount ==
    ASSUME AccountInv,
           (\E c \in Conns : Lookup(c) \/ RequestWrite(c) \/ Create(c)) \/ StartRound \/ PostFailed \/ EndRound \/ UNCHANGED vars
    PROVE  NoOpLost'
<1>0. TypeOK /\ NoOpLost
  BY DEF AccountInv
<1>1. counter' = counter
  <2>1. ASSUME NEW c \in Conns, Create(c) PROVE counter' = counter
    <3>1. KeyOf[c] \notin created => counter[KeyOf[c]] = 0
      BY ConnsAssumption DEF AccountInv
    <3> QED
      BY <1>0, <2>1, <3>1 DEF Create, TypeOK
  <2> QED
    BY <2>1 DEF Lookup, RequestWrite, StartRound, PostFailed, EndRound, vars
<1>2. UNCHANGED <<acked, admitted, flushed>>
  BY DEF Lookup, RequestWrite, Create, StartRound, PostFailed, EndRound, vars, connVars, flusherVars
<1>3. \A k \in Keys : InFlight(k)' = InFlight(k)
  BY <1>2 DEF InFlight, Lookup, RequestWrite, Create, StartRound, PostFailed, EndRound, vars, flusherVars
<1>4. \A k \in Keys : Undoing(k)' = Undoing(k)
  <2>1. ASSUME NEW c \in Conns, Lookup(c) \/ RequestWrite(c) \/ Create(c)
        PROVE  \A k \in Keys : Undoing(k)' = Undoing(k)
    <3>1. PICK label \in {"add", "missing", "write"} : Goto(c, label) /\ pc[c] # "undo"
      BY <2>1 DEF Lookup, RequestWrite, Create
    <3> QED
      BY <1>0, <3>1, UndoingKept
  <2>2. CASE StartRound \/ PostFailed \/ EndRound \/ UNCHANGED vars
    BY <2>2 DEF Undoing, StartRound, PostFailed, EndRound, vars, connVars
  <2> QED
    BY <2>1, <2>2
<1>5. \A k \in Keys : Held(k)' % Width = Charged(k)' % Width
  BY <1>0, <1>1, <1>2, <1>3, <1>4, AccountUntouched
<1> QED
  BY <1>5 DEF NoOpLost, Held, Charged

\* Commands and the flusher reach only counters that were created, and a counter
\* that was not stands at 0.
LEMMA CreatedStep ==
    ASSUME AccountInv, [Next]_vars
    PROVE  /\ \A c \in Conns : pc'[c] \in {"add", "undo"} => KeyOf[c] \in created'
           /\ flusher' \in {"post", "addback"} => flushed'.key \in created'
           /\ \A k \in Keys : k \notin created' => counter'[k] = 0
<1>0. TypeOK
  BY DEF AccountInv
<1>1. \A c \in Conns : pc[c] \in {"add", "undo"} => KeyOf[c] \in created
  BY DEF AccountInv
<1>2. flusher \in {"post", "addback"} => flushed.key \in created
  BY DEF AccountInv
<1>3. \A k \in Keys : k \notin created => counter[k] = 0
  BY DEF AccountInv
<1>4. ASSUME NEW c \in Conns, Lookup(c) \/ Check(c)
      PROVE  /\ \A d \in Conns : pc'[d] \in {"add", "undo"} => KeyOf[d] \in created'
             /\ created \subseteq created' /\ UNCHANGED <<flusher, flushed>>
             /\ \A k \in Keys : k \notin created' => counter'[k] = 0
  <2>1. \A d \in Conns : pc'[d] \in {"add", "undo"} => KeyOf[d] \in created'
    BY <1>0, <1>1, <1>4 DEF TypeOK, Lookup, Check, RequestWrite, Create, FetchAdd, FetchSub, Goto
  <2>2. created \subseteq created' /\ UNCHANGED <<flusher, flushed>>
    BY <1>4 DEF Lookup, Check, RequestWrite, Create, FetchAdd, FetchSub, flusherVars
  <2>3. \A k \in Keys : k \notin created' => counter'[k] = 0
    <3>1. CASE Lookup(c) \/ RequestWrite(c) \/ Create(c)
      BY <1>0, <1>3, <3>1 DEF TypeOK, Lookup, RequestWrite, Create
    <3>2. CASE FetchAdd(c) \/ FetchSub(c)
      <4>1. KeyOf[c] \in created /\ created' = created
        BY <1>1, <3>2 DEF FetchAdd, FetchSub
      <4>2. \A k \in Keys \ {KeyOf[c]} : counter'[k] = counter[k]
        BY <1>0, <3>2 DEF TypeOK, FetchAdd, FetchSub
      <4> QED
        BY <1>3, <4>1, <4>2
    <3> QED
      BY <1>4, <3>1, <3>2 DEF Check
  <2> QED
    BY <2>1, <2>2, <2>3
<1>5. CASE StartRound \/ (\E k \in Keys : Swap(k)) \/ Post \/ AddBack \/ EndRound \/ UNCHANGED vars
  <2>1. UNCHANGED <<created, pc>>
    BY <1>5 DEF StartRound, Swap, Post, PostOk, PostFailed, AddBack, EndRound, vars, connVars
  <2>2. flusher' \in {"post", "addback"} => flushed'.key \in created
    <3>1. ASSUME NEW k \in Keys, Swap(k) PROVE flushed'.key \in created
      BY <1>0, <3>1 DEF TypeOK, Swap
    <3> QED
      BY <1>2, <1>5, <3>1 DEF StartRound, Post, PostOk, PostFailed, AddBack, EndRound, vars, flusherVars
  <2>3. \A k \in Keys : k \notin created => counter'[k] = 0
    <3>1. ASSUME NEW k0 \in Keys, Swap(k0) PROVE \A k \in Keys : k \notin created => counter'[k] = 0
      BY <1>0, <1>3, <3>1 DEF TypeOK, Swap
    <3>2. CASE AddBack
      BY <1>0, <1>2, <1>3, <3>2 DEF TypeOK, AddBack
    <3> QED
      BY <1>3, <1>5, <3>1, <3>2 DEF StartRound, Post, PostOk, PostFailed, EndRound, vars
  <2> QED
    BY <1>1, <2>1, <2>2, <2>3
<1> QED
  BY <1>2, <1>4, <1>5 DEF Next

\* Every step keeps the accounts.
LEMMA AccountStep == AccountInv /\ [Next]_vars => AccountInv'
<1> SUFFICES ASSUME AccountInv, [Next]_vars PROVE AccountInv'
  OBVIOUS
<1>1. TypeOK'
  BY TypeStep DEF AccountInv
<1>2. NoOpLost'
  BY ChargeAccount, UndoAccount, FlushAccount, OtherAccount DEF Next, Check, Post
<1> QED
  BY <1>1, <1>2, CreatedStep DEF AccountInv

\* Whatever the posts of the flusher come to and however they meet the commands,
\* every op that was let through is on its counter, in flight or confirmed, up to
\* pending rejections and multiples of the counter's width (daemon.rs:130-165).
THEOREM OpsAlwaysAccounted == Spec => []NoOpLost
<1>1. Init => AccountInv
  <2> SUFFICES ASSUME Init PROVE AccountInv
    OBVIOUS
  <2>1. TypeOK
    <3>1. Width - 1 >= 0
      BY LimitAssumption
    <3> QED
      BY <3>1, LimitAssumption DEF Init, TypeOK
  <2>2. \A k \in Keys : Undoing(k) = {} /\ InFlight(k) = 0
    BY DEF Init, Undoing, InFlight
  <2>3. \A k \in Keys : Held(k) = 0 /\ Charged(k) = 0
    BY <2>2, FS_EmptySet DEF Init, Held, Charged
  <2>4. NoOpLost
    BY <2>3, NoOpLostIs
  <2> QED
    BY <2>1, <2>4 DEF Init, AccountInv
<1>2. AccountInv => NoOpLost
  BY DEF AccountInv
<1> QED
  BY <1>1, <1>2, AccountStep, PTL DEF Spec
=============================================================================

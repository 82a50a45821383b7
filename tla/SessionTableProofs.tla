------------------------- MODULE SessionTableProofs -------------------------
(***************************************************************************)
(* Proofs about SessionTable for any keys, threads, table size and number  *)
(* of plug calls, from an inductive invariant that says who owns what: the *)
(* types, that no controller is torn down twice, that the table implements *)
(* ControllerOwnership, that a stopping entry is one path's to remove, that*)
(* the end of a stream returns with nothing under way, and that, one plug  *)
(* at a time, no session is left on the PC.                                *)
(***************************************************************************)
EXTENDS SessionTable, FiniteSetTheorems, TLAPS

\* Attempts not made yet have no trace anywhere.
FreshInv ==
    /\ \A n \in Attempts : n > seq => ctl[n] = "none"
    /\ \A t \in Threads : cur[t] <= seq
    /\ \A k \in Keys : entry[k] <= seq
    /\ \A n \in left : n <= seq

\* An attempt that was made has a key, and is only ever under that key.
KeyInv ==
    /\ \A n \in Attempts : n <= seq => keyOf[n] \in Keys
    /\ \A k \in Keys : InTable(k) => keyOf[entry[k]] = k
    /\ \A k \in stopping : InTable(k)

Resting == {"idle", "scan", "next", "wait"}

\* A thread works on an attempt exactly while it is inside a call, and the
\* exit's loop is over once the exit waits.
BusyInv ==
    /\ \A t \in Threads : pc[t] \notin Resting <=> cur[t] # None
    /\ pc[Exit] \in {"idle", "wait"} => left = {}

\* How far the controller is that a thread works on.
StageInv ==
    \A t \in Threads :
        /\ pc[t] \in {"check", "start", "make"} => ctl[cur[t]] = "none"
        /\ pc[t] \in {"add", "out", "dropOut"} => ctl[cur[t]] = "running"
        /\ pc[t] \in {"free", "dropFree"} => ctl[cur[t]] = "out"

\* Nothing is worked on by two threads, nor by one while the table or the
\* exit's list has it.
ExclusiveInv ==
    /\ \A t, u \in Threads : t # u /\ cur[t] # None => cur[t] # cur[u]
    /\ \A t \in Threads, k \in Keys : Bridged(k) => cur[t] # entry[k]
    /\ \A t \in Threads : cur[t] \notin left
    /\ \A k \in Keys : Bridged(k) => entry[k] \notin left

\* What the table and the exit's list hold is running.
RunningInv ==
    /\ \A k \in Keys : Bridged(k) => ctl[entry[k]] = "running"
    /\ \A n \in left : ctl[n] = "running"

\* The plug-outs of a controller are told by how far it is.
OutsInv ==
    \A n \in Attempts : outs[n] = IF ctl[n] \in {"out", "gone"} THEN 1 ELSE 0

IInv == /\ TypeOK /\ FreshInv /\ KeyInv /\ BusyInv
        /\ StageInv /\ ExclusiveInv /\ RunningInv /\ OutsInv

USE BoundsAssumption, ThreadsAssumption
USE DEF Threads, Stoppers, Attempts, None, Resting, PlugPlaces, StopPlaces, ExitPlaces,
        InTable, Bridged, Goto, table, plugVars, life, workerVars, exitVars, listener

LEMMA PlugCallStep ==
    ASSUME IInv, NEW p \in Pluggers, NEW k \in Keys, PlugCall(p, k)
    PROVE  IInv'
<1> USE DEF IInv, PlugCall
<1>1. /\ seq + 1 \in Attempts
      /\ ctl[seq + 1] = "none"
      /\ \A t \in Threads : cur[t] \in 0 .. seq
      /\ \A k1 \in Keys : entry[k1] \in 0 .. seq
  BY DEF TypeOK, FreshInv
<1>2. TypeOK'
  BY DEF TypeOK, BusyInv
<1>3. FreshInv'
  BY <1>1 DEF FreshInv, TypeOK, BusyInv
<1>4. KeyInv'
  BY <1>1 DEF KeyInv, TypeOK, FreshInv, BusyInv
<1>5. BusyInv'
  BY <1>1 DEF BusyInv, TypeOK, FreshInv
<1>6. StageInv'
  BY <1>1 DEF StageInv, TypeOK, BusyInv, ExclusiveInv, RunningInv
<1>7. ExclusiveInv'
  BY <1>1 DEF ExclusiveInv, TypeOK, FreshInv, KeyInv, BusyInv
<1>8. RunningInv'
  BY <1>1 DEF RunningInv, TypeOK, BusyInv, StageInv, ExclusiveInv
<1>9. OutsInv'
  BY <1>1 DEF OutsInv, TypeOK, BusyInv, StageInv
<1> QED BY <1>2, <1>3, <1>4, <1>5, <1>6, <1>7, <1>8, <1>9

LEMMA PlugCheckStep ==
    ASSUME IInv, NEW p \in Pluggers, PlugCheck(p)
    PROVE  IInv'
<1> USE DEF IInv, PlugCheck, Answer, Return
<1>1. cur[p] \in Attempts /\ pc[p] \notin Resting
  BY DEF TypeOK, BusyInv
<1>2. TypeOK'
  <2>1. CASE /\ Answer(cur[p], "yes")
           /\ Return(p)
    BY <1>1, <2>1 DEF TypeOK
  <2>2. CASE /\ ~InTable(keyOf[cur[p]])
           /\ Goto(p, "start")
           /\ UNCHANGED <<answer, cur>>
    BY <1>1, <2>2 DEF TypeOK
  <2> QED BY <2>1, <2>2
<1>3. FreshInv'
  BY <1>1 DEF FreshInv, TypeOK, BusyInv
<1>4. KeyInv'
  BY <1>1 DEF KeyInv, TypeOK, FreshInv, BusyInv
<1>5. BusyInv'
  <2>1. CASE /\ Answer(cur[p], "yes")
           /\ Return(p)
    BY <1>1, <2>1 DEF BusyInv, TypeOK, FreshInv
  <2>2. CASE /\ ~InTable(keyOf[cur[p]])
           /\ Goto(p, "start")
           /\ UNCHANGED <<answer, cur>>
    BY <1>1, <2>2 DEF BusyInv, TypeOK, FreshInv
  <2> QED BY <2>1, <2>2
<1>6. StageInv'
  BY <1>1 DEF StageInv, TypeOK, BusyInv, ExclusiveInv, RunningInv
<1>7. ExclusiveInv'
  <2>1. CASE /\ Answer(cur[p], "yes")
           /\ Return(p)
    BY <1>1, <2>1 DEF ExclusiveInv, TypeOK, FreshInv, KeyInv, BusyInv
  <2>2. CASE /\ ~InTable(keyOf[cur[p]])
           /\ Goto(p, "start")
           /\ UNCHANGED <<answer, cur>>
    BY <1>1, <2>2 DEF ExclusiveInv, TypeOK, FreshInv, KeyInv, BusyInv
  <2> QED BY <2>1, <2>2
<1>8. RunningInv'
  BY <1>1 DEF RunningInv, TypeOK, BusyInv, StageInv, ExclusiveInv
<1>9. OutsInv'
  BY <1>1 DEF OutsInv, TypeOK, BusyInv, StageInv
<1> QED BY <1>2, <1>3, <1>4, <1>5, <1>6, <1>7, <1>8, <1>9

LEMMA PlugStartedStep ==
    ASSUME IInv, NEW p \in Pluggers, PlugStarted(p)
    PROVE  IInv'
<1> USE DEF IInv, PlugStarted
<1>1. cur[p] \in Attempts /\ pc[p] \notin Resting
  BY DEF TypeOK, BusyInv
<1>2. TypeOK'
  BY <1>1 DEF TypeOK
<1>3. FreshInv'
  BY <1>1 DEF FreshInv, TypeOK, BusyInv
<1>4. KeyInv'
  BY <1>1 DEF KeyInv, TypeOK, FreshInv, BusyInv
<1>5. BusyInv'
  BY <1>1 DEF BusyInv, TypeOK, FreshInv
<1>6. StageInv'
  BY <1>1 DEF StageInv, TypeOK, BusyInv, ExclusiveInv, RunningInv
<1>7. ExclusiveInv'
  BY <1>1 DEF ExclusiveInv, TypeOK, FreshInv, KeyInv, BusyInv
<1>8. RunningInv'
  BY <1>1 DEF RunningInv, TypeOK, BusyInv, StageInv, ExclusiveInv
<1>9. OutsInv'
  BY <1>1 DEF OutsInv, TypeOK, BusyInv, StageInv
<1> QED BY <1>2, <1>3, <1>4, <1>5, <1>6, <1>7, <1>8, <1>9

LEMMA PlugRefusedStep ==
    ASSUME IInv, NEW p \in Pluggers, PlugRefused(p)
    PROVE  IInv'
<1> USE DEF IInv, PlugRefused, Answer, Return
<1>1. cur[p] \in Attempts /\ pc[p] \notin Resting
  BY DEF TypeOK, BusyInv
<1>2. TypeOK'
  BY <1>1 DEF TypeOK
<1>3. FreshInv'
  BY <1>1 DEF FreshInv, TypeOK, BusyInv
<1>4. KeyInv'
  BY <1>1 DEF KeyInv, TypeOK, FreshInv, BusyInv
<1>5. BusyInv'
  BY <1>1 DEF BusyInv, TypeOK, FreshInv
<1>6. StageInv'
  BY <1>1 DEF StageInv, TypeOK, BusyInv, ExclusiveInv, RunningInv
<1>7. ExclusiveInv'
  BY <1>1 DEF ExclusiveInv, TypeOK, FreshInv, KeyInv, BusyInv
<1>8. RunningInv'
  BY <1>1 DEF RunningInv, TypeOK, BusyInv, StageInv, ExclusiveInv
<1>9. OutsInv'
  BY <1>1 DEF OutsInv, TypeOK, BusyInv, StageInv
<1> QED BY <1>2, <1>3, <1>4, <1>5, <1>6, <1>7, <1>8, <1>9

LEMMA PlugUnsaidStep ==
    ASSUME IInv, NEW p \in Pluggers, PlugUnsaid(p)
    PROVE  IInv'
<1> USE DEF IInv, PlugUnsaid, Answer
<1>1. cur[p] \in Attempts /\ pc[p] \notin Resting
  BY DEF TypeOK, BusyInv
<1>2. TypeOK'
  BY <1>1 DEF TypeOK
<1>3. FreshInv'
  BY <1>1 DEF FreshInv, TypeOK, BusyInv
<1>4. KeyInv'
  BY <1>1 DEF KeyInv, TypeOK, FreshInv, BusyInv
<1>5. BusyInv'
  BY <1>1 DEF BusyInv, TypeOK, FreshInv
<1>6. StageInv'
  BY <1>1 DEF StageInv, TypeOK, BusyInv, ExclusiveInv, RunningInv
<1>7. ExclusiveInv'
  BY <1>1 DEF ExclusiveInv, TypeOK, FreshInv, KeyInv, BusyInv
<1>8. RunningInv'
  BY <1>1 DEF RunningInv, TypeOK, BusyInv, StageInv, ExclusiveInv
<1>9. OutsInv'
  BY <1>1 DEF OutsInv, TypeOK, BusyInv, StageInv
<1> QED BY <1>2, <1>3, <1>4, <1>5, <1>6, <1>7, <1>8, <1>9

LEMMA PlugMakeStep ==
    ASSUME IInv, NEW p \in Pluggers, PlugMake(p)
    PROVE  IInv'
<1> USE DEF IInv, PlugMake, Answer
<1>1. cur[p] \in Attempts /\ pc[p] \notin Resting
  BY DEF TypeOK, BusyInv
<1>2. TypeOK'
  <2>1. CASE /\ ctl' = [ctl EXCEPT ![cur[p]] = "running"]
           /\ Goto(p, "add")
           /\ UNCHANGED answer
    BY <1>1, <2>1 DEF TypeOK
  <2>2. CASE /\ Answer(cur[p], "no")
           /\ Goto(p, "tell")
           /\ UNCHANGED ctl
    BY <1>1, <2>2 DEF TypeOK
  <2> QED BY <2>1, <2>2
<1>3. FreshInv'
  BY <1>1 DEF FreshInv, TypeOK, BusyInv
<1>4. KeyInv'
  BY <1>1 DEF KeyInv, TypeOK, FreshInv, BusyInv
<1>5. BusyInv'
  <2>1. CASE /\ ctl' = [ctl EXCEPT ![cur[p]] = "running"]
           /\ Goto(p, "add")
           /\ UNCHANGED answer
    BY <1>1, <2>1 DEF BusyInv, TypeOK, FreshInv
  <2>2. CASE /\ Answer(cur[p], "no")
           /\ Goto(p, "tell")
           /\ UNCHANGED ctl
    BY <1>1, <2>2 DEF BusyInv, TypeOK, FreshInv
  <2> QED BY <2>1, <2>2
<1>6. StageInv'
  <2>1. CASE /\ ctl' = [ctl EXCEPT ![cur[p]] = "running"]
           /\ Goto(p, "add")
           /\ UNCHANGED answer
    BY <1>1, <2>1 DEF StageInv, TypeOK, BusyInv, ExclusiveInv, RunningInv
  <2>2. CASE /\ Answer(cur[p], "no")
           /\ Goto(p, "tell")
           /\ UNCHANGED ctl
    BY <1>1, <2>2 DEF StageInv, TypeOK, BusyInv, ExclusiveInv, RunningInv
  <2> QED BY <2>1, <2>2
<1>7. ExclusiveInv'
  BY <1>1 DEF ExclusiveInv, TypeOK, FreshInv, KeyInv, BusyInv
<1>8. RunningInv'
  BY <1>1 DEF RunningInv, TypeOK, BusyInv, StageInv, ExclusiveInv
<1>9. OutsInv'
  <2>1. CASE /\ ctl' = [ctl EXCEPT ![cur[p]] = "running"]
           /\ Goto(p, "add")
           /\ UNCHANGED answer
    BY <1>1, <2>1 DEF OutsInv, TypeOK, BusyInv, StageInv
  <2>2. CASE /\ Answer(cur[p], "no")
           /\ Goto(p, "tell")
           /\ UNCHANGED ctl
    BY <1>1, <2>2 DEF OutsInv, TypeOK, BusyInv, StageInv
  <2> QED BY <2>1, <2>2
<1> QED BY <1>2, <1>3, <1>4, <1>5, <1>6, <1>7, <1>8, <1>9

LEMMA AddNewStep ==
    ASSUME IInv, NEW p \in Pluggers, AddNew(p)
    PROVE  IInv'
<1> USE DEF IInv, AddNew, Answer, Return
<1>1. cur[p] \in Attempts /\ pc[p] \notin Resting
  BY DEF TypeOK, BusyInv
<1>2. TypeOK'
  BY <1>1 DEF TypeOK
<1>3. FreshInv'
  BY <1>1 DEF FreshInv, TypeOK, BusyInv
<1>4. KeyInv'
  BY <1>1 DEF KeyInv, TypeOK, FreshInv, BusyInv
<1>5. BusyInv'
  BY <1>1 DEF BusyInv, TypeOK, FreshInv
<1>6. StageInv'
  BY <1>1 DEF StageInv, TypeOK, BusyInv, ExclusiveInv, RunningInv
<1>7. ExclusiveInv'
  BY <1>1 DEF ExclusiveInv, TypeOK, FreshInv, KeyInv, BusyInv
<1>8. RunningInv'
  BY <1>1 DEF RunningInv, TypeOK, BusyInv, StageInv, ExclusiveInv
<1>9. OutsInv'
  BY <1>1 DEF OutsInv, TypeOK, BusyInv, StageInv
<1> QED BY <1>2, <1>3, <1>4, <1>5, <1>6, <1>7, <1>8, <1>9

LEMMA AddReplacesStep ==
    ASSUME IInv, NEW p \in Pluggers, AddReplaces(p)
    PROVE  IInv'
<1> USE DEF IInv, AddReplaces, Answer
<1>1. cur[p] \in Attempts /\ pc[p] \notin Resting
  BY DEF TypeOK, BusyInv
<1>2. /\ entry[keyOf[cur[p]]] \in Attempts
      /\ keyOf[cur[p]] \in Keys
      /\ keyOf[entry[keyOf[cur[p]]]] = keyOf[cur[p]]
      /\ ctl[entry[keyOf[cur[p]]]] = "running"
      /\ entry[keyOf[cur[p]]] \notin left
      /\ \A t \in Threads : cur[t] # entry[keyOf[cur[p]]]
  BY <1>1 DEF TypeOK, FreshInv, KeyInv, RunningInv, ExclusiveInv
<1>3. TypeOK'
  BY <1>1, <1>2 DEF TypeOK
<1>4. FreshInv'
  BY <1>1, <1>2 DEF FreshInv, TypeOK, BusyInv
<1>5. KeyInv'
  BY <1>1, <1>2 DEF KeyInv, TypeOK, FreshInv, BusyInv
<1>6. BusyInv'
  BY <1>1, <1>2 DEF BusyInv, TypeOK, FreshInv
<1>7. StageInv'
  BY <1>1, <1>2 DEF StageInv, TypeOK, BusyInv, ExclusiveInv, RunningInv
<1>8. ExclusiveInv'
  BY <1>1, <1>2 DEF ExclusiveInv, TypeOK, FreshInv, KeyInv, BusyInv
<1>9. RunningInv'
  BY <1>1, <1>2 DEF RunningInv, TypeOK, BusyInv, StageInv, ExclusiveInv
<1>10. OutsInv'
  BY <1>1, <1>2 DEF OutsInv, TypeOK, BusyInv, StageInv
<1> QED BY <1>3, <1>4, <1>5, <1>6, <1>7, <1>8, <1>9, <1>10

LEMMA AddRefusedStep ==
    ASSUME IInv, NEW p \in Pluggers, AddRefused(p)
    PROVE  IInv'
<1> USE DEF IInv, AddRefused, Answer
<1>1. cur[p] \in Attempts /\ pc[p] \notin Resting
  BY DEF TypeOK, BusyInv
<1>2. TypeOK'
  BY <1>1 DEF TypeOK
<1>3. FreshInv'
  BY <1>1 DEF FreshInv, TypeOK, BusyInv
<1>4. KeyInv'
  BY <1>1 DEF KeyInv, TypeOK, FreshInv, BusyInv
<1>5. BusyInv'
  BY <1>1 DEF BusyInv, TypeOK, FreshInv
<1>6. StageInv'
  BY <1>1 DEF StageInv, TypeOK, BusyInv, ExclusiveInv, RunningInv
<1>7. ExclusiveInv'
  BY <1>1 DEF ExclusiveInv, TypeOK, FreshInv, KeyInv, BusyInv
<1>8. RunningInv'
  BY <1>1 DEF RunningInv, TypeOK, BusyInv, StageInv, ExclusiveInv
<1>9. OutsInv'
  BY <1>1 DEF OutsInv, TypeOK, BusyInv, StageInv
<1> QED BY <1>2, <1>3, <1>4, <1>5, <1>6, <1>7, <1>8, <1>9

LEMMA PlugOutStep ==
    ASSUME IInv, NEW t \in Threads, PlugOut(t)
    PROVE  IInv'
<1> USE DEF IInv, PlugOut
<1>1. cur[t] \in Attempts /\ pc[t] \notin Resting
  BY DEF TypeOK, BusyInv
<1>2. TypeOK'
  <2>1. pc' \in [Threads -> PlugPlaces \cup StopPlaces \cup ExitPlaces]
    BY <1>1 DEF TypeOK
  <2>2. /\ \A p \in Pluggers : pc'[p] \in PlugPlaces
        /\ \A u \in Stoppers : pc'[u] \in StopPlaces
        /\ pc'[Exit] \in ExitPlaces
    BY <1>1 DEF TypeOK
  <2>3. cur' \in [Threads -> Attempts \cup {None}]
    BY <1>1 DEF TypeOK
  <2> QED
    BY <1>1, <2>1, <2>2, <2>3 DEF TypeOK
<1>3. FreshInv'
  BY <1>1 DEF FreshInv, TypeOK, BusyInv
<1>4. KeyInv'
  BY <1>1 DEF KeyInv, TypeOK, FreshInv, BusyInv
<1>5. BusyInv'
  BY <1>1 DEF BusyInv, TypeOK, FreshInv
<1>6. StageInv'
  BY <1>1 DEF StageInv, TypeOK, BusyInv, ExclusiveInv, RunningInv
<1>7. ExclusiveInv'
  BY <1>1 DEF ExclusiveInv, TypeOK, FreshInv, KeyInv, BusyInv
<1>8. RunningInv'
  BY <1>1 DEF RunningInv, TypeOK, BusyInv, StageInv, ExclusiveInv
<1>9. OutsInv'
  BY <1>1 DEF OutsInv, TypeOK, BusyInv, StageInv
<1> QED BY <1>2, <1>3, <1>4, <1>5, <1>6, <1>7, <1>8, <1>9

LEMMA DestroyStep ==
    ASSUME IInv, NEW t \in Threads, Destroy(t)
    PROVE  IInv'
<1> USE DEF IInv, Destroy
<1>1. cur[t] \in Attempts /\ pc[t] \notin Resting
  BY DEF TypeOK, BusyInv
<1>2. TypeOK'
  BY <1>1 DEF TypeOK
<1>3. FreshInv'
  BY <1>1 DEF FreshInv, TypeOK, BusyInv
<1>4. KeyInv'
  BY <1>1 DEF KeyInv, TypeOK, FreshInv, BusyInv
<1>5. BusyInv'
  BY <1>1 DEF BusyInv, TypeOK, FreshInv
<1>6. StageInv'
  BY <1>1 DEF StageInv, TypeOK, BusyInv, ExclusiveInv, RunningInv
<1>7. ExclusiveInv'
  BY <1>1 DEF ExclusiveInv, TypeOK, FreshInv, KeyInv, BusyInv
<1>8. RunningInv'
  BY <1>1 DEF RunningInv, TypeOK, BusyInv, StageInv, ExclusiveInv
<1>9. OutsInv'
  BY <1>1 DEF OutsInv, TypeOK, BusyInv, StageInv
<1> QED BY <1>2, <1>3, <1>4, <1>5, <1>6, <1>7, <1>8, <1>9

LEMMA DestroyReplacedStep ==
    ASSUME IInv, NEW p \in Pluggers, DestroyReplaced(p)
    PROVE  IInv'
<1> USE DEF IInv, DestroyReplaced, Return
<1>1. cur[p] \in Attempts /\ pc[p] \notin Resting
  BY DEF TypeOK, BusyInv
<1>2. TypeOK'
  BY <1>1 DEF TypeOK
<1>3. FreshInv'
  BY <1>1 DEF FreshInv, TypeOK, BusyInv
<1>4. KeyInv'
  BY <1>1 DEF KeyInv, TypeOK, FreshInv, BusyInv
<1>5. BusyInv'
  BY <1>1 DEF BusyInv, TypeOK, FreshInv
<1>6. StageInv'
  BY <1>1 DEF StageInv, TypeOK, BusyInv, ExclusiveInv, RunningInv
<1>7. ExclusiveInv'
  BY <1>1 DEF ExclusiveInv, TypeOK, FreshInv, KeyInv, BusyInv
<1>8. RunningInv'
  BY <1>1 DEF RunningInv, TypeOK, BusyInv, StageInv, ExclusiveInv
<1>9. OutsInv'
  BY <1>1 DEF OutsInv, TypeOK, BusyInv, StageInv
<1> QED BY <1>2, <1>3, <1>4, <1>5, <1>6, <1>7, <1>8, <1>9

LEMMA TellStopStep ==
    ASSUME IInv, NEW t \in Threads, TellStop(t)
    PROVE  IInv'
<1> USE DEF IInv, TellStop, Tell, Telling, AfterTell
<1>1. cur[t] \in Attempts /\ pc[t] \notin Resting
  BY DEF TypeOK, BusyInv
<1>2. TypeOK'
  <2>1. pc' \in [Threads -> PlugPlaces \cup StopPlaces \cup ExitPlaces]
    BY <1>1 DEF TypeOK
  <2>2. /\ \A p \in Pluggers : pc'[p] \in PlugPlaces
        /\ \A u \in Stoppers : pc'[u] \in StopPlaces
        /\ pc'[Exit] \in ExitPlaces
    BY <1>1 DEF TypeOK
  <2>3. cur' \in [Threads -> Attempts \cup {None}]
    BY <1>1 DEF TypeOK
  <2> QED
    BY <1>1, <2>1, <2>2, <2>3 DEF TypeOK
<1>3. FreshInv'
  BY <1>1 DEF FreshInv, TypeOK, BusyInv
<1>4. KeyInv'
  BY <1>1 DEF KeyInv, TypeOK, FreshInv, BusyInv
<1>5. BusyInv'
  BY <1>1 DEF BusyInv, TypeOK, FreshInv
<1>6. StageInv'
  BY <1>1 DEF StageInv, TypeOK, BusyInv, ExclusiveInv, RunningInv
<1>7. ExclusiveInv'
  BY <1>1 DEF ExclusiveInv, TypeOK, FreshInv, KeyInv, BusyInv
<1>8. RunningInv'
  BY <1>1 DEF RunningInv, TypeOK, BusyInv, StageInv, ExclusiveInv
<1>9. OutsInv'
  BY <1>1 DEF OutsInv, TypeOK, BusyInv, StageInv
<1> QED BY <1>2, <1>3, <1>4, <1>5, <1>6, <1>7, <1>8, <1>9

LEMMA TellLostStep ==
    ASSUME IInv, NEW t \in Threads, TellLost(t)
    PROVE  IInv'
<1> USE DEF IInv, TellLost, Tell, Telling, AfterTell
<1>1. cur[t] \in Attempts /\ pc[t] \notin Resting
  BY DEF TypeOK, BusyInv
<1>2. TypeOK'
  <2>1. pc' \in [Threads -> PlugPlaces \cup StopPlaces \cup ExitPlaces]
    BY <1>1 DEF TypeOK
  <2>2. /\ \A p \in Pluggers : pc'[p] \in PlugPlaces
        /\ \A u \in Stoppers : pc'[u] \in StopPlaces
        /\ pc'[Exit] \in ExitPlaces
    BY <1>1 DEF TypeOK
  <2>3. cur' \in [Threads -> Attempts \cup {None}]
    BY <1>1 DEF TypeOK
  <2> QED
    BY <1>1, <2>1, <2>2, <2>3 DEF TypeOK
<1>3. FreshInv'
  BY <1>1 DEF FreshInv, TypeOK, BusyInv
<1>4. KeyInv'
  BY <1>1 DEF KeyInv, TypeOK, FreshInv, BusyInv
<1>5. BusyInv'
  BY <1>1 DEF BusyInv, TypeOK, FreshInv
<1>6. StageInv'
  BY <1>1 DEF StageInv, TypeOK, BusyInv, ExclusiveInv, RunningInv
<1>7. ExclusiveInv'
  BY <1>1 DEF ExclusiveInv, TypeOK, FreshInv, KeyInv, BusyInv
<1>8. RunningInv'
  BY <1>1 DEF RunningInv, TypeOK, BusyInv, StageInv, ExclusiveInv
<1>9. OutsInv'
  BY <1>1 DEF OutsInv, TypeOK, BusyInv, StageInv
<1> QED BY <1>2, <1>3, <1>4, <1>5, <1>6, <1>7, <1>8, <1>9

LEMMA TellSkippedStep ==
    ASSUME IInv, TellSkipped
    PROVE  IInv'
<1> USE DEF IInv, TellSkipped, Tell, Telling, AfterTell
<1>1. cur[Exit] \in Attempts /\ pc[Exit] \notin Resting
  BY DEF TypeOK, BusyInv
<1>2. TypeOK'
  BY <1>1 DEF TypeOK
<1>3. FreshInv'
  BY <1>1 DEF FreshInv, TypeOK, BusyInv
<1>4. KeyInv'
  BY <1>1 DEF KeyInv, TypeOK, FreshInv, BusyInv
<1>5. BusyInv'
  BY <1>1 DEF BusyInv, TypeOK, FreshInv
<1>6. StageInv'
  BY <1>1 DEF StageInv, TypeOK, BusyInv, ExclusiveInv, RunningInv
<1>7. ExclusiveInv'
  BY <1>1 DEF ExclusiveInv, TypeOK, FreshInv, KeyInv, BusyInv
<1>8. RunningInv'
  BY <1>1 DEF RunningInv, TypeOK, BusyInv, StageInv, ExclusiveInv
<1>9. OutsInv'
  BY <1>1 DEF OutsInv, TypeOK, BusyInv, StageInv
<1> QED BY <1>2, <1>3, <1>4, <1>5, <1>6, <1>7, <1>8, <1>9

LEMMA ReleaseStep ==
    ASSUME IInv, NEW r \in Releasers, NEW k \in Keys, Release(r, k)
    PROVE  IInv'
<1> USE DEF IInv, Release, Claim
<1>1. TypeOK'
  BY DEF TypeOK, BusyInv
<1>2. FreshInv'
  BY DEF FreshInv, TypeOK, BusyInv
<1>3. KeyInv'
  BY DEF KeyInv, TypeOK, FreshInv, BusyInv
<1>4. BusyInv'
  BY DEF BusyInv, TypeOK, FreshInv
<1>5. StageInv'
  BY DEF StageInv, TypeOK, BusyInv, ExclusiveInv, RunningInv
<1>6. ExclusiveInv'
  BY DEF ExclusiveInv, TypeOK, FreshInv, KeyInv, BusyInv
<1>7. RunningInv'
  BY DEF RunningInv, TypeOK, BusyInv, StageInv, ExclusiveInv
<1>8. OutsInv'
  BY DEF OutsInv, TypeOK, BusyInv, StageInv
<1> QED BY <1>1, <1>2, <1>3, <1>4, <1>5, <1>6, <1>7, <1>8

LEMMA RemoveStep ==
    ASSUME IInv, NEW t \in Stoppers, Remove(t)
    PROVE  IInv'
<1> USE DEF IInv, Remove, RemoveStopped
<1>1. cur[t] \in Attempts /\ pc[t] \notin Resting
  BY DEF TypeOK, BusyInv
<1>2. TypeOK'
  BY <1>1 DEF TypeOK
<1>3. FreshInv'
  BY <1>1 DEF FreshInv, TypeOK, BusyInv
<1>4. KeyInv'
  BY <1>1 DEF KeyInv, TypeOK, FreshInv, BusyInv
<1>5. BusyInv'
  BY <1>1 DEF BusyInv, TypeOK, FreshInv
<1>6. StageInv'
  BY <1>1 DEF StageInv, TypeOK, BusyInv, ExclusiveInv, RunningInv
<1>7. ExclusiveInv'
  BY <1>1 DEF ExclusiveInv, TypeOK, FreshInv, KeyInv, BusyInv
<1>8. RunningInv'
  BY <1>1 DEF RunningInv, TypeOK, BusyInv, StageInv, ExclusiveInv
<1>9. OutsInv'
  BY <1>1 DEF OutsInv, TypeOK, BusyInv, StageInv
<1> QED BY <1>2, <1>3, <1>4, <1>5, <1>6, <1>7, <1>8, <1>9

LEMMA AskStep ==
    ASSUME IInv, NEW n \in Attempts, Ask(n)
    PROVE  IInv'
<1> USE DEF IInv, Ask
<1>1. TypeOK'
  BY DEF TypeOK, BusyInv
<1>2. FreshInv'
  BY DEF FreshInv, TypeOK, BusyInv
<1>3. KeyInv'
  BY DEF KeyInv, TypeOK, FreshInv, BusyInv
<1>4. BusyInv'
  BY DEF BusyInv, TypeOK, FreshInv
<1>5. StageInv'
  BY DEF StageInv, TypeOK, BusyInv, ExclusiveInv, RunningInv
<1>6. ExclusiveInv'
  BY DEF ExclusiveInv, TypeOK, FreshInv, KeyInv, BusyInv
<1>7. RunningInv'
  BY DEF RunningInv, TypeOK, BusyInv, StageInv, ExclusiveInv
<1>8. OutsInv'
  BY DEF OutsInv, TypeOK, BusyInv, StageInv
<1> QED BY <1>1, <1>2, <1>3, <1>4, <1>5, <1>6, <1>7, <1>8

LEMMA WorkerTakeStep ==
    ASSUME IInv, WorkerTake
    PROVE  IInv'
<1> USE DEF IInv, WorkerTake
<1>1. TypeOK'
  BY DEF TypeOK, BusyInv
<1>2. FreshInv'
  BY DEF FreshInv, TypeOK, BusyInv
<1>3. KeyInv'
  BY DEF KeyInv, TypeOK, FreshInv, BusyInv
<1>4. BusyInv'
  BY DEF BusyInv, TypeOK, FreshInv
<1>5. StageInv'
  BY DEF StageInv, TypeOK, BusyInv, ExclusiveInv, RunningInv
<1>6. ExclusiveInv'
  BY DEF ExclusiveInv, TypeOK, FreshInv, KeyInv, BusyInv
<1>7. RunningInv'
  BY DEF RunningInv, TypeOK, BusyInv, StageInv, ExclusiveInv
<1>8. OutsInv'
  BY DEF OutsInv, TypeOK, BusyInv, StageInv
<1> QED BY <1>1, <1>2, <1>3, <1>4, <1>5, <1>6, <1>7, <1>8

LEMMA WorkerScanStep ==
    ASSUME IInv, WorkerScan
    PROVE  IInv'
<1> USE DEF IInv, WorkerScan
<1>1. TypeOK'
  BY DEF TypeOK, BusyInv
<1>2. FreshInv'
  BY DEF FreshInv, TypeOK, BusyInv
<1>3. KeyInv'
  BY DEF KeyInv, TypeOK, FreshInv, BusyInv
<1>4. BusyInv'
  BY DEF BusyInv, TypeOK, FreshInv
<1>5. StageInv'
  BY DEF StageInv, TypeOK, BusyInv, ExclusiveInv, RunningInv
<1>6. ExclusiveInv'
  BY DEF ExclusiveInv, TypeOK, FreshInv, KeyInv, BusyInv
<1>7. RunningInv'
  BY DEF RunningInv, TypeOK, BusyInv, StageInv, ExclusiveInv
<1>8. OutsInv'
  BY DEF OutsInv, TypeOK, BusyInv, StageInv
<1> QED BY <1>1, <1>2, <1>3, <1>4, <1>5, <1>6, <1>7, <1>8

LEMMA WorkerStopStep ==
    ASSUME IInv, NEW k \in Keys, WorkerStop(k)
    PROVE  IInv'
<1> USE DEF IInv, WorkerStop, Claim
<1>1. TypeOK'
  BY DEF TypeOK, BusyInv
<1>2. FreshInv'
  BY DEF FreshInv, TypeOK, BusyInv
<1>3. KeyInv'
  BY DEF KeyInv, TypeOK, FreshInv, BusyInv
<1>4. BusyInv'
  BY DEF BusyInv, TypeOK, FreshInv
<1>5. StageInv'
  BY DEF StageInv, TypeOK, BusyInv, ExclusiveInv, RunningInv
<1>6. ExclusiveInv'
  BY DEF ExclusiveInv, TypeOK, FreshInv, KeyInv, BusyInv
<1>7. RunningInv'
  BY DEF RunningInv, TypeOK, BusyInv, StageInv, ExclusiveInv
<1>8. OutsInv'
  BY DEF OutsInv, TypeOK, BusyInv, StageInv
<1> QED BY <1>1, <1>2, <1>3, <1>4, <1>5, <1>6, <1>7, <1>8

LEMMA WorkerDoneStep ==
    ASSUME IInv, WorkerDone
    PROVE  IInv'
<1> USE DEF IInv, WorkerDone
<1>1. TypeOK'
  BY DEF TypeOK, BusyInv
<1>2. FreshInv'
  BY DEF FreshInv, TypeOK, BusyInv
<1>3. KeyInv'
  BY DEF KeyInv, TypeOK, FreshInv, BusyInv
<1>4. BusyInv'
  BY DEF BusyInv, TypeOK, FreshInv
<1>5. StageInv'
  BY DEF StageInv, TypeOK, BusyInv, ExclusiveInv, RunningInv
<1>6. ExclusiveInv'
  BY DEF ExclusiveInv, TypeOK, FreshInv, KeyInv, BusyInv
<1>7. RunningInv'
  BY DEF RunningInv, TypeOK, BusyInv, StageInv, ExclusiveInv
<1>8. OutsInv'
  BY DEF OutsInv, TypeOK, BusyInv, StageInv
<1> QED BY <1>1, <1>2, <1>3, <1>4, <1>5, <1>6, <1>7, <1>8

LEMMA ExitClaimStep ==
    ASSUME IInv, ExitClaim
    PROVE  IInv'
<1> USE DEF IInv, ExitClaim
<1>1. TypeOK'
  BY DEF TypeOK, BusyInv
<1>2. FreshInv'
  BY DEF FreshInv, TypeOK, BusyInv
<1>3. KeyInv'
  BY DEF KeyInv, TypeOK, FreshInv, BusyInv
<1>4. BusyInv'
  BY DEF BusyInv, TypeOK, FreshInv
<1>5. StageInv'
  BY DEF StageInv, TypeOK, BusyInv, ExclusiveInv, RunningInv
<1>6. ExclusiveInv'
  BY DEF ExclusiveInv, TypeOK, FreshInv, KeyInv, BusyInv
<1>7. RunningInv'
  BY DEF RunningInv, TypeOK, BusyInv, StageInv, ExclusiveInv
<1>8. OutsInv'
  BY DEF OutsInv, TypeOK, BusyInv, StageInv
<1> QED BY <1>1, <1>2, <1>3, <1>4, <1>5, <1>6, <1>7, <1>8

LEMMA ExitNextStep ==
    ASSUME IInv, NEW n \in Attempts, ExitNext(n)
    PROVE  IInv'
<1> USE DEF IInv, ExitNext
<1>1. TypeOK'
  BY DEF TypeOK, BusyInv
<1>2. FreshInv'
  BY DEF FreshInv, TypeOK, BusyInv
<1>3. KeyInv'
  BY DEF KeyInv, TypeOK, FreshInv, BusyInv
<1>4. BusyInv'
  BY DEF BusyInv, TypeOK, FreshInv
<1>5. StageInv'
  BY DEF StageInv, TypeOK, BusyInv, ExclusiveInv, RunningInv
<1>6. ExclusiveInv'
  BY DEF ExclusiveInv, TypeOK, FreshInv, KeyInv, BusyInv
<1>7. RunningInv'
  BY DEF RunningInv, TypeOK, BusyInv, StageInv, ExclusiveInv
<1>8. OutsInv'
  BY DEF OutsInv, TypeOK, BusyInv, StageInv
<1> QED BY <1>1, <1>2, <1>3, <1>4, <1>5, <1>6, <1>7, <1>8

LEMMA ExitRemoveStep ==
    ASSUME IInv, ExitRemove
    PROVE  IInv'
<1> USE DEF IInv, ExitRemove, RemoveStopped
<1>1. TypeOK'
  BY DEF TypeOK, BusyInv
<1>2. FreshInv'
  BY DEF FreshInv, TypeOK, BusyInv
<1>3. KeyInv'
  BY DEF KeyInv, TypeOK, FreshInv, BusyInv
<1>4. BusyInv'
  BY DEF BusyInv, TypeOK, FreshInv
<1>5. StageInv'
  BY DEF StageInv, TypeOK, BusyInv, ExclusiveInv, RunningInv
<1>6. ExclusiveInv'
  BY DEF ExclusiveInv, TypeOK, FreshInv, KeyInv, BusyInv
<1>7. RunningInv'
  BY DEF RunningInv, TypeOK, BusyInv, StageInv, ExclusiveInv
<1>8. OutsInv'
  BY DEF OutsInv, TypeOK, BusyInv, StageInv
<1> QED BY <1>1, <1>2, <1>3, <1>4, <1>5, <1>6, <1>7, <1>8

LEMMA ExitWokenStep ==
    ASSUME IInv, ExitWoken
    PROVE  IInv'
<1> USE DEF IInv, ExitWoken
<1>1. TypeOK'
  BY DEF TypeOK, BusyInv
<1>2. FreshInv'
  BY DEF FreshInv, TypeOK, BusyInv
<1>3. KeyInv'
  BY DEF KeyInv, TypeOK, FreshInv, BusyInv
<1>4. BusyInv'
  BY DEF BusyInv, TypeOK, FreshInv
<1>5. StageInv'
  BY DEF StageInv, TypeOK, BusyInv, ExclusiveInv, RunningInv
<1>6. ExclusiveInv'
  BY DEF ExclusiveInv, TypeOK, FreshInv, KeyInv, BusyInv
<1>7. RunningInv'
  BY DEF RunningInv, TypeOK, BusyInv, StageInv, ExclusiveInv
<1>8. OutsInv'
  BY DEF OutsInv, TypeOK, BusyInv, StageInv
<1> QED BY <1>1, <1>2, <1>3, <1>4, <1>5, <1>6, <1>7, <1>8

LEMMA ExitTimesOutStep ==
    ASSUME IInv, ExitTimesOut
    PROVE  IInv'
<1> USE DEF IInv, ExitTimesOut
<1>1. TypeOK'
  BY DEF TypeOK, BusyInv
<1>2. FreshInv'
  BY DEF FreshInv, TypeOK, BusyInv
<1>3. KeyInv'
  BY DEF KeyInv, TypeOK, FreshInv, BusyInv
<1>4. BusyInv'
  BY DEF BusyInv, TypeOK, FreshInv
<1>5. StageInv'
  BY DEF StageInv, TypeOK, BusyInv, ExclusiveInv, RunningInv
<1>6. ExclusiveInv'
  BY DEF ExclusiveInv, TypeOK, FreshInv, KeyInv, BusyInv
<1>7. RunningInv'
  BY DEF RunningInv, TypeOK, BusyInv, StageInv, ExclusiveInv
<1>8. OutsInv'
  BY DEF OutsInv, TypeOK, BusyInv, StageInv
<1> QED BY <1>1, <1>2, <1>3, <1>4, <1>5, <1>6, <1>7, <1>8

-----------------------------------------------------------------------------
LEMMA InitInv == Init => IInv
<1> SUFFICES ASSUME Init PROVE IInv
  OBVIOUS
<1> USE DEF Init
<1>1. TypeOK
  <2>1. /\ pc \in [Threads -> PlugPlaces \cup StopPlaces \cup ExitPlaces]
        /\ \A p \in Pluggers : pc[p] \in PlugPlaces
        /\ \A t \in Stoppers : pc[t] \in StopPlaces
        /\ pc[Exit] \in ExitPlaces
    OBVIOUS
  <2>2. /\ seq \in 0 .. MaxPlugs
        /\ cur \in [Threads -> Attempts \cup {None}]
        /\ outs \in [Attempts -> Nat]
    OBVIOUS
  <2> QED BY <2>1, <2>2 DEF TypeOK
<1>2. FreshInv /\ KeyInv /\ BusyInv
  BY DEF FreshInv, KeyInv, BusyInv
<1>3. StageInv /\ ExclusiveInv /\ RunningInv
  BY DEF StageInv, ExclusiveInv, RunningInv
<1>4. OutsInv
  BY DEF OutsInv
<1> QED BY <1>1, <1>2, <1>3, <1>4 DEF IInv

LEMMA NextInv == IInv /\ [Next]_vars => IInv'
<1> SUFFICES ASSUME IInv, [Next]_vars PROVE IInv'
  OBVIOUS
<1>1. CASE UNCHANGED vars
  <2> USE <1>1 DEF vars, table, plugVars, life, workerVars, exitVars, listener
  <2>1. TypeOK'
    BY DEF IInv, TypeOK
  <2>2. FreshInv' /\ KeyInv'
    BY DEF IInv, FreshInv, KeyInv, InTable
  <2>3. BusyInv' /\ StageInv'
    BY DEF IInv, BusyInv, StageInv
  <2>4. ExclusiveInv' /\ RunningInv' /\ OutsInv'
    BY DEF IInv, ExclusiveInv, RunningInv, OutsInv, Bridged, InTable
  <2> QED
    BY <2>1, <2>2, <2>3, <2>4, Zenon DEF IInv
<1>2. ASSUME NEW p \in Pluggers, Plug(p) PROVE IInv'
  BY <1>2, PlugCallStep, PlugCheckStep, PlugStartedStep, PlugRefusedStep,
     PlugUnsaidStep, PlugMakeStep, AddNewStep, AddReplacesStep, AddRefusedStep,
     DestroyReplacedStep DEF Plug
<1>3. ASSUME NEW t \in Threads, Teardown(t) PROVE IInv'
  BY <1>3, PlugOutStep, DestroyStep, TellStopStep, TellLostStep DEF Teardown
<1>4. ASSUME NEW r \in Releasers, NEW k \in Keys, Release(r, k) PROVE IInv'
  BY <1>4, ReleaseStep
<1>5. ASSUME NEW t \in Stoppers, Remove(t) PROVE IInv'
  BY <1>5, RemoveStep
<1>6. ASSUME NEW n \in Attempts, Ask(n) PROVE IInv'
  BY <1>6, AskStep
<1>7. CASE WorkerStep
  BY <1>7, WorkerTakeStep, WorkerScanStep, WorkerStopStep, WorkerDoneStep DEF WorkerStep
<1>8. CASE ExitClaim \/ ExitLoop \/ ExitTimesOut
  BY <1>8, ExitClaimStep, TellSkippedStep, ExitNextStep, ExitRemoveStep,
     ExitWokenStep, ExitTimesOutStep DEF ExitLoop
<1> QED
  BY <1>1, <1>2, <1>3, <1>4, <1>5, <1>6, <1>7, <1>8 DEF Next

-----------------------------------------------------------------------------
\* IInv holds in every state: what the other theorems are read from.
THEOREM Invariance == Spec => []IInv
BY InitInv, NextInv, PTL DEF Spec

\* The type invariant of the session table.
THEOREM TypeCorrect == Spec => []TypeOK
<1>1. IInv => TypeOK
  BY DEF IInv
<1> QED
  BY <1>1, Invariance, PTL

\* "ONE PATH TEARS A CONTROLLER DOWN, WHICHEVER ASKS FIRST" (stop_session):
\* whatever the paths' interleaving, no controller is plugged out twice, and
\* none is destroyed without a plug-out.
THEOREM TeardownOnce == Spec => []TornDownOnce
<1>1. IInv => TornDownOnce
  BY DEF IInv, OutsInv, TypeOK, TornDownOnce
<1> QED
  BY <1>1, Invariance, PTL

\* What the gesture worker and the panel read through the table, under its
\* mutex and past a stopping entry, is a controller nobody is tearing down.
THEOREM TableReadsAreSafe == Spec => []TableHoldsRunning
<1>1. IInv => TableHoldsRunning
  BY DEF IInv, RunningInv, KeyInv, TableHoldsRunning
<1> QED
  BY <1>1, Invariance, PTL

-----------------------------------------------------------------------------
(***************************************************************************)
(* The table implements ControllerOwnership.                               *)
(***************************************************************************)
Alive == {"running", "out"}
InTableAs(n) == \E k \in Keys : Bridged(k) /\ entry[k] = n
Held(n) == \E t \in Threads : Holds(t, n)

\* No controller is lost: one that was made and is not gone has an owner.
OwnedInv == \A n \in Attempts : ctl[n] \in Alive => InTableAs(n) \/ Held(n)

\* And it has one owner, which OwnerOf finds.
OwnersAre ==
    \A n \in Attempts :
        /\ ctl[n] = "none" => OwnerOf(n) = "unborn"
        /\ ctl[n] = "gone" => OwnerOf(n) = "gone"
        /\ InTableAs(n) => OwnerOf(n) = "table"
        /\ \A t \in Threads : Holds(t, n) /\ ctl[n] \in Alive => OwnerOf(n) = t

-----------------------------------------------------------------------------
\* A controller a path holds is no other's and not the table's.
LEMMA OneHolder ==
    ASSUME IInv, NEW n \in Attempts, NEW t \in Threads, Holds(t, n)
    PROVE  /\ \A u \in Threads : Holds(u, n) => u = t
           /\ ~InTableAs(n)
BY DEF IInv, ExclusiveInv, TypeOK, Holds, InTableAs

\* OwnerOf finds the one owner there is.
LEMMA OwnerIs == IInv => OwnersAre
<1> SUFFICES ASSUME IInv, NEW n \in Attempts
             PROVE  /\ ctl[n] = "none" => OwnerOf(n) = "unborn"
                    /\ ctl[n] = "gone" => OwnerOf(n) = "gone"
                    /\ InTableAs(n) => OwnerOf(n) = "table"
                    /\ \A t \in Threads : Holds(t, n) /\ ctl[n] \in Alive => OwnerOf(n) = t
  BY DEF OwnersAre
<1>1. ctl[n] = "none" => OwnerOf(n) = "unborn"
  BY DEF OwnerOf
<1>2. ctl[n] = "gone" => OwnerOf(n) = "gone"
  BY DEF OwnerOf
<1>3. ASSUME InTableAs(n) PROVE OwnerOf(n) = "table"
  <2>1. ctl[n] = "running"
    BY <1>3 DEF InTableAs, IInv, RunningInv
  <2> QED
    BY <1>3, <2>1 DEF OwnerOf, InTableAs
<1>4. ASSUME NEW t \in Threads, Holds(t, n), ctl[n] \in Alive PROVE OwnerOf(n) = t
  <2>1. ~InTableAs(n) /\ \A u \in Threads : Holds(u, n) => u = t
    BY <1>4, OneHolder
  <2>2. (CHOOSE u \in Threads : Holds(u, n)) = t
    BY <1>4, <2>1
  <2>3. OwnerOf(n) = CHOOSE u \in Threads : Holds(u, n)
    BY <1>4, <2>1 DEF OwnerOf, InTableAs, Alive
  <2> QED
    BY <2>2, <2>3
<1> QED
  BY <1>1, <1>2, <1>3, <1>4

\* After the step, too.
LEMMA OwnerIsNext == IInv' => OwnersAre'
BY OwnerIs, PTL

\* What a step does not touch keeps its owner.
LEMMA Keeps ==
    ASSUME IInv, IInv', OwnedInv, NEW n \in Attempts,
           ctl'[n] = ctl[n] \/ (ctl[n] = "running" /\ ctl'[n] = "out"),
           InTableAs(n) => InTableAs(n)',
           \A t \in Threads : Holds(t, n) /\ ctl[n] \in Alive => Holds(t, n)'
    PROVE  OwnerOf(n)' = OwnerOf(n) /\ (ctl'[n] \in Alive => InTableAs(n)' \/ Held(n)')
<1>1. OwnersAre /\ OwnersAre'
  BY OwnerIs, OwnerIsNext
<1>2. ctl[n] \in {"none", "gone"} \cup Alive
  BY DEF IInv, TypeOK, Alive
<1>3. CASE ctl[n] \in {"none", "gone"}
  BY <1>1, <1>3 DEF OwnersAre, Alive
<1>4. CASE InTableAs(n)
  BY <1>1, <1>4 DEF OwnersAre
<1>5. CASE ctl[n] \in Alive /\ ~InTableAs(n)
  <2>1. PICK t \in Threads : Holds(t, n)
    BY <1>5 DEF OwnedInv, Held
  <2>2. Holds(t, n)' /\ ctl'[n] \in Alive
    BY <1>5, <2>1 DEF Alive
  <2> QED
    BY <1>1, <1>5, <2>1, <2>2 DEF OwnersAre, Held
<1> QED
  BY <1>2, <1>3, <1>4, <1>5

-----------------------------------------------------------------------------
\* The owners, as ControllerOwnership sees them, and what a step does to them.
Owners == [n \in Attempts |-> OwnerOf(n)]
Step == OwnedInv' /\ [Ownership!Next]_Owners

\* A step that moves nothing between owners changes none.
LEMMA Stutters ==
    ASSUME IInv, IInv', OwnedInv,
           \A n \in Attempts :
               /\ ctl'[n] = ctl[n] \/ (ctl[n] = "running" /\ ctl'[n] = "out")
               /\ InTableAs(n) => InTableAs(n)'
               /\ \A t \in Threads : Holds(t, n) /\ ctl[n] \in Alive => Holds(t, n)'
    PROVE  Step
<1>1. \A n \in Attempts :
          OwnerOf(n)' = OwnerOf(n) /\ (ctl'[n] \in Alive => InTableAs(n)' \/ Held(n)')
  BY Keeps
<1> QED
  BY <1>1 DEF Step, OwnedInv, Owners

\* Where the threads and the table are as far as a holder goes, but for t.
LEMMA PlugStutters ==
    ASSUME IInv, IInv', OwnedInv, NEW p \in Pluggers,
           \/ \E k \in Keys : PlugCall(p, k)
           \/ PlugCheck(p) \/ PlugStarted(p) \/ PlugRefused(p) \/ PlugUnsaid(p) \/ AddRefused(p)
    PROVE  Step
<1>1. UNCHANGED <<table, ctl, left>>
  BY DEF PlugCall, PlugCheck, PlugStarted, PlugRefused, PlugUnsaid, AddRefused
<1>2. \A n \in Attempts, t \in Threads : Holds(t, n) => Holds(t, n)'
  <2>1. \A t \in Threads : t # p => pc'[t] = pc[t] /\ cur'[t] = cur[t]
    BY DEF PlugCall, PlugCheck, PlugStarted, PlugRefused, PlugUnsaid, AddRefused, Return,
           IInv, TypeOK
  <2>2. pc[p] \in {"add", "out", "free", "dropOut", "dropFree"} => cur'[p] = cur[p] /\ pc'[p] = "out"
    BY DEF PlugCall, PlugCheck, PlugStarted, PlugRefused, PlugUnsaid, AddRefused,
           IInv, TypeOK
  <2> QED
    BY <1>1, <2>1, <2>2 DEF Holds
<1> QED
  BY <1>1, <1>2, Stutters DEF InTableAs

\* A plug-out and a BRIDGE_STOP leave the controller with its path.
LEMMA TeardownStutters ==
    ASSUME IInv, IInv', OwnedInv, NEW t \in Threads,
           PlugOut(t) \/ TellStop(t) \/ TellLost(t) \/ (t = Exit /\ TellSkipped)
    PROVE  Step
<1>1. UNCHANGED <<table, left>>
  BY DEF PlugOut, TellStop, TellLost, TellSkipped, Tell
<1>2. \A n \in Attempts : ctl'[n] = ctl[n] \/ (ctl[n] = "running" /\ ctl'[n] = "out")
  <2>1. CASE PlugOut(t)
    <3>1. cur[t] \in Attempts /\ ctl[cur[t]] = "running"
      BY <2>1 DEF PlugOut, IInv, TypeOK, BusyInv, StageInv
    <3> QED
      BY <2>1, <3>1 DEF PlugOut, IInv, TypeOK
  <2>2. CASE ~PlugOut(t)
    BY <2>2 DEF TellStop, TellLost, TellSkipped, Tell
  <2> QED
    BY <2>1, <2>2
<1>3. \A n \in Attempts, u \in Threads : Holds(u, n) => Holds(u, n)'
  <2>1. \A u \in Threads : u # t => pc'[u] = pc[u] /\ cur'[u] = cur[u]
    BY DEF PlugOut, TellStop, TellLost, TellSkipped, Tell, IInv, TypeOK
  <2>2. pc[t] \in {"add", "out", "free", "dropOut", "dropFree"}
           => cur'[t] = cur[t] /\ pc'[t] \in {"free", "dropFree"}
    BY DEF PlugOut, TellStop, TellLost, TellSkipped, Tell, IInv, TypeOK
  <2> QED
    BY <1>1, <2>1, <2>2 DEF Holds
<1> QED
  BY <1>1, <1>2, <1>3, Stutters DEF InTableAs

\* What is removed is stopping, so no longer the table's; the worker's steps that claim
\* nothing, and the exit's, change no owner either.
LEMMA OtherStutters ==
    ASSUME IInv, IInv', OwnedInv,
           \/ \E t \in Stoppers : Remove(t)
           \/ \E n \in Attempts : Ask(n)
           \/ WorkerTake \/ WorkerScan \/ WorkerDone
           \/ (\E n \in Attempts : ExitNext(n)) \/ ExitRemove \/ ExitWoken \/ ExitTimesOut
           \/ UNCHANGED vars
    PROVE  Step
<1>1. UNCHANGED ctl
  BY DEF Remove, Ask, WorkerTake, WorkerScan, WorkerDone, ExitNext, ExitRemove, ExitWoken,
         ExitTimesOut, vars
<1>2. \A n \in Attempts : InTableAs(n) => InTableAs(n)'
  <2>1. CASE UNCHANGED table
    BY <2>1 DEF InTableAs
  <2>2. ASSUME NEW ks, RemoveStopped(ks) PROVE \A n \in Attempts : InTableAs(n) => InTableAs(n)'
    BY <2>2 DEF RemoveStopped, InTableAs
  <2> QED
    BY <2>1, <2>2 DEF Remove, Ask, WorkerTake, WorkerScan, WorkerDone, ExitNext, ExitRemove,
                      ExitWoken, ExitTimesOut, vars
<1>3. \A n \in Attempts, u \in Threads : Holds(u, n) => Holds(u, n)'
  <2>1. CASE UNCHANGED <<pc, cur, left>>
    BY <2>1 DEF Holds
  <2>2. ASSUME NEW t \in Stoppers, Remove(t)
        PROVE  \A n \in Attempts, u \in Threads : Holds(u, n) => Holds(u, n)'
    BY <2>2 DEF Remove, Holds, IInv, TypeOK
  <2>3. CASE WorkerTake \/ WorkerScan \/ WorkerDone
    BY <2>3 DEF WorkerTake, WorkerScan, WorkerDone, Holds, IInv, TypeOK
  <2>4. ASSUME NEW m \in Attempts, ExitNext(m)
        PROVE  \A n \in Attempts, u \in Threads : Holds(u, n) => Holds(u, n)'
    BY <2>4 DEF ExitNext, Holds, IInv, TypeOK
  <2>5. CASE ExitRemove \/ ExitWoken \/ ExitTimesOut
    BY <2>5 DEF ExitRemove, ExitWoken, ExitTimesOut, Holds, IInv, TypeOK
  <2> QED
    BY <2>1, <2>2, <2>3, <2>4, <2>5 DEF Ask, vars
<1> QED
  BY <1>1, <1>2, <1>3, Stutters

-----------------------------------------------------------------------------
\* A step that changes the owners of some controllers, D, and of no others.
LEMMA Changes ==
    ASSUME IInv, IInv', OwnedInv, NEW D \in SUBSET Attempts,
           \A n \in Attempts \ D :
               /\ ctl'[n] = ctl[n] \/ (ctl[n] = "running" /\ ctl'[n] = "out")
               /\ InTableAs(n) => InTableAs(n)'
               /\ \A t \in Threads : Holds(t, n) /\ ctl[n] \in Alive => Holds(t, n)',
           \A n \in D : ctl'[n] \in Alive => InTableAs(n)' \/ Held(n)'
    PROVE  /\ OwnedInv'
           /\ Owners' = [n \in Attempts |-> IF n \in D THEN OwnerOf(n)' ELSE Owners[n]]
<1>1. \A n \in Attempts \ D :
          OwnerOf(n)' = OwnerOf(n) /\ (ctl'[n] \in Alive => InTableAs(n)' \/ Held(n)')
  BY Keeps
<1> QED
  BY <1>1 DEF OwnedInv, Owners

\* ctm_controller_create makes a controller, the plug's own.
LEMMA Makes ==
    ASSUME IInv, IInv', OwnedInv, NEW p \in Pluggers, NEW c, c = cur[p], PlugMake(p)
    PROVE  Step
<1>1. p \in Threads /\ c \in Attempts /\ ctl[c] = "none"
  <2>1. p \in Threads /\ pc[p] = "make"
    BY DEF PlugMake
  <2> QED
    BY <2>1 DEF IInv, TypeOK, BusyInv, StageInv
<1>2. UNCHANGED <<table, left, cur>> /\ \A t \in Threads : t # p => pc'[t] = pc[t]
  BY DEF PlugMake, IInv, TypeOK
<1>3. \A n \in Attempts, t \in Threads : Holds(t, n) => Holds(t, n)'
  BY <1>1, <1>2 DEF PlugMake, Holds
<1>4. CASE UNCHANGED ctl
  BY <1>2, <1>3, <1>4, Stutters DEF InTableAs
<1>5. CASE ctl' = [ctl EXCEPT ![c] = "running"] /\ Goto(p, "add")
  <2>1. Holds(p, c)'
    BY <1>1, <1>2, <1>5 DEF Holds, IInv, TypeOK
  <2>2. /\ OwnedInv'
        /\ Owners' = [n \in Attempts |-> IF n \in {c} THEN OwnerOf(n)' ELSE Owners[n]]
    <3>1. \A n \in Attempts \ {c} : ctl'[n] = ctl[n] /\ (InTableAs(n) => InTableAs(n)')
      BY <1>2, <1>5 DEF InTableAs, IInv, TypeOK
    <3>2. {c} \in SUBSET Attempts /\ \A n \in {c} : Held(n)'
      BY <1>1, <2>1 DEF Held
    <3> QED
      BY <1>3, <3>1, <3>2, Changes
  <2>3. OwnerOf(c)' = p
    <3>1. OwnersAre'
      BY OwnerIsNext
    <3>2. ctl \in [Attempts -> {"none", "running", "out", "gone"}]
      BY DEF IInv, TypeOK
    <3>3. ctl'[c] \in Alive
      BY <1>1, <1>5, <3>2 DEF Alive
    <3> QED
      BY <1>1, <2>1, <3>1, <3>3 DEF OwnersAre
  <2>4. Owners[c] = "unborn"
    BY <1>1, OwnerIs DEF OwnersAre, Owners
  <2>5. Owners' = [Owners EXCEPT ![c] = p]
    BY <1>1, <2>2, <2>3 DEF Owners
  <2>6. Ownership!Make(p, c)
    BY <2>4, <2>5 DEF Ownership!Make, Owners
  <2> QED
    BY <1>1, <2>2, <2>6 DEF Step, Ownership!Next, Owners
<1> QED
  BY <1>4, <1>5 DEF PlugMake

\* add_session records it where there was none.
LEMMA Records ==
    ASSUME IInv, IInv', OwnedInv, NEW p \in Pluggers, NEW c, c = cur[p], AddNew(p)
    PROVE  Step
<1> DEFINE k == keyOf[c]
<1>1. p \in Threads /\ c \in Attempts /\ ctl[c] = "running" /\ k \in Keys
      /\ k \notin stopping /\ Holds(p, c)
  <2>1. p \in Threads /\ pc[p] = "add" /\ ~InTable(k)
    BY DEF AddNew
  <2>2. c \in Attempts /\ c <= seq /\ ctl[c] = "running"
    <3>1. c \in Attempts
      BY <2>1 DEF IInv, TypeOK, BusyInv
    <3>2. c <= seq
      BY <2>1 DEF IInv, FreshInv
    <3>3. ctl[c] = "running"
      BY <2>1 DEF IInv, StageInv
    <3> QED
      BY <3>1, <3>2, <3>3
  <2>3. k \in Keys
    BY <2>2 DEF IInv, KeyInv
  <2> QED
    BY <2>1, <2>2, <2>3 DEF IInv, KeyInv, Holds
<1>2. /\ entry' = [entry EXCEPT ![k] = c] /\ UNCHANGED <<stopping, ctl, left>>
      /\ \A t \in Threads : t # p => pc'[t] = pc[t] /\ cur'[t] = cur[t]
  BY DEF AddNew, Return, IInv, TypeOK
<1>3. InTableAs(c)'
  <2>1. entry'[k] = c /\ k \notin stopping'
    BY <1>1, <1>2 DEF IInv, TypeOK
  <2>2. \E j \in Keys : (entry'[j] # 0 /\ j \notin stopping') /\ entry'[j] = c
    BY <1>1, <2>1
  <2> QED
    BY <1>1, <2>2 DEF InTableAs
<1>4. \A n \in Attempts \ {c} :
          /\ InTableAs(n) => InTableAs(n)'
          /\ \A t \in Threads : Holds(t, n) => Holds(t, n)'
  BY <1>1, <1>2 DEF AddNew, InTableAs, Holds, IInv, TypeOK
<1>5. /\ OwnedInv'
      /\ Owners' = [n \in Attempts |-> IF n \in {c} THEN OwnerOf(n)' ELSE Owners[n]]
  <2>1. {c} \in SUBSET Attempts /\ \A n \in {c} : InTableAs(n)'
    BY <1>1, <1>3
  <2>2. \A n \in Attempts \ {c} : ctl'[n] = ctl[n]
    BY <1>2
  <2> QED
    BY <1>4, <2>1, <2>2, Changes
<1>6. OwnerOf(c)' = "table"
  BY <1>1, <1>3, OwnerIsNext DEF OwnersAre
<1>7. Owners[c] = p
  BY <1>1, OwnerIs DEF OwnersAre, Owners, Alive
<1>8. Owners' = [Owners EXCEPT ![c] = "table"]
  BY <1>1, <1>5, <1>6 DEF Owners
<1>9. Ownership!Record(p, c)
  BY <1>7, <1>8 DEF Ownership!Record, Owners
<1> QED
  BY <1>1, <1>5, <1>9 DEF Step, Ownership!Next, Owners

\* Or in the place of another, d, which is then the plug's to take apart.
LEMMA Replaces ==
    ASSUME IInv, IInv', OwnedInv, NEW p \in Pluggers, NEW c, c = cur[p],
           NEW d, d = entry[keyOf[c]], AddReplaces(p)
    PROVE  Step
<1> DEFINE k == keyOf[c]
<1>1. /\ p \in Threads /\ pc[p] = "add" /\ c \in Attempts /\ ctl[c] = "running" /\ k \in Keys
      /\ d \in Attempts /\ k \notin stopping /\ Holds(p, c) /\ InTableAs(d)
  <2>1. p \in Threads /\ pc[p] = "add" /\ Bridged(k)
    BY DEF AddReplaces
  <2>2. c \in Attempts /\ c <= seq /\ ctl[c] = "running"
    <3>1. c \in Attempts
      BY <2>1 DEF IInv, TypeOK, BusyInv
    <3>2. c <= seq
      BY <2>1 DEF IInv, FreshInv
    <3>3. ctl[c] = "running"
      BY <2>1 DEF IInv, StageInv
    <3> QED
      BY <3>1, <3>2, <3>3
  <2>3. k \in Keys
    BY <2>2 DEF IInv, KeyInv
  <2>4. d \in Attempts
    BY <2>1, <2>3 DEF IInv, TypeOK
  <2> QED
    BY <2>1, <2>2, <2>3, <2>4 DEF Holds, InTableAs
<1>2. /\ entry' = [entry EXCEPT ![k] = c] /\ UNCHANGED <<stopping, ctl, left>>
      /\ pc'[p] = "dropOut" /\ cur'[p] = d
      /\ \A t \in Threads : t # p => pc'[t] = pc[t] /\ cur'[t] = cur[t]
  BY <1>1 DEF AddReplaces, IInv, TypeOK
<1>3. c # d
  BY <1>1, OneHolder
<1>4. InTableAs(c)' /\ Holds(p, d)'
  <2>1. entry'[k] = c /\ k \notin stopping'
    BY <1>1, <1>2 DEF IInv, TypeOK
  <2>2. \E j \in Keys : (entry'[j] # 0 /\ j \notin stopping') /\ entry'[j] = c
    BY <1>1, <2>1
  <2> QED
    BY <1>1, <1>2, <2>2 DEF InTableAs, Holds
<1>5. \A n \in Attempts \ {c, d} :
          /\ InTableAs(n) => InTableAs(n)'
          /\ \A t \in Threads : Holds(t, n) => Holds(t, n)'
  BY <1>1, <1>2 DEF InTableAs, Holds, IInv, TypeOK
<1>6. /\ OwnedInv'
      /\ Owners' = [n \in Attempts |-> IF n \in {c, d} THEN OwnerOf(n)' ELSE Owners[n]]
  <2>1. {c, d} \in SUBSET Attempts /\ \A n \in {c, d} : InTableAs(n)' \/ Held(n)'
    BY <1>1, <1>4 DEF Held
  <2>2. \A n \in Attempts \ {c, d} : ctl'[n] = ctl[n]
    BY <1>2
  <2> QED
    BY <1>5, <2>1, <2>2, Changes
<1>7. ctl[d] = "running"
  BY <1>1 DEF InTableAs, IInv, RunningInv
<1>8. OwnerOf(c)' = "table" /\ OwnerOf(d)' = p
  <2>1. OwnersAre' /\ ctl'[d] \in Alive
    BY <1>2, <1>7, OwnerIsNext DEF Alive
  <2> QED
    BY <1>1, <1>4, <2>1 DEF OwnersAre
<1>9. Owners[c] = p /\ Owners[d] = "table"
  BY <1>1, OwnerIs DEF OwnersAre, Owners, Alive
<1>10. Owners' = [Owners EXCEPT ![c] = "table", ![d] = p]
  BY <1>1, <1>3, <1>6, <1>8 DEF Owners
<1>11. Ownership!Replace(p, c, d)
  BY <1>9, <1>10 DEF Ownership!Replace, Owners
<1> QED
  BY <1>1, <1>6, <1>11 DEF Step, Ownership!Next, Owners

\* ctm_controller_destroy, by the path whose controller it is.
LEMMA Destroys ==
    ASSUME IInv, IInv', OwnedInv, NEW t \in Threads, NEW c, c = cur[t],
           Destroy(t) \/ DestroyReplaced(t)
    PROVE  Step
<1>1. c \in Attempts /\ ctl[c] = "out" /\ Holds(t, c)
  <2>1. pc[t] \in {"free", "dropFree"}
    BY DEF Destroy, DestroyReplaced
  <2> QED
    BY <2>1 DEF IInv, TypeOK, BusyInv, StageInv, Holds
<1>2. /\ ctl' = [ctl EXCEPT ![c] = "gone"] /\ UNCHANGED <<table, left>>
      /\ \A u \in Threads : u # t => pc'[u] = pc[u] /\ cur'[u] = cur[u]
  BY DEF Destroy, DestroyReplaced, Return, IInv, TypeOK
<1>3. \A n \in Attempts \ {c} :
          /\ ctl'[n] = ctl[n] /\ (InTableAs(n) => InTableAs(n)')
          /\ \A u \in Threads : Holds(u, n) => Holds(u, n)'
  BY <1>1, <1>2 DEF InTableAs, Holds, IInv, TypeOK
<1>4. ctl'[c] = "gone"
  BY <1>1, <1>2 DEF IInv, TypeOK
<1>5. /\ OwnedInv'
      /\ Owners' = [n \in Attempts |-> IF n \in {c} THEN OwnerOf(n)' ELSE Owners[n]]
  <2>1. {c} \in SUBSET Attempts /\ \A n \in {c} : ctl'[n] \notin Alive
    BY <1>1, <1>4 DEF Alive
  <2> QED
    BY <1>3, <2>1, Changes
<1>6. OwnerOf(c)' = "gone"
  BY <1>1, <1>4, OwnerIsNext DEF OwnersAre
<1>7. Owners[c] = t
  BY <1>1, OwnerIs DEF OwnersAre, Owners, Alive
<1>8. Owners' = [Owners EXCEPT ![c] = "gone"]
  BY <1>1, <1>5, <1>6 DEF Owners
<1>9. Ownership!Destroy(t, c)
  BY <1>7, <1>8 DEF Ownership!Destroy, Owners
<1> QED
  BY <1>1, <1>5, <1>9 DEF Step, Ownership!Next, Owners

\* What a path claims of the table is its own from then on.
LEMMA Claims ==
    ASSUME IInv, IInv', OwnedInv, NEW t \in Threads, NEW D \in SUBSET Attempts,
           \A c \in D : InTableAs(c) /\ Holds(t, c)' /\ ctl'[c] = ctl[c],
           \A n \in Attempts \ D :
               /\ ctl'[n] = ctl[n] /\ (InTableAs(n) => InTableAs(n)')
               /\ \A u \in Threads : Holds(u, n) => Holds(u, n)'
    PROVE  Step
<1>1. \A c \in D : ctl'[c] \in Alive /\ Held(c)'
  BY DEF InTableAs, IInv, RunningInv, Alive, Held
<1>2. /\ OwnedInv'
      /\ Owners' = [n \in Attempts |-> IF n \in D THEN OwnerOf(n)' ELSE Owners[n]]
  BY <1>1, Changes
<1>3. \A c \in D : OwnerOf(c)' = t /\ Owners[c] = "table"
  <2>1. OwnersAre /\ OwnersAre'
    BY OwnerIs, OwnerIsNext
  <2> QED
    BY <1>1, <2>1 DEF OwnersAre, Owners
<1>4. Ownership!Claim(t, D)
  BY <1>2, <1>3 DEF Ownership!Claim, Owners
<1> QED
  BY <1>2, <1>4 DEF Step, Ownership!Next, Owners

\* stop_session() takes the controller out of the table's hands.
LEMMA StopperClaims ==
    ASSUME IInv, IInv', OwnedInv, NEW t \in Stoppers, NEW k \in Keys,
           pc[t] \in {"idle", "next"}, Claim(t, k), UNCHANGED <<entry, ctl, left>>
    PROVE  Step
<1>1. PICK c : c = entry[k]
  OBVIOUS
<1>2. c \in Attempts /\ InTableAs(c)
  BY <1>1 DEF Claim, IInv, TypeOK, InTableAs
<1>3. /\ pc'[t] = "out" /\ cur'[t] = c
      /\ \A u \in Threads : u # t => pc'[u] = pc[u] /\ cur'[u] = cur[u]
  BY <1>1 DEF Claim, IInv, TypeOK
<1>4. Holds(t, c)'
  BY <1>3 DEF Holds
<1>5. \A n \in Attempts \ {c} : InTableAs(n) => InTableAs(n)'
  BY <1>1 DEF Claim, InTableAs
<1>6. \A n \in Attempts, u \in Threads : Holds(u, n) => Holds(u, n)'
  BY <1>3 DEF Holds
<1>7. PICK D \in SUBSET Attempts : D = {c}
  BY <1>2
<1>8. \A n \in D : InTableAs(n) /\ Holds(t, n)' /\ ctl'[n] = ctl[n]
  BY <1>2, <1>4, <1>7
<1>9. \A n \in Attempts \ D :
          /\ ctl'[n] = ctl[n] /\ (InTableAs(n) => InTableAs(n)')
          /\ \A u \in Threads : Holds(u, n) => Holds(u, n)'
  BY <1>5, <1>6, <1>7
<1> QED
  BY <1>8, <1>9, Claims

\* Every step of the table's is one of ControllerOwnership's, or changes no owner.
LEMMA Refines == IInv /\ IInv' /\ OwnedInv /\ [Next]_vars => Step
<1> SUFFICES ASSUME IInv, IInv', OwnedInv, [Next]_vars PROVE Step
  OBVIOUS
<1>1. ASSUME NEW p \in Pluggers, Plug(p) PROVE Step
  <2>1. CASE \/ \E k \in Keys : PlugCall(p, k)
             \/ PlugCheck(p) \/ PlugStarted(p) \/ PlugRefused(p) \/ PlugUnsaid(p) \/ AddRefused(p)
    BY <2>1, PlugStutters
  <2>2. CASE PlugMake(p)
    BY <2>2, Makes
  <2>3. CASE AddNew(p)
    BY <2>3, Records
  <2>4. CASE AddReplaces(p)
    BY <2>4, Replaces
  <2>5. CASE DestroyReplaced(p)
    BY <2>5, Destroys
  <2> QED
    BY <1>1, <2>1, <2>2, <2>3, <2>4, <2>5 DEF Plug
<1>2. ASSUME NEW t \in Threads, Teardown(t) PROVE Step
  BY <1>2, TeardownStutters, Destroys DEF Teardown
<1>3. ASSUME NEW r \in Releasers, NEW k \in Keys, Release(r, k) PROVE Step
  BY <1>3, StopperClaims DEF Release
<1>4. ASSUME NEW k \in Keys, WorkerStop(k) PROVE Step
  <2>1. CASE Claim(Worker, k)
    BY <1>4, <2>1, StopperClaims DEF WorkerStop
  <2>2. CASE UNCHANGED <<stopping, cur, pc>>
    BY <1>4, <2>2, Stutters DEF WorkerStop, InTableAs, Holds
  <2> QED
    BY <1>4, <2>1, <2>2 DEF WorkerStop
<1>5. CASE ExitClaim
  <2>1. PICK D : D = {entry[k] : k \in {j \in Keys : Bridged(j)}}
    OBVIOUS
  <2>2. D \in SUBSET Attempts /\ \A c \in D : InTableAs(c)
    BY <2>1 DEF IInv, TypeOK, InTableAs
  <2>3. left' = D /\ UNCHANGED <<ctl, entry, cur>>
        /\ \A n \in Attempts \ D : ~InTableAs(n)
    BY <1>5, <2>1 DEF ExitClaim, InTableAs
  <2>4. left = {} /\ pc[Exit] = "idle" /\ \A t \in Threads : t # Exit => pc'[t] = pc[t]
    BY <1>5 DEF ExitClaim, IInv, TypeOK, BusyInv
  <2>5. \A n \in Attempts, u \in Threads : Holds(u, n) => Holds(u, n)'
    BY <2>3, <2>4 DEF Holds
  <2>6. \A c \in D : Holds(Exit, c)'
    BY <2>3 DEF Holds
  <2> QED
    BY <2>2, <2>3, <2>5, <2>6, Claims
<1>6. CASE TellSkipped
  BY <1>6, TeardownStutters
<1>7. CASE WorkerStep
  BY <1>4, <1>7, OtherStutters DEF WorkerStep
<1>8. CASE ExitLoop
  BY <1>6, <1>8, OtherStutters DEF ExitLoop
<1> QED
  BY <1>1, <1>2, <1>3, <1>5, <1>7, <1>8, OtherStutters DEF Next

\* The session table implements ControllerOwnership: whatever the paths' interleaving,
\* every controller has one owner at a time, and only the path that owns it takes it apart
\* (add_session, stop_session, release_local_sessions_on_exit).
THEOREM TableImplementsOwnership == Spec => ImplementsOwnership
<1>1. Init => OwnedInv /\ Ownership!Init
  BY DEF Init, OwnedInv, Alive, Ownership!Init, OwnerOf
<1>2. IInv /\ IInv' /\ OwnedInv /\ [Next]_vars
         => OwnedInv' /\ [Ownership!Next]_([n \in Attempts |-> OwnerOf(n)])
  BY Refines DEF Step, Owners
<1> QED
  BY <1>1, <1>2, Invariance, PTL DEF Spec, ImplementsOwnership, Ownership!Spec

-----------------------------------------------------------------------------
\* Who has claimed what: a stop_session() the entry it works on, the exit its batch,
\* every stopping entry one of them, and no two of them the same.
ClaimInv ==
    /\ \A t \in Stoppers :
           cur[t] # None => keyOf[cur[t]] \in stopping /\ entry[keyOf[cur[t]]] = cur[t]
    /\ \A n \in batch :
           /\ keyOf[n] \in stopping /\ entry[keyOf[n]] = n
           /\ \A t \in Stoppers : cur[t] # n
    /\ \A k \in stopping : (\E t \in Stoppers : cur[t] = entry[k]) \/ entry[k] \in batch
    /\ pc[Exit] \in {"idle", "wait"} => batch = {}

\* A step that leaves the claims alone.
LEMMA ClaimsKept ==
    ASSUME IInv, ClaimInv, UNCHANGED <<stopping, batch>>,
           \A k \in stopping : entry'[k] = entry[k],
           \A n \in 1 .. seq : keyOf'[n] = keyOf[n],
           \A t \in Stoppers : cur'[t] = cur[t],
           pc'[Exit] \in {"idle", "wait"} => pc[Exit] \in {"idle", "wait"}
    PROVE  ClaimInv'
<1>1. \A t \in Stoppers : cur[t] # None => cur[t] \in 1 .. seq
  BY DEF IInv, TypeOK, FreshInv
<1>2. \A n \in batch : n \in 1 .. seq
  BY DEF IInv, TypeOK, FreshInv, ClaimInv
<1>3. \A n \in 1 .. seq : keyOf[n] \in Keys
  BY DEF IInv, TypeOK, KeyInv
<1> QED
  BY <1>1, <1>2, <1>3 DEF ClaimInv

\* A stop_session() claims an entry nobody has.
LEMMA ClaimClaims ==
    ASSUME IInv, ClaimInv, NEW t \in Stoppers, NEW k \in Keys, pc[t] \in {"idle", "next"},
           Claim(t, k), UNCHANGED <<entry, keyOf, batch>>
    PROVE  ClaimInv'
<1>1. cur[t] = None /\ k \notin stopping /\ entry[k] # None /\ keyOf[entry[k]] = k
  BY DEF Claim, IInv, BusyInv, KeyInv, TypeOK
<1>2. /\ stopping' = stopping \cup {k} /\ cur'[t] = entry[k]
      /\ \A u \in Threads : u # t => cur'[u] = cur[u]
      /\ pc'[Exit] = pc[Exit]
  BY DEF Claim, IInv, TypeOK
<1>3. \A j \in stopping : entry[j] # None
  BY DEF IInv, KeyInv
<1> QED
  BY <1>1, <1>2, <1>3 DEF ClaimInv

\* What leaves the table is what the path that removes it had claimed.
LEMMA RemoveClaims ==
    ASSUME IInv, ClaimInv, NEW t \in Stoppers, Remove(t)
    PROVE  ClaimInv'
<1>1. PICK c : c = cur[t]
  OBVIOUS
<1>2. c \in Attempts /\ keyOf[c] \in stopping /\ entry[keyOf[c]] = c
  <2>1. pc[t] = "remove" /\ t \in Threads
    BY DEF Remove
  <2>2. cur[t] # None /\ cur[t] \in Attempts
    BY <2>1 DEF IInv, TypeOK, BusyInv
  <2> QED
    BY <1>1, <2>2 DEF ClaimInv
<1>3. /\ stopping' = stopping \ {keyOf[c]} /\ UNCHANGED <<keyOf, batch>>
      /\ \A k \in stopping' : entry'[k] = entry[k]
      /\ cur'[t] = None /\ \A u \in Threads : u # t => cur'[u] = cur[u]
      /\ pc'[Exit] = pc[Exit]
  <2>1. /\ stopping' = stopping \ {keyOf[c]} /\ UNCHANGED <<keyOf, batch>>
        /\ \A k \in stopping' : entry'[k] = entry[k]
    BY <1>1, <1>2 DEF Remove, RemoveStopped, IInv, TypeOK
  <2>2. cur'[t] = None /\ \A u \in Threads : u # t => cur'[u] = cur[u]
    BY DEF Remove, IInv, TypeOK
  <2>3. pc'[Exit] = pc[Exit]
    BY DEF Remove, IInv, TypeOK
  <2> QED
    BY <2>1, <2>2, <2>3
<1>4. \A u \in Stoppers : u # t => cur[u] # c
  BY <1>1, <1>2 DEF IInv, ExclusiveInv
<1>5. \A k \in stopping' : entry[k] # c
  BY <1>2, <1>3 DEF IInv, KeyInv, TypeOK
<1>6. \A u \in Stoppers : cur'[u] # None =>
          u # t /\ keyOf'[cur'[u]] \in stopping' /\ entry'[keyOf'[cur'[u]]] = cur'[u]
  BY <1>2, <1>3, <1>4 DEF ClaimInv
<1>7. \A n \in batch' :
          /\ keyOf'[n] \in stopping' /\ entry'[keyOf'[n]] = n
          /\ \A u \in Stoppers : cur'[u] # n
  <2>1. \A n \in batch : n # c /\ n # None /\ keyOf[n] \in stopping /\ entry[keyOf[n]] = n
    BY <1>1 DEF ClaimInv, IInv, TypeOK
  <2>2. \A n \in batch : keyOf[n] \in stopping'
    BY <1>2, <1>3, <2>1
  <2> QED
    BY <1>3, <2>1, <2>2 DEF ClaimInv
<1>8. \A k \in stopping' :
          (\E u \in Stoppers : cur'[u] = entry'[k]) \/ entry'[k] \in batch'
  BY <1>1, <1>3, <1>5 DEF ClaimInv
<1> QED
  BY <1>3, <1>6, <1>7, <1>8 DEF ClaimInv

\* The exit claims what nobody has, and removes what it claimed.
LEMMA ExitClaims == ASSUME IInv, ClaimInv, ExitClaim PROVE ClaimInv'
<1>1. /\ batch = {}
      /\ stopping' = stopping \cup {k \in Keys : Bridged(k)}
      /\ batch' = {entry[k] : k \in {j \in Keys : Bridged(j)}}
      /\ UNCHANGED <<entry, keyOf, cur>> /\ pc'[Exit] = "next"
  BY DEF ExitClaim, ClaimInv, IInv, TypeOK
<1>2. \A k \in Keys : Bridged(k) => keyOf[entry[k]] = k
  BY DEF IInv, KeyInv
<1>3. \A t \in Stoppers, k \in Keys : Bridged(k) => cur[t] # entry[k]
  BY DEF IInv, ExclusiveInv
<1> QED
  BY <1>1, <1>2, <1>3 DEF ClaimInv

\* What the exit removes is its batch, and nobody else's.
LEMMA ExitRemoves == ASSUME IInv, ClaimInv, ExitRemove PROVE ClaimInv'
<1>1. /\ stopping' = stopping \ {keyOf[n] : n \in batch}
      /\ batch' = {} /\ UNCHANGED <<keyOf, cur>>
      /\ \A k \in stopping' : entry'[k] = entry[k]
  BY DEF ExitRemove, RemoveStopped, ClaimInv, IInv, TypeOK, KeyInv
<1>2. \A t \in Stoppers : cur[t] # None => keyOf[cur[t]] \in stopping'
  <2> SUFFICES ASSUME NEW t \in Stoppers, cur[t] # None, NEW n \in batch
               PROVE  keyOf[n] # keyOf[cur[t]]
    BY <1>1 DEF ClaimInv
  <2> QED
    BY DEF ClaimInv
<1>3. \A k \in stopping' : entry[k] \notin batch
  <2>1. \A k \in stopping : keyOf[entry[k]] = k
    BY DEF IInv, KeyInv, TypeOK
  <2> QED
    BY <1>1, <2>1
<1> QED
  BY <1>1, <1>2, <1>3 DEF ClaimInv

\* Every other step leaves the claims alone.
LEMMA ClaimStep == IInv /\ ClaimInv /\ [Next]_vars => ClaimInv'
<1> SUFFICES ASSUME IInv, ClaimInv, [Next]_vars PROVE ClaimInv'
  OBVIOUS
<1>1. ASSUME NEW p \in Pluggers, Plug(p) PROVE ClaimInv'
  <2>1. p \in Threads /\ p \notin Stoppers /\ p # Exit
    BY <1>1
  <2>2. UNCHANGED <<stopping, batch>> /\ \A k \in stopping : entry'[k] = entry[k]
    BY <1>1 DEF Plug, PlugCall, PlugCheck, PlugStarted, PlugRefused, PlugUnsaid, PlugMake,
                AddNew, AddReplaces, AddRefused, DestroyReplaced, IInv, TypeOK, KeyInv
  <2>3. \A n \in 1 .. seq : keyOf'[n] = keyOf[n]
    BY <1>1 DEF Plug, PlugCall, PlugCheck, PlugStarted, PlugRefused, PlugUnsaid, PlugMake,
                AddNew, AddReplaces, AddRefused, DestroyReplaced, IInv, TypeOK
  <2>4. pc'[Exit] = pc[Exit] /\ \A t \in Stoppers : cur'[t] = cur[t]
    BY <1>1, <2>1 DEF Plug, PlugCall, PlugCheck, PlugStarted, PlugRefused, PlugUnsaid,
                PlugMake, AddNew, AddReplaces, AddRefused, DestroyReplaced, Return,
                IInv, TypeOK
  <2> QED
    BY <2>2, <2>3, <2>4, ClaimsKept
<1>2. ASSUME NEW t \in Threads, Teardown(t) \/ (t = Exit /\ TellSkipped) PROVE ClaimInv'
  <2>1. UNCHANGED <<table, keyOf, batch>>
    BY <1>2 DEF Teardown, PlugOut, Destroy, TellStop, TellLost, TellSkipped, Tell
  <2>2. \A u \in Stoppers : cur'[u] = cur[u]
    BY <1>2 DEF Teardown, PlugOut, Destroy, TellStop, TellLost, TellSkipped, Tell,
                IInv, TypeOK
  <2>3. pc'[Exit] \in {"idle", "wait"} => pc[Exit] \in {"idle", "wait"}
    BY <1>2 DEF Teardown, PlugOut, Destroy, TellStop, TellLost, TellSkipped, Tell, AfterTell,
                IInv, TypeOK
  <2> QED
    BY <2>1, <2>2, <2>3, ClaimsKept
<1>3. ASSUME NEW r \in Releasers, NEW k \in Keys, Release(r, k) PROVE ClaimInv'
  BY <1>3, ClaimClaims DEF Release
<1>4. ASSUME NEW k \in Keys, WorkerStop(k) PROVE ClaimInv'
  <2>1. CASE Claim(Worker, k)
    BY <1>4, <2>1, ClaimClaims DEF WorkerStop
  <2>2. CASE UNCHANGED <<stopping, cur, pc>>
    BY <1>4, <2>2, ClaimsKept DEF WorkerStop
  <2> QED
    BY <1>4, <2>1, <2>2 DEF WorkerStop
<1>5. CASE \/ \E n \in Attempts : Ask(n)
           \/ WorkerTake \/ WorkerScan \/ WorkerDone \/ UNCHANGED vars
  <2>1. UNCHANGED <<table, keyOf, batch, cur>> /\ pc'[Exit] = pc[Exit]
    BY <1>5 DEF Ask, WorkerTake, WorkerScan, WorkerDone, vars, IInv, TypeOK
  <2> QED
    BY <2>1, ClaimsKept
<1>6. CASE (\E n \in Attempts : ExitNext(n)) \/ ExitWoken \/ ExitTimesOut
  <2>1. UNCHANGED <<table, keyOf, batch>> /\ \A t \in Stoppers : cur'[t] = cur[t]
    BY <1>6 DEF ExitNext, ExitWoken, ExitTimesOut, IInv, TypeOK
  <2>2. pc'[Exit] \in {"idle", "wait"} => pc[Exit] \in {"idle", "wait"}
    BY <1>6 DEF ExitNext, ExitWoken, ExitTimesOut, IInv, TypeOK
  <2> QED
    BY <2>1, <2>2, ClaimsKept
<1>7. CASE WorkerStep
  BY <1>4, <1>5, <1>7 DEF WorkerStep
<1>8. CASE ExitLoop
  BY <1>2, <1>6, <1>8, ExitRemoves DEF ExitLoop
<1> QED
  BY <1>1, <1>2, <1>3, <1>5, <1>6, <1>7, <1>8, RemoveClaims, ExitClaims DEF Next

\* Each stopping entry is one path's and no other's: the set of its claimants has one
\* member (session_remove_stopped_locked, stop_session, release_local_sessions_on_exit).
THEOREM OneClaimant == Spec => []StoppingIsClaimed
<1>1. Init => ClaimInv
  BY DEF Init, ClaimInv
<1>2. IInv /\ ClaimInv => StoppingIsClaimed
  <2> SUFFICES ASSUME IInv, ClaimInv, NEW k \in stopping
               PROVE  InTable(k) /\ Cardinality(Claimants(entry[k])) = 1
    BY DEF StoppingIsClaimed
  <2>1. InTable(k)
    BY DEF IInv, KeyInv
  <2>2. \E x : Claimants(entry[k]) = {x}
    <3>1. CASE entry[k] \in batch
      <4>1. Claimants(entry[k]) = {Exit}
        BY <3>1 DEF Claimants, ClaimInv
      <4> QED
        BY <4>1
    <3>2. CASE entry[k] \notin batch
      <4>1. PICK t \in Stoppers : cur[t] = entry[k]
        BY <3>2 DEF ClaimInv
      <4>2. \A u \in Stoppers : cur[u] = entry[k] => u = t
        BY <2>1, <4>1 DEF IInv, ExclusiveInv
      <4>3. Claimants(entry[k]) = {t}
        BY <3>2, <4>1, <4>2 DEF Claimants
      <4> QED
        BY <4>3
    <3> QED
      BY <3>1, <3>2
  <2> QED
    BY <2>1, <2>2, FS_Singleton
<1> QED
  BY <1>1, <1>2, ClaimStep, Invariance, PTL DEF Spec

-----------------------------------------------------------------------------
(***************************************************************************)
(* The end of a stream.                                                    *)
(***************************************************************************)
\* What the exit has claimed it has not reached yet, is tearing down, or has torn down.
BatchInv ==
    /\ pc[Exit] = "tell" => ctl[cur[Exit]] = "gone"
    /\ \A n \in batch : n \in left \/ cur[Exit] = n \/ ctl[n] = "gone"

\* A controller that is gone stays so.
LEMMA GoneStays ==
    ASSUME IInv, [Next]_vars, NEW n \in Attempts, ctl[n] = "gone"
    PROVE  ctl'[n] = "gone"
<1>1. \A t \in Threads : ctl[cur[t]] \in {"none", "running", "out"} => cur[t] # n
  OBVIOUS
<1>2. ASSUME NEW p \in Pluggers, Plug(p) PROVE ctl'[n] = "gone"
  BY <1>1, <1>2 DEF Plug, PlugCall, PlugCheck, PlugStarted, PlugRefused, PlugUnsaid, PlugMake,
              AddNew, AddReplaces, AddRefused, DestroyReplaced, IInv, TypeOK, StageInv
<1>3. ASSUME NEW t \in Threads, Teardown(t) PROVE ctl'[n] = "gone"
  BY <1>1, <1>3 DEF Teardown, PlugOut, Destroy, TellStop, TellLost, Tell, IInv, TypeOK, StageInv
<1> QED
  BY <1>2, <1>3 DEF Next, vars, Release, Remove, Ask, WorkerStep, WorkerTake, WorkerScan,
              WorkerStop, WorkerDone, ExitClaim, ExitLoop, TellSkipped, Tell, ExitNext,
              ExitRemove, ExitWoken, ExitTimesOut

\* A step of another thread's leaves the exit's list and place alone.
LEMMA BatchKept ==
    ASSUME IInv, BatchInv, [Next]_vars, UNCHANGED <<batch, left>>,
           pc'[Exit] = pc[Exit], cur'[Exit] = cur[Exit]
    PROVE  BatchInv'
<1>1. /\ \A n \in batch : n \in Attempts
      /\ pc[Exit] = "tell" => cur[Exit] \in Attempts
  BY DEF IInv, TypeOK, BusyInv
<1> QED
  BY <1>1, GoneStays DEF BatchInv

\* A release's steps, a request and the worker's are not the exit's.
LEMMA OthersLeaveTheExit ==
    ASSUME IInv,
           \/ \E r \in Releasers, k \in Keys : Release(r, k)
           \/ \E t \in Stoppers : Remove(t)
           \/ \E n \in Attempts : Ask(n)
           \/ WorkerStep \/ UNCHANGED vars
    PROVE  UNCHANGED <<batch, left>> /\ pc'[Exit] = pc[Exit] /\ cur'[Exit] = cur[Exit]
<1>1. Exit \notin Stoppers /\ Worker # Exit
  BY ThreadsAssumption DEF Stoppers
<1>2. ASSUME NEW r \in Releasers, NEW k \in Keys, Release(r, k)
      PROVE  UNCHANGED <<batch, left>> /\ pc'[Exit] = pc[Exit] /\ cur'[Exit] = cur[Exit]
  <2>1. r # Exit
    BY <1>1 DEF Stoppers
  <2> QED
    BY <1>2, <2>1 DEF Release, Claim, Goto, exitVars, IInv, TypeOK
<1>3. ASSUME NEW t \in Stoppers, Remove(t)
      PROVE  UNCHANGED <<batch, left>> /\ pc'[Exit] = pc[Exit] /\ cur'[Exit] = cur[Exit]
  <2>1. t # Exit
    BY <1>1
  <2> QED
    BY <1>3, <2>1 DEF Remove, Goto, exitVars, IInv, TypeOK
<1>4. ASSUME NEW k \in Keys, WorkerStop(k)
      PROVE  UNCHANGED <<batch, left>> /\ pc'[Exit] = pc[Exit] /\ cur'[Exit] = cur[Exit]
  BY <1>1, <1>4 DEF WorkerStop, Claim, Goto, exitVars, IInv, TypeOK
<1>5. CASE \/ \E n \in Attempts : Ask(n)
           \/ WorkerTake \/ WorkerScan \/ WorkerDone \/ UNCHANGED vars
  BY <1>1, <1>5 DEF Ask, WorkerTake, WorkerScan, WorkerDone, Goto, exitVars, vars, IInv, TypeOK
<1> QED
  BY <1>2, <1>3, <1>4, <1>5 DEF WorkerStep

\* The exit reaches, one after another, everything it has claimed.
LEMMA BatchStep == IInv /\ BatchInv /\ [Next]_vars => BatchInv'
<1> SUFFICES ASSUME IInv, BatchInv, [Next]_vars PROVE BatchInv'
  OBVIOUS
<1>1. ASSUME NEW p \in Pluggers, Plug(p) PROVE BatchInv'
  <2>1. UNCHANGED <<batch, left>> /\ pc'[Exit] = pc[Exit] /\ cur'[Exit] = cur[Exit]
    BY <1>1 DEF Plug, PlugCall, PlugCheck, PlugStarted, PlugRefused, PlugUnsaid, PlugMake,
                AddNew, AddReplaces, AddRefused, DestroyReplaced, Return, IInv, TypeOK
  <2> QED
    BY <2>1, BatchKept
<1>2. ASSUME NEW t \in Threads \ {Exit}, Teardown(t) PROVE BatchInv'
  <2>1. UNCHANGED <<batch, left>> /\ pc'[Exit] = pc[Exit] /\ cur'[Exit] = cur[Exit]
    BY <1>2 DEF Teardown, PlugOut, Destroy, TellStop, TellLost, Tell, IInv, TypeOK
  <2> QED
    BY <2>1, BatchKept
<1>3. CASE Teardown(Exit) \/ TellSkipped
  <2>1. UNCHANGED <<batch, left>> /\ cur[Exit] \in Attempts
    BY <1>3 DEF Teardown, PlugOut, Destroy, TellStop, TellLost, TellSkipped, Tell,
                IInv, TypeOK, BusyInv
  <2>2. CASE PlugOut(Exit) \/ Destroy(Exit)
    <3>1. /\ cur'[Exit] = cur[Exit]
          /\ pc'[Exit] = "tell" => ctl'[cur[Exit]] = "gone"
      BY <2>1, <2>2 DEF PlugOut, Destroy, IInv, TypeOK
    <3>2. \A n \in batch : ctl[n] = "gone" => ctl'[n] = "gone"
      BY GoneStays DEF IInv, TypeOK
    <3> QED
      BY <2>1, <3>1, <3>2 DEF BatchInv
  <2>3. CASE TellStop(Exit) \/ TellLost(Exit) \/ TellSkipped
    <3>1. pc[Exit] = "tell" /\ pc'[Exit] = "next" /\ UNCHANGED ctl
      BY <2>3 DEF TellStop, TellLost, TellSkipped, Tell, AfterTell, IInv, TypeOK
    <3> QED
      BY <2>1, <3>1 DEF BatchInv
  <2> QED
    BY <1>3, <2>2, <2>3 DEF Teardown
<1>4. ASSUME \/ \E r \in Releasers, k \in Keys : Release(r, k)
             \/ \E t \in Stoppers : Remove(t)
             \/ \E n \in Attempts : Ask(n)
             \/ WorkerStep \/ UNCHANGED vars
      PROVE  BatchInv'
  <2>1. UNCHANGED <<batch, left>> /\ pc'[Exit] = pc[Exit] /\ cur'[Exit] = cur[Exit]
    BY <1>4, OthersLeaveTheExit
  <2> QED
    BY <2>1, BatchKept
<1>5. CASE ExitClaim
  BY <1>5 DEF ExitClaim, BatchInv, IInv, TypeOK
<1>6. ASSUME NEW n \in Attempts, ExitNext(n) PROVE BatchInv'
  <2>1. cur[Exit] = None /\ \A m \in batch : m # None
    BY <1>6 DEF ExitNext, IInv, TypeOK, BusyInv
  <2> QED
    BY <1>6, <2>1 DEF ExitNext, BatchInv, IInv, TypeOK
<1>7. CASE ExitRemove \/ ExitWoken \/ ExitTimesOut
  BY <1>7 DEF ExitRemove, ExitWoken, ExitTimesOut, BatchInv, IInv, TypeOK
<1> QED
  BY <1>1, <1>2, <1>3, <1>4, <1>5, <1>6, <1>7 DEF Next, ExitLoop

\* The exit returns by no step but its own last ones.
LEMMA OnlyTheExitReturns ==
    ASSUME IInv, Next, pc[Exit] # "idle", pc'[Exit] = "idle"
    PROVE  ExitRemove \/ ExitWoken \/ ExitTimesOut
<1>1. ASSUME NEW p \in Pluggers, Plug(p) PROVE pc'[Exit] = pc[Exit]
  BY <1>1 DEF Plug, PlugCall, PlugCheck, PlugStarted, PlugRefused, PlugUnsaid, PlugMake,
              AddNew, AddReplaces, AddRefused, DestroyReplaced, Return, IInv, TypeOK
<1>2. ASSUME NEW t \in Threads, Teardown(t) PROVE pc'[Exit] # "idle"
  BY <1>2 DEF Teardown, PlugOut, Destroy, TellStop, TellLost, Tell, AfterTell, IInv, TypeOK
<1>3. ASSUME \/ \E r \in Releasers, k \in Keys : Release(r, k)
             \/ \E t \in Stoppers : Remove(t)
             \/ \E n \in Attempts : Ask(n)
             \/ WorkerStep
      PROVE  pc'[Exit] = pc[Exit]
  BY <1>3, OthersLeaveTheExit
<1>5. ASSUME ExitClaim \/ TellSkipped \/ \E n \in Attempts : ExitNext(n)
      PROVE  pc'[Exit] # "idle"
  BY <1>5 DEF ExitClaim, TellSkipped, Tell, AfterTell, ExitNext, IInv, TypeOK
<1> QED
  BY <1>1, <1>2, <1>3, <1>5 DEF Next, ExitLoop

\* The end of a stream "still returns with every release played": unless its wait timed out,
\* release_local_sessions_on_exit() returns with no other path's release under way, and with
\* every controller that it claimed destroyed.
THEOREM ExitIsQuiet == Spec => ExitReturnsQuiet
<1>1. Init => ClaimInv /\ BatchInv
  BY DEF Init, ClaimInv, BatchInv
<1>2. ASSUME IInv, ClaimInv, BatchInv, Next, pc[Exit] # "idle", pc'[Exit] = "idle", stopping' = {}
      PROVE  (\A t \in Stoppers : ~Releasing(t)) /\ (\A n \in batch : ctl[n] = "gone")
  <2>1. ExitRemove \/ ExitWoken \/ ExitTimesOut
    BY <1>2, OnlyTheExitReturns
  <2>2. \A t \in Stoppers : Releasing(t) => cur[t] # None
    BY <1>2 DEF Releasing, IInv, BusyInv
  <2>3. CASE ExitRemove
    <3>1. left = {} /\ cur[Exit] = None /\ \A n \in batch : n # None
      BY <1>2, <2>3 DEF ExitRemove, IInv, TypeOK, BusyInv
    <3>2. stopping \subseteq {keyOf[n] : n \in batch}
      BY <1>2, <2>3 DEF ExitRemove, RemoveStopped
    <3>3. \A t \in Stoppers : cur[t] = None
      BY <1>2, <3>2 DEF ClaimInv
    <3> QED
      BY <1>2, <2>2, <3>1, <3>3 DEF BatchInv
  <2>4. CASE ExitWoken
    BY <1>2, <2>2, <2>4 DEF ExitWoken, ClaimInv
  <2>5. CASE ExitTimesOut
    BY <1>2, <2>5 DEF ExitTimesOut
  <2> QED
    BY <2>1, <2>3, <2>4, <2>5
<1>3. IInv /\ ClaimInv /\ BatchInv /\ [Next]_vars
        => [ pc[Exit] # "idle" /\ pc'[Exit] = "idle" /\ stopping' = {}
               => /\ \A t \in Stoppers : ~Releasing(t)
                  /\ \A n \in batch : ctl[n] = "gone" ]_vars
  BY <1>2
<1> QED
  BY <1>1, <1>3, ClaimStep, BatchStep, Invariance, PTL DEF Spec, ExitReturnsQuiet
-----------------------------------------------------------------------------
(***************************************************************************)
(* No session is left on the PC.  The app plugs one device at a time, under*)
(* a lock of its own: OnePlugger.  Without it a session that add_session() *)
(* replaces is never stopped.                                              *)
(***************************************************************************)
OnePlugger == \A p, q \in Pluggers : p = q

\* A key that plug_key_is_set() found free stays free until its plug records
\* it, so add_session() never replaces an entry.
SerialInv ==
    \A p \in Pluggers :
        /\ pc[p] \in {"start", "make", "add"} => ~InTable(keyOf[cur[p]])
        /\ pc[p] \notin {"dropOut", "dropFree"}

\* Where a thread is that has a BRIDGE_STOP ahead of it for what it works on.
Stops == {"make", "add", "out", "free", "tell"}

\* A plugger's step records only under a free key, and nobody else records.
LEMMA SerialStep == OnePlugger /\ IInv /\ SerialInv /\ [Next]_vars => SerialInv'
<1> SUFFICES ASSUME OnePlugger, IInv, SerialInv, [Next]_vars PROVE SerialInv'
  OBVIOUS
<1>1. ASSUME NEW p \in Pluggers, Plug(p) PROVE SerialInv'
  <2>1. \A q \in Pluggers : q = p
    BY DEF OnePlugger
  <2>2. /\ pc'[p] \in {"start", "make", "add"} => ~InTable(keyOf[cur[p]])'
        /\ pc'[p] \notin {"dropOut", "dropFree"}
    BY <1>1 DEF Plug, PlugCall, PlugCheck, PlugStarted, PlugRefused, PlugUnsaid, PlugMake,
                AddNew, AddReplaces, AddRefused, DestroyReplaced, Return, SerialInv,
                IInv, TypeOK
  <2> QED
    BY <2>1, <2>2 DEF SerialInv
<1>2. ASSUME UNCHANGED keyOf,
             \A k \in Keys : entry'[k] # None => entry'[k] = entry[k],
             \A p \in Pluggers : \/ pc'[p] = pc[p] /\ cur'[p] = cur[p]
                                 \/ pc'[p] \in {"free", "tell", "idle"}
      PROVE  SerialInv'
  <2> SUFFICES ASSUME NEW p \in Pluggers, pc'[p] = pc[p], cur'[p] = cur[p],
                      pc[p] \in {"start", "make", "add"}
               PROVE  ~InTable(keyOf[cur[p]])'
    BY <1>2 DEF SerialInv
  <2>1. keyOf[cur[p]] \in Keys /\ ~InTable(keyOf[cur[p]])
    BY DEF SerialInv, IInv, TypeOK, FreshInv, KeyInv, BusyInv
  <2> QED
    BY <1>2, <2>1
<1>3. ASSUME \/ \E t \in Threads : Teardown(t)
             \/ ExitClaim \/ ExitLoop \/ ExitTimesOut
      PROVE  SerialInv'
  <2>1. UNCHANGED keyOf /\ \A k \in Keys : entry'[k] # None => entry'[k] = entry[k]
    BY <1>3 DEF Teardown, PlugOut, Destroy, TellStop, TellLost, Tell, ExitClaim, ExitLoop,
                TellSkipped, ExitNext, ExitRemove, RemoveStopped, ExitWoken, ExitTimesOut
  <2>2. \A p \in Pluggers : \/ pc'[p] = pc[p] /\ cur'[p] = cur[p]
                            \/ pc'[p] \in {"free", "tell", "idle"}
    BY <1>3 DEF Teardown, PlugOut, Destroy, TellStop, TellLost, Tell, AfterTell, ExitClaim,
                ExitLoop, TellSkipped, ExitNext, ExitRemove, ExitWoken, ExitTimesOut,
                SerialInv, IInv, TypeOK
  <2> QED
    BY <1>2, <2>1, <2>2
<1>4. ASSUME NEW t \in Stoppers, Remove(t) PROVE SerialInv'
  <2>1. UNCHANGED keyOf /\ \A k \in Keys : entry'[k] # None => entry'[k] = entry[k]
    BY <1>4 DEF Remove, RemoveStopped
  <2>2. \A p \in Pluggers : pc'[p] = pc[p] /\ cur'[p] = cur[p]
    BY <1>4 DEF Remove, IInv, TypeOK
  <2> QED
    BY <1>2, <2>1, <2>2
<1>5. ASSUME NEW r \in Releasers, NEW k \in Keys, Release(r, k) PROVE SerialInv'
  BY <1>5 DEF Release, Claim, SerialInv, IInv, TypeOK
<1>6. ASSUME \/ \E n \in Attempts : Ask(n)
             \/ WorkerStep \/ UNCHANGED vars
      PROVE  SerialInv'
  BY <1>6 DEF Ask, WorkerStep, WorkerTake, WorkerScan, WorkerStop, WorkerDone, Claim, vars,
              SerialInv, IInv, TypeOK
<1> QED
  BY <1>1, <1>3, <1>4, <1>5, <1>6 DEF Next

\* A plug's steps: what it starts it records, or tells the listener to stop.
LEMMA PlugStops ==
    ASSUME IInv, SerialInv, NoPhantomSession, NEW p \in Pluggers, Plug(p)
    PROVE  NoPhantomSession'
<1> SUFFICES ASSUME NEW n \in live' PROVE WillStop(n)' \/ n \in gaveUp'
  BY DEF NoPhantomSession
<1>1. /\ UNCHANGED <<left, gaveUp>>
      /\ n \in live \/ (n = cur[p] /\ (PlugStarted(p) \/ PlugUnsaid(p)))
  BY DEF Plug, PlugCall, PlugCheck, PlugStarted, PlugRefused, PlugUnsaid, PlugMake, AddNew,
         AddReplaces, AddRefused, DestroyReplaced
<1>2. ASSUME cur'[p] = n, pc'[p] \in Stops PROVE WillStop(n)'
  <2>1. p \in Threads
    OBVIOUS
  <2> QED
    BY <1>2, <2>1 DEF WillStop, Stops
<1>3. CASE n = cur[p] /\ (PlugStarted(p) \/ PlugUnsaid(p))
  BY <1>2, <1>3 DEF PlugStarted, PlugUnsaid, Stops, IInv, TypeOK
<1>4. ASSUME NEW k \in Keys, Bridged(k), entry[k] = n PROVE WillStop(n)'
  <2>1. Bridged(k)' /\ entry'[k] = n
    BY <1>4 DEF Plug, PlugCall, PlugCheck, PlugStarted, PlugRefused, PlugUnsaid, PlugMake,
                AddNew, AddReplaces, AddRefused, DestroyReplaced, SerialInv, IInv, TypeOK
  <2> QED
    BY <2>1 DEF WillStop
<1>5. ASSUME NEW t \in Threads, t # p, cur[t] = n, pc[t] \in Stops PROVE WillStop(n)'
  <2>1. cur'[t] = n /\ pc'[t] \in Stops
    BY <1>5 DEF Plug, PlugCall, PlugCheck, PlugStarted, PlugRefused, PlugUnsaid, PlugMake,
                AddNew, AddReplaces, AddRefused, DestroyReplaced, Return, IInv, TypeOK
  <2> QED
    BY <2>1 DEF WillStop, Stops
<1>6. ASSUME cur[p] = n, pc[p] \in Stops PROVE WillStop(n)'
  <2>1. CASE AddNew(p)
    <3>1. PICK k \in Keys : k = keyOf[n]
      BY <1>6, <2>1 DEF AddNew, IInv, TypeOK, FreshInv, KeyInv, BusyInv
    <3>2. /\ entry' = [entry EXCEPT ![k] = n] /\ ~InTable(k) /\ UNCHANGED stopping
          /\ n \in Attempts /\ n # None
      BY <1>6, <2>1, <3>1 DEF AddNew, IInv, TypeOK, BusyInv
    <3>3. Bridged(k)' /\ entry'[k] = n
      BY <3>2 DEF IInv, TypeOK, KeyInv
    <3> QED
      BY <3>3 DEF WillStop
  <2>2. CASE PlugMake(p) \/ AddRefused(p)
    BY <1>2, <1>6, <2>2 DEF PlugMake, AddRefused, Stops, IInv, TypeOK
  <2> QED
    BY <1>6, <2>1, <2>2 DEF Plug, PlugCall, PlugCheck, PlugStarted, PlugRefused, PlugUnsaid,
                            AddReplaces, DestroyReplaced, SerialInv, Stops
<1>7. CASE n \in left
  BY <1>1, <1>7 DEF WillStop
<1>8. n \in live => \/ \E k \in Keys : Bridged(k) /\ entry[k] = n
                    \/ \E t \in Threads : cur[t] = n /\ pc[t] \in Stops
                    \/ n \in left \/ n \in gaveUp
  BY DEF NoPhantomSession, WillStop, Stops
<1> QED
  BY <1>1, <1>3, <1>4, <1>5, <1>6, <1>7, <1>8

\* A teardown's steps: only the exchange that stops the session, or that fails
\* to reach the listener, ends it.
LEMMA TeardownStops ==
    ASSUME IInv, SerialInv, NoPhantomSession, NEW t \in Threads,
           Teardown(t) \/ (t = Exit /\ TellSkipped)
    PROVE  NoPhantomSession'
<1> SUFFICES ASSUME NEW n \in live', n \notin gaveUp' PROVE WillStop(n)'
  BY DEF NoPhantomSession
<1>1. /\ UNCHANGED <<table, left>> /\ n \in live /\ n \notin gaveUp
  BY DEF Teardown, PlugOut, Destroy, TellStop, TellLost, TellSkipped, Tell
<1>2. CASE (\E k \in Keys : Bridged(k) /\ entry[k] = n) \/ n \in left
  BY <1>1, <1>2 DEF WillStop
<1>3. ASSUME NEW u \in Threads, cur[u] = n, pc[u] \in Stops PROVE WillStop(n)'
  <2>1. cur'[u] = n /\ pc'[u] \in Stops
    <3>1. CASE u # t
      BY <1>3, <3>1 DEF Teardown, PlugOut, Destroy, TellStop, TellLost, TellSkipped, Tell,
                        IInv, TypeOK
    <3>2. CASE u = t /\ (PlugOut(t) \/ Destroy(t))
      BY <1>3, <3>2 DEF PlugOut, Destroy, Stops, IInv, TypeOK
    <3>3. CASE u = t /\ (TellStop(t) \/ TellLost(t) \/ (t = Exit /\ TellSkipped))
      BY <1>3, <3>3 DEF TellStop, TellLost, TellSkipped
    <3> QED
      BY <3>1, <3>2, <3>3 DEF Teardown
  <2> QED
    BY <2>1 DEF WillStop, Stops
<1> QED
  BY <1>1, <1>2, <1>3 DEF NoPhantomSession, WillStop, Stops

\* A claim hands a session from the table to the claimant.
LEMMA ClaimStops ==
    ASSUME IInv, NoPhantomSession, NEW t \in Stoppers, NEW k \in Keys, Claim(t, k),
           pc[t] \notin Stops, UNCHANGED <<entry, left, listener>>
    PROVE  NoPhantomSession'
<1> SUFFICES ASSUME NEW n \in live, n \notin gaveUp PROVE WillStop(n)'
  BY DEF NoPhantomSession
<1>1. CASE n = entry[k]
  <2>1. cur'[t] = n /\ pc'[t] = "out" /\ t \in Threads
    BY <1>1 DEF Claim, IInv, TypeOK
  <2> QED
    BY <2>1 DEF WillStop
<1>2. ASSUME NEW j \in Keys, n # entry[k], Bridged(j), entry[j] = n PROVE WillStop(n)'
  <2>1. Bridged(j)' /\ entry'[j] = n
    BY <1>2 DEF Claim
  <2> QED
    BY <2>1 DEF WillStop
<1>3. ASSUME NEW u \in Threads, cur[u] = n, pc[u] \in Stops PROVE WillStop(n)'
  <2>1. cur'[u] = n /\ pc'[u] = pc[u]
    BY <1>3 DEF Claim, IInv, TypeOK
  <2> QED
    BY <1>3, <2>1 DEF WillStop, Stops
<1>4. CASE n \in left
  BY <1>4 DEF WillStop
<1> QED
  BY <1>1, <1>2, <1>3, <1>4 DEF NoPhantomSession, WillStop, Stops

\* What is neither in the table, nor on the way out, nor on the exit's list
\* has nothing to lose.
LEMMA StopsKept ==
    ASSUME NoPhantomSession, UNCHANGED listener,
           \A k \in Keys : Bridged(k) => entry'[k] = entry[k] /\ k \notin stopping',
           \A t \in Threads : pc[t] \in Stops => pc'[t] = pc[t] /\ cur'[t] = cur[t],
           left \subseteq left'
    PROVE  NoPhantomSession'
<1> SUFFICES ASSUME NEW n \in live, n \notin gaveUp PROVE WillStop(n)'
  BY DEF NoPhantomSession
<1>1. \/ \E k \in Keys : Bridged(k) /\ entry[k] = n
      \/ \E t \in Threads : cur[t] = n /\ pc[t] \in Stops
      \/ n \in left
  BY DEF NoPhantomSession, WillStop, Stops
<1>2. ASSUME NEW k \in Keys, Bridged(k), entry[k] = n PROVE WillStop(n)'
  BY <1>2 DEF WillStop
<1>3. ASSUME NEW t \in Threads, cur[t] = n, pc[t] \in Stops PROVE WillStop(n)'
  BY <1>3 DEF WillStop, Stops
<1>4. CASE n \in left
  BY <1>4 DEF WillStop
<1> QED
  BY <1>1, <1>2, <1>3, <1>4

\* The exit's steps: what it claims is on its list until it works on it.
LEMMA ExitStops ==
    ASSUME IInv, NoPhantomSession,
           ExitClaim \/ (\E m \in Attempts : ExitNext(m))
    PROVE  NoPhantomSession'
<1> SUFFICES ASSUME NEW n \in live, n \notin gaveUp PROVE WillStop(n)'
  BY DEF NoPhantomSession, ExitClaim, ExitNext
<1>1. pc[Exit] \in {"idle", "next"} /\ Exit \in Threads
  BY DEF ExitClaim, ExitNext
<1>2. \/ \E k \in Keys : Bridged(k) /\ entry[k] = n
      \/ \E t \in Threads : t # Exit /\ cur[t] = n /\ pc[t] \in Stops
      \/ n \in left
  BY <1>1 DEF NoPhantomSession, WillStop, Stops
<1>3. ASSUME NEW t \in Threads, t # Exit, cur[t] = n, pc[t] \in Stops PROVE WillStop(n)'
  <2>1. cur'[t] = n /\ pc'[t] = pc[t]
    BY <1>3 DEF ExitClaim, ExitNext, IInv, TypeOK
  <2> QED
    BY <1>3, <2>1 DEF WillStop, Stops
<1>4. CASE ExitClaim
  <2>1. left = {}
    BY <1>4 DEF ExitClaim, IInv, BusyInv
  <2>2. ASSUME NEW k \in Keys, Bridged(k), entry[k] = n PROVE n \in left'
    BY <1>4, <2>2 DEF ExitClaim
  <2> QED
    BY <1>2, <1>3, <2>1, <2>2 DEF WillStop
<1>5. ASSUME NEW m \in Attempts, ExitNext(m) PROVE WillStop(n)'
  <2>1. CASE n = m
    <3>1. cur'[Exit] = n /\ pc'[Exit] = "out"
      BY <1>5, <2>1 DEF ExitNext, IInv, TypeOK
    <3> QED
      BY <1>1, <3>1 DEF WillStop
  <2>2. CASE n # m /\ n \in left
    BY <1>5, <2>2 DEF ExitNext, WillStop
  <2>3. CASE \E k \in Keys : Bridged(k) /\ entry[k] = n
    BY <1>5, <2>3 DEF ExitNext, WillStop
  <2> QED
    BY <1>2, <1>3, <2>1, <2>2, <2>3
<1> QED
  BY <1>4, <1>5

\* Every step keeps a session on the PC within some path's reach.
LEMMA StopStep == IInv /\ SerialInv /\ NoPhantomSession /\ [Next]_vars => NoPhantomSession'
<1> SUFFICES ASSUME IInv, SerialInv, NoPhantomSession, [Next]_vars PROVE NoPhantomSession'
  OBVIOUS
<1>1. ASSUME NEW r \in Releasers, NEW k \in Keys, Release(r, k) PROVE NoPhantomSession'
  BY <1>1, ClaimStops DEF Release, Stops
<1>2. ASSUME NEW t \in Stoppers, Remove(t) PROVE NoPhantomSession'
  <2>1. UNCHANGED listener /\ left \subseteq left'
    BY <1>2 DEF Remove
  <2>2. \A k \in Keys : Bridged(k) => entry'[k] = entry[k] /\ k \notin stopping'
    BY <1>2 DEF Remove, RemoveStopped
  <2>3. \A u \in Threads : pc[u] \in Stops => pc'[u] = pc[u] /\ cur'[u] = cur[u]
    BY <1>2 DEF Remove, Stops, IInv, TypeOK
  <2> QED
    BY <2>1, <2>2, <2>3, StopsKept
<1>3. ASSUME NEW k \in Keys, WorkerStop(k) PROVE NoPhantomSession'
  <2>1. CASE Claim(Worker, k)
    BY <1>3, <2>1, ClaimStops DEF WorkerStop, Stops
  <2>2. CASE UNCHANGED <<stopping, cur, pc>>
    BY <1>3, <2>2, StopsKept DEF WorkerStop
  <2> QED
    BY <1>3, <2>1, <2>2 DEF WorkerStop
<1>4. ASSUME \/ \E n \in Attempts : Ask(n)
             \/ WorkerTake \/ WorkerScan \/ WorkerDone \/ ExitWoken \/ ExitTimesOut
             \/ UNCHANGED vars
      PROVE  NoPhantomSession'
  <2>1. UNCHANGED <<table, left, cur, listener>>
    BY <1>4 DEF Ask, WorkerTake, WorkerScan, WorkerDone, ExitWoken, ExitTimesOut, vars
  <2>2. \A u \in Threads : pc[u] \in Stops => pc'[u] = pc[u]
    BY <1>4 DEF Ask, WorkerTake, WorkerScan, WorkerDone, ExitWoken, ExitTimesOut, vars,
                Stops, IInv, TypeOK
  <2> QED
    BY <2>1, <2>2, StopsKept
<1>5. CASE ExitRemove
  <2>1. UNCHANGED <<left, cur, listener>>
    BY <1>5 DEF ExitRemove
  <2>2. \A k \in Keys : Bridged(k) => entry'[k] = entry[k] /\ k \notin stopping'
    BY <1>5 DEF ExitRemove, RemoveStopped
  <2>3. \A u \in Threads : pc[u] \in Stops => pc'[u] = pc[u]
    BY <1>5 DEF ExitRemove, Stops, IInv, TypeOK
  <2> QED
    BY <2>1, <2>2, <2>3, StopsKept
<1> QED
  BY <1>1, <1>2, <1>3, <1>4, <1>5, PlugStops, TeardownStops, ExitStops
     DEF Next, WorkerStep, ExitLoop

\* No phantom pad (plug_in_scan_index, stop_session, release_local_sessions_on_exit): as
\* long as one device is plugged at a time, every session the PC's listener has is one that
\* some path will still stop, unless the listener could not be told.
THEOREM NoPhantoms == ASSUME OnePlugger PROVE Spec => []NoPhantomSession
<1>1. Init => SerialInv /\ NoPhantomSession
  BY DEF Init, SerialInv, NoPhantomSession
<1>2. IInv /\ SerialInv /\ [Next]_vars => SerialInv'
  BY SerialStep
<1> QED
  BY <1>1, <1>2, StopStep, Invariance, PTL DEF Spec
=============================================================================

----------------------- MODULE MemoryRuntime_proofs -----------------------
(***************************************************************************)
(* Proofs about MemoryRuntime, for every set of operations, callers, facts *)
(* and every size of the pool.                                             *)
(***************************************************************************)
EXTENDS MemoryRuntime, FiniteSetTheorems, TLAPS

-----------------------------------------------------------------------------
(* The inductive invariant.                                                *)

(* The instance is built under _lock by an operation that found none.      *)
BuiltOnce ==
    /\ built = IF ready THEN 1 ELSE 0
    /\ \A o \in Ops : pc[o] = "building" => ~ready

(* Who is inside has bound the extractor; only deletes leave it alone, and *)
(* they call no model.                                                     *)
BoundByHolder ==
    /\ \A o \in Ops : pc[o] \in Inside /\ Kind[o] # "delete" => bound = Caller[o]
    /\ \A o \in Ops : pc[o] = "calling" => Kind[o] # "delete"
    /\ BilledToCaller

(* A queued exchange is a task that drain knows, and the door is closed    *)
(* before drain looks.                                                     *)
TasksKnown ==
    /\ accepting => drain = "open"
    /\ drain = "drained" => background = {}
    /\ \A o \in Ops : Kind[o] = "record" /\ pc[o] = "queued" => o \in background
    /\ \A o \in Ops : pc[o] = "checking" => Kind[o] = "delete"

(* What the first section of a delete has read: the owner of a fact that   *)
(* is still there or has gone, for its id is never given out again.  Only  *)
(* the owner gets to the second section.                                   *)
OwnerRead ==
    \A o \in Ops : seen[o] # Nobody =>
        /\ Target[o] \in used
        /\ facts[Target[o]] \in {seen[o], Nobody}
        /\ pc[o] \in {"checking"} \cup Ended \/ seen[o] = Caller[o]

IInv == TypeOK /\ BuiltOnce /\ BoundByHolder /\ TasksKnown /\ OwnerRead

-----------------------------------------------------------------------------
LEMMA InitInductive == Init => IInv
<1> SUFFICES ASSUME Init PROVE IInv
  OBVIOUS
<1>1. 0 \in 0 .. MaxCalls
  BY MemoryAssumption
<1>2. TypeOK
  BY <1>1, MemoryAssumption DEF Init, TypeOK, Places, Inside, Running, Ended
<1>3. BuiltOnce /\ BoundByHolder /\ TasksKnown /\ OwnerRead
  BY DEF Init, BuiltOnce, BoundByHolder, BilledToCaller, TasksKnown,
         OwnerRead, Inside
<1> QED
  BY <1>2, <1>3 DEF IInv

LEMMA TypeStep ==
    ASSUME IInv, [Next]_vars
    PROVE  TypeOK'
<1> USE MemoryAssumption DEF IInv, TypeOK, Goto, End, Leave, store, tasks,
        Places, Inside, Running, Ended
<1>1. ASSUME NEW o \in Ops, Schedule(o) PROVE TypeOK'
  BY <1>1 DEF Schedule
<1>2. ASSUME NEW o \in Ops, Submit(o) PROVE TypeOK'
  BY <1>2 DEF Submit
<1>3. ASSUME NEW o \in Ops, CheckOwner(o) PROVE TypeOK'
  BY <1>3 DEF CheckOwner
<1>4. ASSUME NEW o \in Ops, Start(o) PROVE TypeOK'
  BY <1>4 DEF Start
<1>5. ASSUME NEW o \in Ops, Peek(o) PROVE TypeOK'
  BY <1>5 DEF Peek
<1>6. ASSUME NEW o \in Ops, LookAgain(o) PROVE TypeOK'
  BY <1>6 DEF LookAgain
<1>7. ASSUME NEW o \in Ops, Build(o) PROVE TypeOK'
  BY <1>7 DEF Build
<1>8. ASSUME NEW o \in Ops, BuildFails(o) PROVE TypeOK'
  BY <1>8 DEF BuildFails
<1>9. ASSUME NEW o \in Ops, Open(o) PROVE TypeOK'
  BY <1>9 DEF Open, Bind, Identities
<1>10. ASSUME NEW o \in Ops, Search(o) PROVE TypeOK'
  BY <1>10 DEF Search
<1>11. ASSUME NEW o \in Ops, Extract(o) PROVE TypeOK'
  BY <1>11 DEF Extract
<1>12. ASSUME NEW o \in Ops, Answer(o) PROVE TypeOK'
  BY <1>12 DEF Answer
<1>13. ASSUME NEW o \in Ops, Add(o) PROVE TypeOK'
  BY <1>13 DEF Add, Identities, Owned
<1>14. ASSUME NEW o \in Ops, Fail(o) PROVE TypeOK'
  BY <1>14 DEF Fail
<1>15. ASSUME NEW o \in Ops, Get(o) PROVE TypeOK'
  BY <1>15 DEF Get
<1>16. ASSUME NEW o \in Ops, Delete(o) PROVE TypeOK'
  BY <1>16 DEF Delete
<1>17. CASE BeginDrain
  BY <1>17 DEF BeginDrain
<1>18. CASE DrainDone
  BY <1>18 DEF DrainDone
<1>19. CASE DrainTimeout
  BY <1>19 DEF DrainTimeout
<1>20. CASE UNCHANGED vars
  BY <1>20 DEF vars
<1> QED
  BY <1>1, <1>2, <1>3, <1>4, <1>5, <1>6, <1>7, <1>8, <1>9, <1>10, <1>11,
     <1>12, <1>13, <1>14, <1>15, <1>16, <1>17, <1>18, <1>19, <1>20
     DEF Next, InThread

LEMMA BuiltStep ==
    ASSUME IInv, [Next]_vars
    PROVE  BuiltOnce'
<1> USE MemoryAssumption DEF IInv, TypeOK, Goto, End, Leave, store, tasks,
        Places, Inside, Running, Ended, BuiltOnce
<1>1. ASSUME NEW o \in Ops, Schedule(o) PROVE BuiltOnce'
  BY <1>1 DEF Schedule
<1>2. ASSUME NEW o \in Ops, Submit(o) PROVE BuiltOnce'
  BY <1>2 DEF Submit
<1>3. ASSUME NEW o \in Ops, CheckOwner(o) PROVE BuiltOnce'
  BY <1>3 DEF CheckOwner
<1>4. ASSUME NEW o \in Ops, Start(o) PROVE BuiltOnce'
  BY <1>4 DEF Start
<1>5. ASSUME NEW o \in Ops, Peek(o) PROVE BuiltOnce'
  BY <1>5 DEF Peek
<1>6. ASSUME NEW o \in Ops, LookAgain(o) PROVE BuiltOnce'
  BY <1>6 DEF LookAgain
<1>7. ASSUME NEW o \in Ops, Build(o) PROVE BuiltOnce'
  BY <1>7 DEF Build
<1>8. ASSUME NEW o \in Ops, BuildFails(o) PROVE BuiltOnce'
  BY <1>8 DEF BuildFails
<1>9. ASSUME NEW o \in Ops, Open(o) PROVE BuiltOnce'
  BY <1>9 DEF Open
<1>10. ASSUME NEW o \in Ops, Search(o) PROVE BuiltOnce'
  BY <1>10 DEF Search
<1>11. ASSUME NEW o \in Ops, Extract(o) PROVE BuiltOnce'
  BY <1>11 DEF Extract
<1>12. ASSUME NEW o \in Ops, Answer(o) PROVE BuiltOnce'
  BY <1>12 DEF Answer
<1>13. ASSUME NEW o \in Ops, Add(o) PROVE BuiltOnce'
  BY <1>13 DEF Add
<1>14. ASSUME NEW o \in Ops, Fail(o) PROVE BuiltOnce'
  BY <1>14 DEF Fail
<1>15. ASSUME NEW o \in Ops, Get(o) PROVE BuiltOnce'
  BY <1>15 DEF Get
<1>16. ASSUME NEW o \in Ops, Delete(o) PROVE BuiltOnce'
  BY <1>16 DEF Delete
<1>17. CASE BeginDrain
  BY <1>17 DEF BeginDrain
<1>18. CASE DrainDone
  BY <1>18 DEF DrainDone
<1>19. CASE DrainTimeout
  BY <1>19 DEF DrainTimeout
<1>20. CASE UNCHANGED vars
  BY <1>20 DEF vars
<1> QED
  BY <1>1, <1>2, <1>3, <1>4, <1>5, <1>6, <1>7, <1>8, <1>9, <1>10, <1>11,
     <1>12, <1>13, <1>14, <1>15, <1>16, <1>17, <1>18, <1>19, <1>20
     DEF Next, InThread

LEMMA BoundStep ==
    ASSUME IInv, [Next]_vars
    PROVE  BoundByHolder'
<1> USE MemoryAssumption DEF IInv, TypeOK, Goto, End, Leave, store, tasks,
        Places, Inside, Running, Ended, BoundByHolder, BilledToCaller
<1>1. ASSUME NEW o \in Ops, Schedule(o) PROVE BoundByHolder'
  BY <1>1 DEF Schedule
<1>2. ASSUME NEW o \in Ops, Submit(o) PROVE BoundByHolder'
  BY <1>2 DEF Submit
<1>3. ASSUME NEW o \in Ops, CheckOwner(o) PROVE BoundByHolder'
  BY <1>3 DEF CheckOwner
<1>4. ASSUME NEW o \in Ops, Start(o) PROVE BoundByHolder'
  BY <1>4 DEF Start
<1>5. ASSUME NEW o \in Ops, Peek(o) PROVE BoundByHolder'
  BY <1>5 DEF Peek
<1>6. ASSUME NEW o \in Ops, LookAgain(o) PROVE BoundByHolder'
  BY <1>6 DEF LookAgain
<1>7. ASSUME NEW o \in Ops, Build(o) PROVE BoundByHolder'
  BY <1>7 DEF Build
<1>8. ASSUME NEW o \in Ops, BuildFails(o) PROVE BoundByHolder'
  BY <1>8 DEF BuildFails
<1>9. ASSUME NEW o \in Ops, Open(o) PROVE BoundByHolder'
  BY <1>9 DEF Open, Bind
<1>10. ASSUME NEW o \in Ops, Search(o) PROVE BoundByHolder'
  BY <1>10 DEF Search
<1>11. ASSUME NEW o \in Ops, Extract(o) PROVE BoundByHolder'
  BY <1>11 DEF Extract
<1>12. ASSUME NEW o \in Ops, Answer(o) PROVE BoundByHolder'
  BY <1>12 DEF Answer
<1>13. ASSUME NEW o \in Ops, Add(o) PROVE BoundByHolder'
  BY <1>13 DEF Add
<1>14. ASSUME NEW o \in Ops, Fail(o) PROVE BoundByHolder'
  BY <1>14 DEF Fail
<1>15. ASSUME NEW o \in Ops, Get(o) PROVE BoundByHolder'
  BY <1>15 DEF Get
<1>16. ASSUME NEW o \in Ops, Delete(o) PROVE BoundByHolder'
  BY <1>16 DEF Delete
<1>17. CASE BeginDrain
  BY <1>17 DEF BeginDrain
<1>18. CASE DrainDone
  BY <1>18 DEF DrainDone
<1>19. CASE DrainTimeout
  BY <1>19 DEF DrainTimeout
<1>20. CASE UNCHANGED vars
  BY <1>20 DEF vars
<1> QED
  BY <1>1, <1>2, <1>3, <1>4, <1>5, <1>6, <1>7, <1>8, <1>9, <1>10, <1>11,
     <1>12, <1>13, <1>14, <1>15, <1>16, <1>17, <1>18, <1>19, <1>20
     DEF Next, InThread

LEMMA TasksStep ==
    ASSUME IInv, [Next]_vars
    PROVE  TasksKnown'
<1> USE MemoryAssumption DEF IInv, TypeOK, Goto, End, Leave, store, tasks,
        Places, Inside, Running, Ended, TasksKnown
<1>1. ASSUME NEW o \in Ops, Schedule(o) PROVE TasksKnown'
  BY <1>1 DEF Schedule
<1>2. ASSUME NEW o \in Ops, Submit(o) PROVE TasksKnown'
  BY <1>2 DEF Submit
<1>3. ASSUME NEW o \in Ops, CheckOwner(o) PROVE TasksKnown'
  BY <1>3 DEF CheckOwner
<1>4. ASSUME NEW o \in Ops, Start(o) PROVE TasksKnown'
  BY <1>4 DEF Start
<1>5. ASSUME NEW o \in Ops, Peek(o) PROVE TasksKnown'
  BY <1>5 DEF Peek
<1>6. ASSUME NEW o \in Ops, LookAgain(o) PROVE TasksKnown'
  BY <1>6 DEF LookAgain
<1>7. ASSUME NEW o \in Ops, Build(o) PROVE TasksKnown'
  BY <1>7 DEF Build
<1>8. ASSUME NEW o \in Ops, BuildFails(o) PROVE TasksKnown'
  BY <1>8 DEF BuildFails
<1>9. ASSUME NEW o \in Ops, Open(o) PROVE TasksKnown'
  BY <1>9 DEF Open
<1>10. ASSUME NEW o \in Ops, Search(o) PROVE TasksKnown'
  BY <1>10 DEF Search
<1>11. ASSUME NEW o \in Ops, Extract(o) PROVE TasksKnown'
  BY <1>11 DEF Extract
<1>12. ASSUME NEW o \in Ops, Answer(o) PROVE TasksKnown'
  BY <1>12 DEF Answer
<1>13. ASSUME NEW o \in Ops, Add(o) PROVE TasksKnown'
  BY <1>13 DEF Add
<1>14. ASSUME NEW o \in Ops, Fail(o) PROVE TasksKnown'
  BY <1>14 DEF Fail
<1>15. ASSUME NEW o \in Ops, Get(o) PROVE TasksKnown'
  BY <1>15 DEF Get
<1>16. ASSUME NEW o \in Ops, Delete(o) PROVE TasksKnown'
  BY <1>16 DEF Delete
<1>17. CASE BeginDrain
  BY <1>17 DEF BeginDrain
<1>18. CASE DrainDone
  BY <1>18 DEF DrainDone
<1>19. CASE DrainTimeout
  BY <1>19 DEF DrainTimeout
<1>20. CASE UNCHANGED vars
  BY <1>20 DEF vars
<1> QED
  BY <1>1, <1>2, <1>3, <1>4, <1>5, <1>6, <1>7, <1>8, <1>9, <1>10, <1>11,
     <1>12, <1>13, <1>14, <1>15, <1>16, <1>17, <1>18, <1>19, <1>20
     DEF Next, InThread

LEMMA OwnerStep ==
    ASSUME IInv, [Next]_vars
    PROVE  OwnerRead'
<1> USE MemoryAssumption DEF IInv, TypeOK, Goto, End, Leave, store, tasks,
        Places, Inside, Running, Ended, OwnerRead
<1>1. ASSUME NEW o \in Ops, Schedule(o) PROVE OwnerRead'
  BY <1>1 DEF Schedule
<1>2. ASSUME NEW o \in Ops, Submit(o) PROVE OwnerRead'
  BY <1>2 DEF Submit
<1>3. ASSUME NEW o \in Ops, CheckOwner(o) PROVE OwnerRead'
  BY <1>3 DEF CheckOwner
<1>4. ASSUME NEW o \in Ops, Start(o) PROVE OwnerRead'
  BY <1>4 DEF Start
<1>5. ASSUME NEW o \in Ops, Peek(o) PROVE OwnerRead'
  BY <1>5 DEF Peek
<1>6. ASSUME NEW o \in Ops, LookAgain(o) PROVE OwnerRead'
  BY <1>6 DEF LookAgain
<1>7. ASSUME NEW o \in Ops, Build(o) PROVE OwnerRead'
  BY <1>7 DEF Build
<1>8. ASSUME NEW o \in Ops, BuildFails(o) PROVE OwnerRead'
  BY <1>8 DEF BuildFails
<1>9. ASSUME NEW o \in Ops, Open(o) PROVE OwnerRead'
  BY <1>9 DEF Open
<1>10. ASSUME NEW o \in Ops, Search(o) PROVE OwnerRead'
  BY <1>10 DEF Search
<1>11. ASSUME NEW o \in Ops, Extract(o) PROVE OwnerRead'
  BY <1>11 DEF Extract
<1>12. ASSUME NEW o \in Ops, Answer(o) PROVE OwnerRead'
  BY <1>12 DEF Answer
<1>13. ASSUME NEW o \in Ops, Add(o) PROVE OwnerRead'
  BY <1>13 DEF Add, Owned
<1>14. ASSUME NEW o \in Ops, Fail(o) PROVE OwnerRead'
  BY <1>14 DEF Fail
<1>15. ASSUME NEW o \in Ops, Get(o) PROVE OwnerRead'
  BY <1>15 DEF Get
<1>16. ASSUME NEW o \in Ops, Delete(o) PROVE OwnerRead'
  BY <1>16 DEF Delete
<1>17. CASE BeginDrain
  BY <1>17 DEF BeginDrain
<1>18. CASE DrainDone
  BY <1>18 DEF DrainDone
<1>19. CASE DrainTimeout
  BY <1>19 DEF DrainTimeout
<1>20. CASE UNCHANGED vars
  BY <1>20 DEF vars
<1> QED
  BY <1>1, <1>2, <1>3, <1>4, <1>5, <1>6, <1>7, <1>8, <1>9, <1>10, <1>11,
     <1>12, <1>13, <1>14, <1>15, <1>16, <1>17, <1>18, <1>19, <1>20
     DEF Next, InThread

(* The inductive invariant holds throughout, in every state of the runtime. *)
THEOREM Inductive == Spec => []IInv
<1>1. IInv /\ [Next]_vars => IInv'
  <2> SUFFICES ASSUME IInv, [Next]_vars PROVE IInv'
    OBVIOUS
  <2> QED
    BY TypeStep, BuiltStep, BoundStep, TasksStep, OwnerStep DEF IInv
<1> QED
  BY InitInductive, <1>1, PTL DEF Spec

(* However many operations come first together, one of them builds the     *)
(* instance, and exactly the holder of a lock is in its section.           *)
THEOREM InstanceOnce == Spec => []OneInstance
<1>1. IInv => OneInstance
  BY DEF IInv, BuiltOnce, OneInstance
<1> QED
  BY Inductive, <1>1, PTL

(* A model call is billed to the caller of its operation, although the     *)
(* identity is read from the shared extractor when the answer arrives.     *)
THEOREM BillsRight == Spec => []BilledToCaller
<1>1. IInv => BilledToCaller
  BY DEF IInv, BoundByHolder
<1> QED
  BY Inductive, <1>1, PTL

(* After drain no background task is left, queued or to come.              *)
THEOREM DrainIsFinal == Spec => []DrainedForGood
<1>1. IInv => DrainedForGood
  BY DEF IInv, TasksKnown, DrainedForGood
<1> QED
  BY Inductive, <1>1, PTL

(* A fact goes by an operation of its owner, although a delete checks the  *)
(* owner in one section of the lock and deletes in another.                *)
THEOREM RemovedByOwner == Spec => OnlyOwnerRemoves
<1>1. ASSUME IInv, [Next]_vars,
             NEW f \in Facts, facts[f] # Nobody, facts'[f] = Nobody
      PROVE  \E o \in Ops : /\ Caller[o] = facts[f]
                            /\ pc[o] = "inside" /\ pc'[o] = "done"
  <2> USE <1>1, MemoryAssumption DEF IInv, TypeOK, Goto, End, Leave, store
  <2>1. facts' # facts
    OBVIOUS
  <2>2. PICK o \in Ops : Add(o) \/ Delete(o)
    BY <2>1 DEF Next, InThread, vars, tasks, Schedule, Submit, CheckOwner, Start, Peek,
       LookAgain, Build, BuildFails, Open, Search, Extract, Answer, Fail, Get,
       BeginDrain, DrainDone, DrainTimeout
  <2>3. CASE Add(o)
    BY <2>3 DEF Add, Owned, Identities
  <2>4. CASE Delete(o)
    BY <2>4 DEF Delete, OwnerRead, Ended
  <2> QED
    BY <2>2, <2>3, <2>4
<1>2. IInv /\ [Next]_vars =>
        [\A f \in Facts : facts[f] # Nobody /\ facts'[f] = Nobody
            => \E o \in Ops : /\ Caller[o] = facts[f]
                              /\ pc[o] = "inside" /\ pc'[o] = "done"]_vars
  BY <1>1
<1> QED
  BY Inductive, <1>2, PTL DEF Spec, OnlyOwnerRemoves


-----------------------------------------------------------------------------
(* The deadlock that two locks and a bounded pool could make.              *)

LocksHeld == initLock \in Ops \cup {Nobody} /\ opsLock \in Ops \cup {Nobody}

(* An operation that a step of its own takes further, whatever the others  *)
(* do first: every place but idle and the ends is left by an action that   *)
(* asks for no more than this.                                             *)
CanGoOn(o) ==
    \/ pc[o] \in {"checking", "running", "building"} \cup Inside
    \/ pc[o] = "waiting" /\ initLock = Nobody
    \/ pc[o] = "opening" /\ opsLock = Nobody
    \/ pc[o] = "queued" /\ Cardinality({p \in Ops : pc[p] \in Running}) < Pool

\* p has what o waits for: a lock, or a thread of the pool.
HoldsUp(p, o) ==
    \/ pc[o] = "waiting" /\ initLock = p
    \/ pc[o] = "opening" /\ opsLock = p
    \/ pc[o] = "queued" /\ pc[p] \in Running

NobodyStuck ==
    \A o \in Ops : pc[o] \notin {"idle"} \cup Ended =>
        CanGoOn(o) \/ \E p \in Ops : HoldsUp(p, o) /\ CanGoOn(p)

LEMMA LocksStep == LocksHeld /\ [Next]_vars => LocksHeld'
<1> SUFFICES ASSUME LocksHeld, [Next]_vars PROVE LocksHeld'
  OBVIOUS
<1> USE DEF LocksHeld, Leave, End, Goto
<1>1. CASE UNCHANGED vars
  BY <1>1 DEF vars
<1>2. CASE BeginDrain \/ DrainDone \/ DrainTimeout
  BY <1>2 DEF BeginDrain, DrainDone, DrainTimeout
<1>3. ASSUME NEW o \in Ops, Schedule(o) \/ Submit(o) \/ CheckOwner(o) \/ InThread(o)
      PROVE  LocksHeld'
  <2>1. CASE Schedule(o) \/ Submit(o) \/ CheckOwner(o) \/ Start(o) \/ Peek(o)
    BY <2>1 DEF Schedule, Submit, CheckOwner, Start, Peek
  <2>2. CASE LookAgain(o) \/ Build(o) \/ BuildFails(o) \/ Open(o)
    BY <2>2 DEF LookAgain, Build, BuildFails, Open
  <2>3. CASE Search(o) \/ Extract(o) \/ Answer(o) \/ Add(o) \/ Fail(o) \/ Get(o) \/ Delete(o)
    BY <2>3 DEF Search, Extract, Answer, Add, Fail, Get, Delete
  <2> QED
    BY <1>3, <2>1, <2>2, <2>3 DEF InThread
<1> QED
  BY <1>1, <1>2, <1>3 DEF Next

(* However many operations there are and however small the pool: one that  *)
(* cannot go on waits for a lock or a thread of one that can, so that the  *)
(* locks are never waited for in a circle, in whatever order operations    *)
(* come and fail (_lock and _ops_lock of memory.py).                       *)
THEOREM NoCircularWait == Spec => []NobodyStuck
<1>1. Init => LocksHeld
  BY DEF Init, LocksHeld
<1>2. ASSUME IInv, LocksHeld PROVE NobodyStuck
  <2> SUFFICES ASSUME NEW o \in Ops, pc[o] \notin {"idle"} \cup Ended, ~CanGoOn(o)
               PROVE  \E p \in Ops : HoldsUp(p, o) /\ CanGoOn(p)
    BY DEF NobodyStuck
  <2> USE <1>2 DEF IInv, TypeOK
  <2>1. pc[o] \in {"waiting", "opening", "queued"}
    BY DEF Places, Running, Ended, CanGoOn
  \* The holder of a lock is in its section and waits for nothing.
  <2>2. ASSUME initLock # Nobody PROVE initLock \in Ops /\ pc[initLock] = "building"
    BY <2>2 DEF LocksHeld
  <2>3. ASSUME opsLock # Nobody PROVE opsLock \in Ops /\ pc[opsLock] \in Inside
    BY <2>3 DEF LocksHeld
  <2>4. CASE pc[o] = "waiting"
    <3>1. initLock # Nobody
      BY <2>4 DEF CanGoOn
    <3> QED
      BY <2>2, <2>4, <3>1 DEF CanGoOn, HoldsUp
  <2>5. CASE pc[o] = "opening"
    <3>1. opsLock # Nobody
      BY <2>5 DEF CanGoOn
    <3> QED
      BY <2>3, <2>5, <3>1 DEF CanGoOn, HoldsUp
  <2>6. CASE pc[o] = "queued"
    <3>1. PICK q \in Ops : pc[q] \in Running
      <4> SUFFICES ASSUME \A q \in Ops : pc[q] \notin Running PROVE FALSE
        OBVIOUS
      <4>1. {q \in Ops : pc[q] \in Running} = {}
        OBVIOUS
      <4>2. Cardinality({}) = 0
        BY FS_EmptySet, Zenon
      <4>3. 0 < Pool
        BY MemoryAssumption
      <4> HIDE DEF IInv, TypeOK
      <4>4. Cardinality({q \in Ops : pc[q] \in Running}) < Pool
        BY <4>1, <4>2, <4>3, Zenon
      <4> QED
        BY <2>6, <4>4 DEF CanGoOn
    <3>2. CASE CanGoOn(q)
      BY <2>6, <3>1, <3>2 DEF HoldsUp
    <3>3. CASE ~CanGoOn(q)
      <4>1. \/ pc[q] = "waiting" /\ initLock # Nobody
            \/ pc[q] = "opening" /\ opsLock # Nobody
        BY <3>1, <3>3 DEF Running, CanGoOn
      <4> QED
        BY <2>2, <2>3, <2>6, <4>1 DEF HoldsUp, CanGoOn, Running, Inside
    <3> QED
      BY <3>2, <3>3
  <2> QED
    BY <2>1, <2>4, <2>5, <2>6
<1> QED
  BY Inductive, <1>1, <1>2, LocksStep, PTL DEF Spec
=============================================================================

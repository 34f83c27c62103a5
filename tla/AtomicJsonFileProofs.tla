------------------------ MODULE AtomicJsonFileProofs ------------------------
(***************************************************************************)
(* Safety of the locked update for every number of processes, updates and  *)
(* attempts. While no live holder has lost its lock file, the process that *)
(* is inside is the one the lock file belongs to, so the document it read  *)
(* is the latest until it renames. Without crashes, failed pid writes and  *)
(* stalled holders no lock file ever looks stale, and none is stolen.      *)
(***************************************************************************)
EXTENDS AtomicJsonFile, TLAPS

HolderInside == \A p \in Procs : Inside(p) => lock = p

ReadIsLatest == \A p \in Procs : pc[p] = "write" => seen[p] = file

Stored == \A p \in Procs : acked[p] <= file[p] /\ (pc[p] = "release" => acked[p] < file[p])

IInv == TypeOK /\ (~stolen => HolderInside /\ ReadIsLatest /\ Stored)

LEMMA EmptyType == Empty \in Documents /\ Empty \in [Procs -> 0..MaxTries] /\ \A p \in Procs : Empty[p] = 0
BY FileAssumption DEF Empty, Documents

THEOREM InitInv == Init => IInv
<1> SUFFICES ASSUME Init PROVE IInv
  OBVIOUS
<1>1. TypeOK
  BY EmptyType DEF Init, TypeOK, Documents
<1>2. HolderInside /\ ReadIsLatest /\ Stored
  BY EmptyType DEF Init, HolderInside, ReadIsLatest, Stored, Inside
<1> QED BY <1>1, <1>2 DEF IInv

\* A step of p outside the operation that leaves the document alone, and keeps
\* the lock file of whoever is inside, keeps the three facts.
LEMMA OutsideStep ==
  ASSUME IInv, NEW p \in Procs, TypeOK', stolen' = stolen, file' = file, acked' = acked,
         \A q \in Procs \ {p} : pc'[q] = pc[q] /\ seen'[q] = seen[q],
         ~Inside(p)', lock' = lock
  PROVE  IInv'
BY DEF IInv, TypeOK, HolderInside, ReadIsLatest, Stored, Inside

LEMMA UnlinkStep ==
  ASSUME IInv, NEW p \in Procs, Unlink(p), TypeOK', file' = file, seen' = seen,
         \A q \in Procs \ {p} : pc'[q] = pc[q] /\ acked'[q] = acked[q],
         ~Inside(p)', ~stolen' => acked'[p] <= file[p]
  PROVE  IInv'
<1> SUFFICES ASSUME ~stolen' PROVE HolderInside' /\ ReadIsLatest' /\ Stored'
  BY DEF IInv
<1>1. ~stolen /\ \A q \in Procs \ {p} : lock = q => ~Inside(q)
  BY DEF Unlink
<1>2. \A q \in Procs : ~Inside(q)'
  BY <1>1 DEF IInv, HolderInside, Inside
<1>3. HolderInside' /\ ReadIsLatest'
  BY <1>2 DEF HolderInside, ReadIsLatest, Inside
<1>4. Stored'
  BY <1>1, <1>2 DEF IInv, Stored, Inside
<1> QED BY <1>3, <1>4

LEMMA NextInv == IInv /\ [Next]_fileVars => IInv'
<1> SUFFICES ASSUME IInv, [Next]_fileVars PROVE IInv'
  OBVIOUS
<1> USE DEF Goto
<1>1. ASSUME NEW p \in Procs, Begin(p) PROVE IInv'
  <2>1. 0 \in 0..MaxTries /\ calls[p] + 1 \in Nat
    BY FileAssumption DEF IInv, TypeOK
  <2>2. TypeOK'
    BY <1>1, <2>1 DEF Begin, IInv, TypeOK, lockVars
  <2> QED BY <1>1, <2>2, OutsideStep DEF Begin, lockVars, IInv, TypeOK, Inside
<1>2. ASSUME NEW p \in Procs, CreateLock(p) PROVE IInv'
  <2>1. TypeOK'
    <3>1. 0 \in 0..MaxTries
      BY FileAssumption
    <3> QED BY <1>2, <3>1 DEF CreateLock, IInv, TypeOK
  <2> SUFFICES ASSUME ~stolen PROVE HolderInside' /\ ReadIsLatest' /\ Stored'
    BY <1>2, <2>1 DEF CreateLock, IInv
  <2>2. \A q \in Procs : ~Inside(q)
    BY <1>2, FileAssumption DEF CreateLock, MayCreate, IInv, HolderInside
  <2> QED BY <1>2, <2>2 DEF CreateLock, IInv, TypeOK, HolderInside, ReadIsLatest, Stored, Inside
<1>3. ASSUME NEW p \in Procs, LeakLock(p) PROVE IInv'
  <2>1. TypeOK'
    BY <1>3 DEF LeakLock, IInv, TypeOK
  <2> SUFFICES ASSUME ~stolen PROVE HolderInside' /\ ReadIsLatest' /\ Stored'
    BY <1>3, <2>1 DEF LeakLock, IInv
  <2>2. \A q \in Procs : ~Inside(q)
    BY <1>3, FileAssumption DEF LeakLock, MayCreate, IInv, HolderInside
  <2> QED BY <1>3, <2>2 DEF LeakLock, IInv, TypeOK, HolderInside, ReadIsLatest, Stored, Inside
<1>4. ASSUME NEW p \in Procs, FindLocked(p) \/ StatLock(p) \/ Retry(p) \/ GiveUp(p) PROVE IInv'
  <2>1. TypeOK'
    BY <1>4, FileAssumption DEF FindLocked, StatLock, Retry, BeforeDeadline, GiveUp, IInv, TypeOK, lockVars
  <2>2. ~Inside(p)' /\ stolen' = stolen /\ lock' = lock /\ file' = file /\ acked' = acked
    BY <1>4 DEF FindLocked, StatLock, Retry, GiveUp, IInv, TypeOK, lockVars, Inside
  <2>3. \A q \in Procs \ {p} : pc'[q] = pc[q] /\ seen'[q] = seen[q]
    BY <1>4 DEF FindLocked, StatLock, Retry, GiveUp, IInv, TypeOK
  <2> QED BY <2>1, <2>2, <2>3, OutsideStep
<1>5. ASSUME NEW p \in Procs, UnlinkStale(p) PROVE IInv'
  <2>1. TypeOK'
    BY <1>5 DEF UnlinkStale, Unlink, IInv, TypeOK
  <2>2. ~stolen' => acked'[p] <= file[p]
    BY <1>5 DEF UnlinkStale, Unlink, IInv, Stored
  <2> QED BY <1>5, <2>1, <2>2, UnlinkStep DEF UnlinkStale, IInv, TypeOK, Inside
<1>6. ASSUME NEW p \in Procs, Read(p) PROVE IInv'
  <2>1. TypeOK'
    BY <1>6 DEF Read, Latest, IInv, TypeOK, lockVars
  <2> QED BY <1>6, <2>1 DEF Read, Latest, IInv, TypeOK, lockVars, HolderInside, ReadIsLatest, Stored, Inside
<1>7. ASSUME NEW p \in Procs, Write(p) PROVE IInv'
  <2>1. /\ seen[p] \in [Procs -> Nat] /\ file' = [seen[p] EXCEPT ![p] = @ + 1]
        /\ file'[p] = seen[p][p] + 1 /\ \A q \in Procs \ {p} : file'[q] = seen[p][q]
    BY <1>7 DEF Write, Mutated, IInv, TypeOK, Documents
  <2>2. TypeOK'
    BY <1>7, <2>1 DEF Write, IInv, TypeOK, lockVars, Documents
  <2> SUFFICES ASSUME ~stolen PROVE HolderInside' /\ ReadIsLatest' /\ Stored'
    BY <1>7, <2>2 DEF Write, lockVars, IInv
  <2>3. seen[p] = file /\ lock = p
    BY <1>7 DEF Write, IInv, ReadIsLatest, HolderInside, Inside
  <2>4. \A q \in Procs \ {p} : ~Inside(q)
    BY <2>3 DEF IInv, HolderInside
  <2>5. HolderInside' /\ ReadIsLatest'
    BY <1>7, <2>3, <2>4 DEF Write, lockVars, IInv, TypeOK, HolderInside, ReadIsLatest, Inside
  <2>6. \A q \in Procs : file'[q] \in Nat /\ file[q] \in Nat /\ acked[q] \in Nat /\ acked[q] <= file[q]
    BY <2>2 DEF IInv, TypeOK, Stored, Documents
  <2>7. Stored'
    BY <1>7, <2>1, <2>3, <2>4, <2>6 DEF Write, Stored, IInv, TypeOK, Inside
  <2> QED BY <2>5, <2>7
<1>8. ASSUME NEW p \in Procs, OperationThrows(p) PROVE IInv'
  <2>1. TypeOK'
    BY <1>8 DEF OperationThrows, IInv, TypeOK, lockVars
  <2> QED BY <1>8, <2>1 DEF OperationThrows, IInv, TypeOK, lockVars, HolderInside, ReadIsLatest,
                            Stored, Inside
<1>9. ASSUME NEW p \in Procs, ReleaseLock(p) PROVE IInv'
  <2>1. TypeOK'
    <3>1. acked' \in [Procs -> Nat]
      BY <1>9 DEF ReleaseLock, IInv, TypeOK
    <3>2. stolen' \in BOOLEAN /\ lock' \in Procs \cup {Nobody} /\ old' \in BOOLEAN
      BY <1>9 DEF ReleaseLock, Unlink, IInv, TypeOK
    <3> QED BY <1>9, <3>1, <3>2 DEF ReleaseLock, IInv, TypeOK
  <2>2. ~stolen' => acked'[p] <= file[p]
    BY <1>9 DEF ReleaseLock, Unlink, IInv, TypeOK, Stored, Documents
  <2>3. (\A q \in Procs \ {p} : pc'[q] = pc[q] /\ acked'[q] = acked[q]) /\ ~Inside(p)'
    BY <1>9 DEF ReleaseLock, IInv, TypeOK, Inside
  <2> QED BY <1>9, <2>1, <2>2, <2>3, UnlinkStep DEF ReleaseLock
<1>10. ASSUME NEW p \in Procs, Crash(p) \/ Restart(p) PROVE IInv'
  <2>1. TypeOK'
    BY <1>10, EmptyType DEF Crash, Restart, IInv, TypeOK, lockVars
  <2>2. /\ ~Inside(p)' /\ stolen' = stolen /\ lock' = lock /\ file' = file /\ acked' = acked
        /\ \A q \in Procs \ {p} : pc'[q] = pc[q] /\ seen'[q] = seen[q]
    BY <1>10 DEF Crash, Restart, IInv, TypeOK, lockVars, Inside
  <2> QED BY <2>1, <2>2, OutsideStep
<1>11. CASE LockAges
  BY <1>11 DEF LockAges, procVars, IInv, TypeOK, HolderInside, ReadIsLatest, Stored, Inside
<1>12. CASE UNCHANGED fileVars
  BY <1>12 DEF fileVars, procVars, lockVars, IInv, TypeOK, HolderInside, ReadIsLatest, Stored, Inside
<1> QED BY <1>1, <1>2, <1>3, <1>4, <1>5, <1>6, <1>7, <1>8, <1>9, <1>10, <1>11, <1>12 DEF Next, Step

LEMMA Invariance == Spec => []IInv
BY InitInv, NextInv, PTL DEF Spec

\* Every variable keeps its type, and no process makes more attempts than fit.
THEOREM TypeCorrect == Spec => []TypeOK
BY Invariance, PTL DEF IInv

\* At most one process is inside, until a live holder loses its lock file.
THEOREM MutualExclusion == Spec => []Exclusive
<1>1. IInv => Exclusive
  BY DEF IInv, HolderInside, Exclusive
<1> QED BY <1>1, Invariance, PTL

\* An update that returned is in the document, under the same proviso.
THEOREM AckedUpdatesStored == Spec => []AckedIsStored
<1>1. IInv => AckedIsStored
  BY DEF IInv, Stored, AckedIsStored
<1> QED BY <1>1, Invariance, PTL

\* No update is ever taken out of the document again, under the same proviso.
THEOREM UpdatesKept == Spec => FileOnlyGrows
<1>1. IInv /\ [Next]_fileVars => [~stolen => \A p \in Procs : file[p] <= file'[p]]_fileVars
  <2> SUFFICES ASSUME IInv, Next, ~stolen, NEW q \in Procs PROVE file[q] <= file'[q]
    OBVIOUS
  <2>1. ASSUME NEW p \in Procs, Write(p) PROVE file[q] <= file'[q]
    <3>1. seen[p] = file /\ file \in [Procs -> Nat]
      BY <2>1 DEF Write, IInv, TypeOK, ReadIsLatest, Documents
    <3> QED BY <2>1, <3>1 DEF Write, Mutated
  <2>2. CASE file' = file
    BY <2>2 DEF IInv, TypeOK, Documents
  <2>3. (\A p \in Procs : ~Write(p)) => file' = file
    BY DEF Next, Step, Begin, CreateLock, LeakLock, FindLocked, StatLock, UnlinkStale, Retry,
       GiveUp, Read, OperationThrows, ReleaseLock, Crash, Restart, LockAges
  <2> QED BY <2>1, <2>2, <2>3
<1> QED BY <1>1, Invariance, PTL DEF Spec, FileOnlyGrows

\* Only faults can make a lock file outlive its holder's stay inside.
OwnedAndFresh ==
  /\ ~stolen /\ ~old
  /\ lock # Nobody => Inside(lock)
  /\ \A p \in Procs : pc[p] \notin {"unlink", "crashed"}

\* Where nothing crashes, leaks or stalls, the proviso of the others holds, so
\* mutual exclusion and stored updates hold without it.
THEOREM FaultFreeIsSafe ==
  ASSUME Faults = {} PROVE Spec => [](NeverStolen /\ NoLostUpdate)
<1>1. Init => OwnedAndFresh
  BY FileAssumption DEF Init, OwnedAndFresh
<1>2. IInv /\ OwnedAndFresh /\ [Next]_fileVars => OwnedAndFresh'
  <2> SUFFICES ASSUME IInv, OwnedAndFresh, [Next]_fileVars PROVE OwnedAndFresh'
    OBVIOUS
  <2> USE DEF Goto
  <2>1. ASSUME NEW p \in Procs, CreateLock(p) PROVE OwnedAndFresh'
    BY <2>1 DEF CreateLock, OwnedAndFresh, IInv, TypeOK, Inside
  <2>2. ASSUME NEW p \in Procs,
               Begin(p) \/ FindLocked(p) \/ Retry(p) \/ GiveUp(p) \/ StatLock(p)
        PROVE  OwnedAndFresh'
    BY <2>2 DEF Begin, FindLocked, Retry, GiveUp, StatLock, LooksStale, lockVars, OwnedAndFresh,
       IInv, TypeOK, Inside
  <2>3. ASSUME NEW p \in Procs, Read(p) \/ Write(p) \/ OperationThrows(p) PROVE OwnedAndFresh'
    BY <2>3 DEF Read, Write, OperationThrows, lockVars, OwnedAndFresh, IInv, TypeOK, Inside
  <2>4. ASSUME NEW p \in Procs, ReleaseLock(p) PROVE OwnedAndFresh'
    <3>1. Inside(p) /\ lock = p
      BY <2>4 DEF ReleaseLock, Inside, OwnedAndFresh, IInv, HolderInside
    <3> QED BY <2>4, <3>1 DEF ReleaseLock, Unlink, OwnedAndFresh, IInv, TypeOK, Inside
  <2>5. ASSUME NEW p \in Procs, UnlinkStale(p) \/ LeakLock(p) \/ Crash(p) \/ Restart(p) PROVE FALSE
    BY <2>5 DEF UnlinkStale, LeakLock, Crash, Restart, OwnedAndFresh
  <2>6. CASE LockAges
    BY <2>6 DEF LockAges, OwnedAndFresh
  <2>7. CASE UNCHANGED fileVars
    BY <2>7 DEF fileVars, procVars, lockVars, OwnedAndFresh, Inside
  <2> QED BY <2>1, <2>2, <2>3, <2>4, <2>5, <2>6, <2>7 DEF Next, Step
<1>3. IInv /\ OwnedAndFresh => NeverStolen /\ NoLostUpdate
  BY DEF OwnedAndFresh, IInv, Stored, NeverStolen, NoLostUpdate
<1> QED BY <1>1, <1>2, <1>3, Invariance, PTL DEF Spec

(***************************************************************************)
(* The shared document                                                     *)
(***************************************************************************)
\* The state of the calls changes at the process that moves.
LEMMA CallMoves ==
  ASSUME TypeOK, NEW p \in Procs, NEW l, pc' = [pc EXCEPT ![p] = l]
  PROVE  /\ CallOf(p)' = CASE l \in {"idle", "crashed"} -> "none"
                           [] l = "release" -> "applied"
                           [] OTHER -> "pending"
         /\ [q \in Procs |-> CallOf(q)]' = [[q \in Procs |-> CallOf(q)] EXCEPT ![p] = CallOf(p)']
<1>1. pc'[p] = l /\ \A q \in Procs \ {p} : pc'[q] = pc[q]
  BY DEF TypeOK
<1>2. \A q \in Procs \ {p} : CallOf(q)' = CallOf(q)
  BY <1>1 DEF CallOf
<1> QED BY <1>1, <1>2 DEF CallOf

\* Its call becomes what the process's new place says.
LEMMA CallBecomes ==
  ASSUME TypeOK, NEW p \in Procs, NEW l, Goto(p, l), NEW from, CallOf(p) = from
  PROVE  /\ l \in {"idle", "crashed"} => Doc!Becomes(p, from, "none")
         /\ l = "release" => Doc!Becomes(p, from, "applied")
<1>1. [q \in Procs |-> CallOf(q)][p] = from
  OBVIOUS
<1>2. [q \in Procs |-> CallOf(q)]' = [[q \in Procs |-> CallOf(q)] EXCEPT ![p] = CallOf(p)']
  BY CallMoves DEF Goto
<1>3. /\ l \in {"idle", "crashed"} => CallOf(p)' = "none"
      /\ l = "release" => CallOf(p)' = "applied"
  BY CallMoves DEF Goto
<1> QED BY <1>1, <1>2, <1>3 DEF Doc!Becomes

\* A step that moves a process within one state of its call is none of the document's.
LEMMA StaysInCall ==
  ASSUME TypeOK, NEW p \in Procs, NEW l, Goto(p, l), UNCHANGED <<file, acked>>, CallOf(p)' = CallOf(p)
  PROVE  UNCHANGED Doc!documentVars
<1>1. [q \in Procs |-> CallOf(q)]' = [[q \in Procs |-> CallOf(q)] EXCEPT ![p] = CallOf(p)]
  BY CallMoves DEF Goto
<1>2. [q \in Procs |-> CallOf(q)]' = [q \in Procs |-> CallOf(q)]
  BY <1>1
<1> QED BY <1>2 DEF Doc!documentVars

(* An update under the lock (atomic-json-file.ts) is applied when the temporary  *)
(* file is renamed, and to the latest document, since what was read is what the  *)
(* file still holds; the other system calls change nothing a caller could see.   *)
LEMMA StepIsTheDocument ==
  ASSUME IInv, ~stolen, [Next]_fileVars
  PROVE  [Doc!Next]_(Doc!documentVars)
<1>1. TypeOK
  BY DEF IInv
<1>2. ASSUME NEW p \in Procs, Begin(p) PROVE Doc!Update(p)
  <2>1. pc' = [pc EXCEPT ![p] = "open"] /\ pc[p] = "idle" /\ UNCHANGED <<file, acked>>
    BY <1>2 DEF Begin, Goto, lockVars
  <2>2. CallOf(p) = "none" /\ CallOf(p)' = "pending"
    <3>1. pc'[p] = "open"
      BY <1>1, <2>1 DEF TypeOK
    <3> QED BY <2>1, <3>1 DEF CallOf
  <2>3. [q \in Procs |-> CallOf(q)]' = [[q \in Procs |-> CallOf(q)] EXCEPT ![p] = CallOf(p)']
    BY <1>1, <2>1, CallMoves
  <2> QED BY <2>1, <2>2, <2>3 DEF Doc!Update, Doc!Becomes
<1>3. ASSUME NEW p \in Procs, CreateLock(p) PROVE UNCHANGED Doc!documentVars
  <2>1. Goto(p, "read") /\ pc[p] = "open" /\ UNCHANGED <<file, acked>>
    BY <1>3 DEF CreateLock
  <2>2. CallOf(p)' = "pending" /\ CallOf(p) = "pending"
    BY <1>1, <2>1, CallMoves DEF Goto, CallOf
  <2> QED BY <1>1, <2>1, <2>2, StaysInCall
<1>4. ASSUME NEW p \in Procs, FindLocked(p) \/ StatLock(p) \/ UnlinkStale(p) \/ Retry(p)
      PROVE  UNCHANGED Doc!documentVars
  <2>1. PICK l \in {"stat", "unlink", "wait", "open"} : Goto(p, l)
    BY <1>4 DEF FindLocked, StatLock, UnlinkStale, Retry
  <2>2. pc[p] \in {"open", "stat", "unlink", "wait"} /\ UNCHANGED <<file, acked>>
    BY <1>4 DEF FindLocked, StatLock, UnlinkStale, Retry, lockVars
  <2>3. CallOf(p)' = "pending" /\ CallOf(p) = "pending"
    BY <1>1, <2>1, <2>2, CallMoves DEF Goto, CallOf
  <2> QED BY <1>1, <2>1, <2>2, <2>3, StaysInCall
<1>5. ASSUME NEW p \in Procs, LeakLock(p) \/ GiveUp(p) PROVE Doc!Throw(p)
  <2>1. Goto(p, "idle") /\ pc[p] \in {"open", "wait"} /\ UNCHANGED <<file, acked>>
    BY <1>5 DEF LeakLock, GiveUp, lockVars
  <2>2. CallOf(p) = "pending"
    BY <2>1 DEF CallOf
  <2> QED BY <1>1, <2>1, <2>2, CallBecomes DEF Doc!Throw
<1>6. ASSUME NEW p \in Procs, Read(p) \/ OperationThrows(p) PROVE UNCHANGED Doc!documentVars
  <2>1. PICK l \in {"write", "failing"} : Goto(p, l)
    BY <1>6 DEF Read, OperationThrows
  <2>2. pc[p] \in {"read", "write"} /\ UNCHANGED <<file, acked>>
    BY <1>6 DEF Read, OperationThrows, lockVars
  <2>3. CallOf(p)' = "pending" /\ CallOf(p) = "pending"
    BY <1>1, <2>1, <2>2, CallMoves DEF Goto, CallOf
  <2> QED BY <1>1, <2>1, <2>2, <2>3, StaysInCall
<1>7. ASSUME NEW p \in Procs, Write(p) PROVE Doc!Apply(p)
  <2>1. file' = [file EXCEPT ![p] = @ + 1]
    BY <1>7 DEF Write, Mutated, IInv, ReadIsLatest
  <2>2. Goto(p, "release") /\ pc[p] = "write" /\ acked' = acked
    BY <1>7 DEF Write
  <2>3. CallOf(p) = "pending"
    BY <2>2 DEF CallOf
  <2> QED BY <1>1, <2>1, <2>2, <2>3, CallBecomes DEF Doc!Apply
<1>8. ASSUME NEW p \in Procs, ReleaseLock(p) PROVE Doc!Return(p) \/ Doc!Throw(p)
  <2>1. Goto(p, "idle") /\ pc[p] \in {"release", "failing"} /\ file' = file
    BY <1>8 DEF ReleaseLock
  <2>2. CASE pc[p] = "release"
    <3>1. acked' = [acked EXCEPT ![p] = @ + 1]
      BY <1>8, <2>2 DEF ReleaseLock
    <3>2. CallOf(p) = "applied"
      BY <2>2 DEF CallOf
    <3> QED BY <1>1, <2>1, <3>1, <3>2, CallBecomes DEF Doc!Return
  <2>3. CASE pc[p] = "failing"
    <3>1. acked' = acked
      BY <1>8, <2>3 DEF ReleaseLock
    <3>2. CallOf(p) = "pending"
      BY <2>3 DEF CallOf
    <3> QED BY <1>1, <2>1, <3>1, <3>2, CallBecomes DEF Doc!Throw
  <2> QED BY <2>1, <2>2, <2>3
<1>9. ASSUME NEW p \in Procs, Crash(p) PROVE Doc!Throw(p) \/ Doc!Die(p)
  <2>1. Goto(p, "crashed") /\ pc[p] \notin {"idle", "crashed"} /\ UNCHANGED <<file, acked>>
    BY <1>9 DEF Crash, lockVars
  <2>2. CallOf(p) \in {"applied", "pending"}
    BY <2>1 DEF CallOf
  <2>3. CallOf(p) = "applied" => Doc!Die(p)
    BY <1>1, <2>1, CallBecomes DEF Doc!Die
  <2>4. CallOf(p) = "pending" => Doc!Throw(p)
    BY <1>1, <2>1, CallBecomes DEF Doc!Throw
  <2> QED BY <2>2, <2>3, <2>4
<1>10. ASSUME NEW p \in Procs, Restart(p) PROVE UNCHANGED Doc!documentVars
  <2>1. Goto(p, "idle") /\ pc[p] = "crashed" /\ UNCHANGED <<file, acked>>
    BY <1>10 DEF Restart, lockVars
  <2>2. CallOf(p)' = "none" /\ CallOf(p) = "none"
    BY <1>1, <2>1, CallMoves DEF Goto, CallOf
  <2> QED BY <1>1, <2>1, <2>2, StaysInCall
<1>11. CASE LockAges \/ UNCHANGED fileVars
  BY <1>11 DEF LockAges, fileVars, procVars, CallOf, Doc!documentVars
<1> QED BY <1>2, <1>3, <1>4, <1>5, <1>6, <1>7, <1>8, <1>9, <1>10, <1>11 DEF Next, Step, Doc!Next

(* updateJsonFile is an atomic update of a shared document, for any number of   *)
(* processes and updates and with crashes, failing writes and stalls, as long   *)
(* as no live holder loses its lock file: the file is what the stores take it   *)
(* for, one document that is read and replaced at once.                         *)
THEOREM FileIsTheDocument == Spec => ImplementsDocument
<1>1. Init => Doc!Init
  BY DEF Init, Empty, CallOf, Doc!Init
<1>2. IInv /\ [Next]_fileVars => [~stolen => Doc!Next]_(Doc!documentVars)
  BY StepIsTheDocument
<1> QED BY <1>1, <1>2, Invariance, PTL DEF Spec, ImplementsDocument

(* Where nothing crashes, leaks or stalls, it is one outright.                  *)
THEOREM FaultFreeIsTheDocument ==
  ASSUME Faults = {} PROVE Spec => Doc!Spec
<1>1. Spec => []NeverStolen
  BY FaultFreeIsSafe, PTL
<1>2. Init => Doc!Init
  BY DEF Init, Empty, CallOf, Doc!Init
<1>3. IInv /\ NeverStolen /\ [Next]_fileVars => [Doc!Next]_(Doc!documentVars)
  BY StepIsTheDocument DEF NeverStolen
<1> QED BY <1>1, <1>2, <1>3, Invariance, PTL DEF Spec, Doc!Spec
-----------------------------------------------------------------------------
(* Liveness. An attempt at the lock and what is done under it go through the    *)
(* system calls in one order; only a next attempt goes back, with one try more. *)

LockPlace ==
  [open |-> 1, stat |-> 2, unlink |-> 3, wait |-> 4, read |-> 5, write |-> 6, release |-> 7,
   failing |-> 7, idle |-> 8, crashed |-> 8]

\* p is at the k-th system call or a later one, in attempt n if it has no lock yet.
Reaches(p, k, n) == LockPlace[pc[p]] >= k /\ (LockPlace[pc[p]] <= 4 => tries[p] = n)

TriesAgain(p, n) == pc[p] = "open" /\ tries[p] = n + 1

LEMMA LockPlaces ==
  /\ LockPlace["open"] = 1 /\ LockPlace["stat"] = 2 /\ LockPlace["unlink"] = 3
  /\ LockPlace["wait"] = 4 /\ LockPlace["read"] = 5 /\ LockPlace["write"] = 6
  /\ LockPlace["release"] = 7 /\ LockPlace["failing"] = 7
  /\ LockPlace["idle"] = 8 /\ LockPlace["crashed"] = 8
BY DEF LockPlace

\* A step takes a process in an update further, or back to the lock once more.
LEMMA UpdateMoves ==
  ASSUME TypeOK, NEW p \in Procs, pc[p] \notin {"idle", "crashed"}, [Next]_fileVars
  PROVE  \/ ~Step(p) /\ pc'[p] = pc[p] /\ tries'[p] = tries[p]
         \/ /\ LockPlace[pc'[p]] > LockPlace[pc[p]]
            /\ LockPlace[pc'[p]] <= 4 => LockPlace[pc[p]] <= 4 /\ tries'[p] = tries[p]
         \/ pc[p] = "wait" /\ pc'[p] = "open" /\ tries'[p] = tries[p] + 1
<1> DEFINE Further ==
      /\ LockPlace[pc'[p]] > LockPlace[pc[p]]
      /\ LockPlace[pc'[p]] <= 4 => LockPlace[pc[p]] <= 4 /\ tries'[p] = tries[p]
<1> USE LockPlaces DEF TypeOK, Goto
<1>1. CASE CreateLock(p) \/ LeakLock(p)
  BY <1>1 DEF CreateLock, LeakLock
<1>2. CASE FindLocked(p) \/ StatLock(p) \/ UnlinkStale(p)
  BY <1>2 DEF FindLocked, StatLock, UnlinkStale
<1>3. CASE Retry(p)
  BY <1>3 DEF Retry
<1>4. CASE GiveUp(p) \/ Read(p) \/ Write(p) \/ OperationThrows(p)
  BY <1>4 DEF GiveUp, Read, Write, OperationThrows
<1>5. CASE ReleaseLock(p)
  BY <1>5 DEF ReleaseLock
<1>6. CASE Crash(p)
  BY <1>6 DEF Crash
<1>7. ASSUME ~Step(p), NEW q \in Procs, q # p,
             Begin(q) \/ Step(q) \/ LeakLock(q) \/ OperationThrows(q) \/ Crash(q) \/ Restart(q)
      PROVE  pc'[p] = pc[p] /\ tries'[p] = tries[p]
  BY <1>7 DEF Begin, Step, LeakLock, OperationThrows, Crash, Restart, CreateLock, FindLocked, StatLock,
     UnlinkStale, Retry, GiveUp, Read, Write, ReleaseLock
<1>8. ~Begin(p) /\ ~Restart(p)
  BY DEF Begin, Restart
<1>9. CASE ~Step(p) /\ (LockAges \/ UNCHANGED fileVars)
  BY <1>9 DEF LockAges, fileVars, procVars
<1>10. CASE Step(p)
  BY <1>1, <1>2, <1>3, <1>4, <1>5, <1>10 DEF Step
<1> QED BY <1>1, <1>4, <1>6, <1>7, <1>8, <1>9, <1>10 DEF Next

LEMMA LockPlaceTyped ==
  ASSUME NEW p \in Procs
  PROVE  /\ TypeOK => LockPlace[pc[p]] \in 1..8 /\ (LockPlace[pc[p]] = 8 <=> pc[p] \in {"idle", "crashed"})
         /\ TypeOK' => LockPlace[pc'[p]] \in 1..8
         /\ TypeOK => tries[p] \in Nat
<1>1. \A a \in {"idle", "open", "stat", "unlink", "wait", "read", "write", "release", "failing",
                "crashed"} :
        LockPlace[a] \in 1..8 /\ (LockPlace[a] = 8 <=> a \in {"idle", "crashed"})
  BY LockPlaces
<1>2. \A t \in 0..MaxTries : t \in Nat
  BY FileAssumption
<1> QED BY <1>1, <1>2 DEF TypeOK

LEMMA ReachStep ==
  ASSUME TypeOK, TypeOK', NEW p \in Procs, NEW n \in Nat, NEW k \in 1..7,
         Reaches(p, k, n), ~Reaches(p, k + 1, n), [Next]_fileVars
  PROVE  /\ Reaches(p, k, n)' \/ TriesAgain(p, n)'
         /\ Step(p) => Reaches(p, k + 1, n)' \/ TriesAgain(p, n)'
<1>1. /\ LockPlace[pc[p]] \in 1..8 /\ LockPlace[pc'[p]] \in 1..8
      /\ pc[p] \notin {"idle", "crashed"}
  BY LockPlaceTyped DEF Reaches
<1>2. CASE ~Step(p) /\ pc'[p] = pc[p] /\ tries'[p] = tries[p]
  BY <1>2 DEF Reaches
<1>3. CASE /\ LockPlace[pc'[p]] > LockPlace[pc[p]]
           /\ LockPlace[pc'[p]] <= 4 => LockPlace[pc[p]] <= 4 /\ tries'[p] = tries[p]
  BY <1>1, <1>3 DEF Reaches
<1>4. CASE pc[p] = "wait" /\ pc'[p] = "open" /\ tries'[p] = tries[p] + 1
  BY <1>4, LockPlaces DEF Reaches, TriesAgain
<1> QED BY <1>1, <1>2, <1>3, <1>4, UpdateMoves

\* A process at a system call of an update gets beyond it, or back to the lock.
Leads(p, n, k, m) == Reaches(p, k, n) ~> (Reaches(p, m, n) \/ TriesAgain(p, n))

LEMMA GetsFurther ==
  ASSUME NEW p \in Procs, NEW n \in Nat, NEW k \in 1..7, NEW m, m = k + 1
  PROVE  Spec /\ []UpdatesCanStep => Leads(p, n, k, m)
<1>1. TypeOK /\ TypeOK' /\ Reaches(p, k, n) /\ ~Reaches(p, m, n) /\ [Next]_fileVars
        => Reaches(p, k, n)' \/ TriesAgain(p, n)'
  BY ReachStep
<1>2. TypeOK /\ TypeOK' /\ Reaches(p, k, n) /\ ~Reaches(p, m, n) /\ <<Step(p)>>_fileVars
        => Reaches(p, m, n)' \/ TriesAgain(p, n)'
  BY ReachStep DEF Next
<1>3. TypeOK /\ Reaches(p, k, n) /\ ~Reaches(p, m, n) /\ UpdatesCanStep
        => ENABLED <<Step(p)>>_fileVars
  <2>1. TypeOK /\ Reaches(p, k, n) /\ ~Reaches(p, m, n) => pc[p] \notin {"idle", "crashed"}
    BY LockPlaceTyped DEF Reaches
  <2> QED BY <2>1 DEF UpdatesCanStep
<1>4. Fairness => StepFairness(p)
  BY DEF Fairness
<1> QED BY <1>1, <1>2, <1>3, <1>4, TypeCorrect, PTL DEF Spec, StepFairness, Leads

LEMMA LastPlace ==
  ASSUME TypeOK, NEW p \in Procs, LockPlace[pc[p]] >= 8
  PROVE  pc[p] \in {"idle", "crashed"}
BY LockPlaceTyped

\* An attempt at the lock ends: the update returned, threw or timed out, the process died, or it
\* sleeps and tries once more, which MaxTries bounds (TypeCorrect). Whatever the other processes
\* do with the lock file, they cannot keep it at one system call (withFileLock).
THEOREM AttemptEnds ==
  ASSUME NEW p \in Procs, NEW n \in Nat
  PROVE  Spec /\ []UpdatesCanStep
           => (pc[p] = "open" /\ tries[p] = n ~> (pc[p] \in {"idle", "crashed"} \/ TriesAgain(p, n)))
<1>1. Spec /\ []UpdatesCanStep => Leads(p, n, 1, 2)
  BY GetsFurther
<1>2. Spec /\ []UpdatesCanStep => Leads(p, n, 2, 3)
  BY GetsFurther
<1>3. Spec /\ []UpdatesCanStep => Leads(p, n, 3, 4)
  BY GetsFurther
<1>4. Spec /\ []UpdatesCanStep => Leads(p, n, 4, 5)
  BY GetsFurther
<1>5. Spec /\ []UpdatesCanStep => Leads(p, n, 5, 6)
  BY GetsFurther
<1>6. Spec /\ []UpdatesCanStep => Leads(p, n, 6, 7)
  BY GetsFurther
<1>7. Spec /\ []UpdatesCanStep => Leads(p, n, 7, 8)
  BY GetsFurther
<1>8. pc[p] = "open" /\ tries[p] = n => Reaches(p, 1, n)
  BY LockPlaces DEF Reaches
<1>9. TypeOK /\ Reaches(p, 8, n) => pc[p] \in {"idle", "crashed"}
  BY LastPlace DEF Reaches
<1> QED
  BY <1>1, <1>2, <1>3, <1>4, <1>5, <1>6, <1>7, <1>8, <1>9, TypeCorrect, PTL DEF Leads

\* Under the lock, or done with it.
Held(p, k) == LockPlace[pc[p]] >= k
HeldUntil(p, k, m) == Held(p, k) ~> Held(p, m)

LEMMA HolderGetsFurther ==
  ASSUME NEW p \in Procs, NEW k \in 5..7, NEW m, m = k + 1
  PROVE  Spec /\ []UpdatesCanStep => HeldUntil(p, k, m)
<1>1. ASSUME TypeOK, TypeOK', Held(p, k), ~Held(p, m), [Next]_fileVars
      PROVE  Held(p, k)' /\ (Step(p) => Held(p, m)') /\ pc[p] \notin {"idle", "crashed"}
  <2>1. /\ LockPlace[pc[p]] \in 1..8 /\ LockPlace[pc'[p]] \in 1..8
        /\ pc[p] \notin {"idle", "crashed"} /\ pc[p] # "wait"
    BY <1>1, LockPlaceTyped, LockPlaces DEF Held
  <2> QED BY <1>1, <2>1, UpdateMoves DEF Held
<1>2. TypeOK /\ TypeOK' /\ Held(p, k) /\ ~Held(p, m) /\ [Next]_fileVars => Held(p, k)'
  BY <1>1
<1>3. TypeOK /\ TypeOK' /\ Held(p, k) /\ ~Held(p, m) /\ <<Step(p)>>_fileVars => Held(p, m)'
  BY <1>1 DEF Next
<1>4. TypeOK /\ Held(p, k) /\ ~Held(p, m) /\ UpdatesCanStep => ENABLED <<Step(p)>>_fileVars
  <2>1. TypeOK /\ Held(p, k) /\ ~Held(p, m) => pc[p] \notin {"idle", "crashed"}
    BY LockPlaceTyped DEF Held
  <2> QED BY <2>1 DEF UpdatesCanStep
<1>5. Fairness => StepFairness(p)
  BY DEF Fairness
<1> QED BY <1>2, <1>3, <1>4, <1>5, TypeCorrect, PTL DEF Spec, StepFairness, HeldUntil

\* Whoever holds the lock lets go of it or dies, also when its operation throws (the finally block
\* of withFileLock): nobody waits for a process that has forgotten its lock.
THEOREM HolderLetsGo ==
  ASSUME NEW p \in Procs
  PROVE  Spec /\ []UpdatesCanStep => (Inside(p) ~> pc[p] \in {"idle", "crashed"})
<1>1. Spec /\ []UpdatesCanStep => HeldUntil(p, 5, 6)
  BY HolderGetsFurther
<1>2. Spec /\ []UpdatesCanStep => HeldUntil(p, 6, 7)
  BY HolderGetsFurther
<1>3. Spec /\ []UpdatesCanStep => HeldUntil(p, 7, 8)
  BY HolderGetsFurther
<1>4. Inside(p) => Held(p, 5)
  BY LockPlaces DEF Inside, Held
<1>5. TypeOK /\ Held(p, 8) => pc[p] \in {"idle", "crashed"}
  BY LastPlace DEF Held
<1> QED BY <1>1, <1>2, <1>3, <1>4, <1>5, TypeCorrect, PTL DEF HeldUntil
=============================================================================

--------------------------- MODULE AtomicJsonFile ---------------------------
(***************************************************************************)
(* The JSON files several processes update (src/core/storage/              *)
(* atomic-json-file.ts): sessions, settings and secrets. updateJsonFile    *)
(* takes a lock file, reads the latest document, mutates it and renames a  *)
(* temporary file over it.                                                 *)
(*                                                                         *)
(* The code is synchronous, so a process runs one update at a time; other  *)
(* processes run between any two of its system calls, and an action is one *)
(* system call with the code around it.                                    *)
(*                                                                         *)
(* A definition Name_Fault is a faulty variant of Name that nothing uses:  *)
(* put in its place it must break a property, see README.md.               *)
(***************************************************************************)
EXTENDS Naturals

CONSTANTS
  Procs,       \* processes sharing the file
  Nobody,      \* there is no lock file
  MaxUpdates,  \* bound: the updateJsonFile calls of each process
  MaxTries,    \* attempts at the lock that fit in its five-second deadline
  Faults       \* "crash": a process may die between two system calls
               \* "leak":  writing the pid into a new lock file may fail
               \* "stall": a holder may keep the lock longer than thirty seconds

ASSUME FileAssumption ==
  /\ Nobody \notin Procs
  /\ MaxUpdates \in [Procs -> Nat] /\ MaxTries \in Nat
  /\ Faults \subseteq {"crash", "leak", "stall"}

VARIABLES
  pc,       \* where each process is
  tries,    \* its failed attempts at the lock
  seen,     \* the document it read under the lock
  calls,    \* the updates it began
  acked,    \* the updates that returned to its caller
  lock,     \* who created the lock file
  old,      \* the lock file's mtime is more than thirty seconds ago
  file,     \* the document: how many updates of each process it holds
  stolen    \* history: a lock was unlinked under a live holder

procVars == <<pc, tries, seen, calls, acked>>
lockVars == <<lock, old, stolen>>
fileVars == <<procVars, lockVars, file>>

Documents == [Procs -> Nat]

TypeOK ==
  /\ pc \in [Procs -> {"idle", "open", "stat", "unlink", "wait", "read", "write",
                       "release", "failing", "crashed"}]
  /\ tries \in [Procs -> 0..MaxTries]
  /\ seen \in [Procs -> Documents]
  /\ calls \in [Procs -> Nat]
  /\ acked \in [Procs -> Nat]
  /\ lock \in Procs \cup {Nobody}
  /\ old \in BOOLEAN
  /\ file \in Documents
  /\ stolen \in BOOLEAN

Empty == [p \in Procs |-> 0]

Init ==
  /\ pc = [p \in Procs |-> "idle"]
  /\ tries = Empty
  /\ seen = [p \in Procs |-> Empty]
  /\ calls = Empty
  /\ acked = Empty
  /\ lock = Nobody
  /\ old = FALSE
  /\ file = Empty
  /\ stolen = FALSE

\* The operation of withFileLock, its finally block included.
Inside(p) == pc[p] \in {"read", "write", "release", "failing"}

Goto(p, l) == pc' = [pc EXCEPT ![p] = l]

-----------------------------------------------------------------------------
(* Taking the lock. *)

Begin(p) ==
  /\ pc[p] = "idle" /\ calls[p] < MaxUpdates[p]
  /\ calls' = [calls EXCEPT ![p] = @ + 1]
  /\ tries' = [tries EXCEPT ![p] = 0]
  /\ Goto(p, "open")
  /\ UNCHANGED <<seen, acked, lockVars, file>>

\* openSync(lockPath, "wx"): exclusive creation.
MayCreate_Overwrite == TRUE
MayCreate == lock = Nobody

CreateLock(p) ==
  /\ pc[p] = "open" /\ MayCreate
  /\ lock' = p /\ old' = FALSE
  /\ tries' = [tries EXCEPT ![p] = 0]
  /\ Goto(p, "read")
  /\ UNCHANGED <<seen, calls, acked, stolen, file>>

\* The file is created and writing the pid throws: not EEXIST, so it is
\* rethrown outside the try that would release the lock.
LeakLock(p) ==
  /\ "leak" \in Faults
  /\ pc[p] = "open" /\ MayCreate
  /\ lock' = p /\ old' = FALSE
  /\ Goto(p, "idle")
  /\ UNCHANGED <<tries, seen, calls, acked, stolen, file>>

FindLocked(p) ==
  /\ pc[p] = "open" /\ lock # Nobody
  /\ Goto(p, "stat")
  /\ UNCHANGED <<tries, seen, calls, acked, lockVars, file>>

\* removeStaleLock: statSync, and a lock that is gone meanwhile is no error.
LooksStale_AnyAge == lock # Nobody
LooksStale == lock # Nobody /\ old

StatLock(p) ==
  /\ pc[p] = "stat"
  /\ Goto(p, IF LooksStale THEN "unlink" ELSE "wait")
  /\ UNCHANGED <<tries, seen, calls, acked, lockVars, file>>

\* unlinkSync removes the lock file that is there now, whoever created it.
Unlink(p) ==
  /\ lock' = Nobody /\ old' = FALSE
  /\ stolen' = (stolen \/ \E q \in Procs \ {p} : lock = q /\ Inside(q))

UnlinkStale(p) ==
  /\ pc[p] = "unlink"
  /\ Unlink(p)
  /\ Goto(p, "wait")
  /\ UNCHANGED <<tries, seen, calls, acked, file>>

\* Seeded fault: every attempt gets a deadline of its own.
Retry_NoDeadline(p) ==
  /\ pc[p] = "wait"
  /\ Goto(p, "open")
  /\ UNCHANGED <<tries, seen, calls, acked, lockVars, file>>

BeforeDeadline_OffByOne(p) == tries[p] <= MaxTries
BeforeDeadline(p) == tries[p] < MaxTries

\* Sleep and try again.
Retry(p) ==
  /\ pc[p] = "wait" /\ BeforeDeadline(p)
  /\ tries' = [tries EXCEPT ![p] = @ + 1]
  /\ Goto(p, "open")
  /\ UNCHANGED <<seen, calls, acked, lockVars, file>>

\* The deadline has passed: "Timed out waiting for storage lock".
GiveUp(p) ==
  /\ pc[p] = "wait"
  /\ tries' = [tries EXCEPT ![p] = 0]
  /\ Goto(p, "idle")
  /\ UNCHANGED <<seen, calls, acked, lockVars, file>>

-----------------------------------------------------------------------------
(* Under the lock. *)

\* readJsonFile(filePath) inside the operation: the latest document.
Latest_Cached(p) == IF seen[p] = Empty THEN file ELSE seen[p]
Latest(p) == file

Read(p) ==
  /\ pc[p] = "read"
  /\ seen' = [seen EXCEPT ![p] = Latest(p)]
  /\ Goto(p, "write")
  /\ UNCHANGED <<tries, calls, acked, lockVars, file>>

\* atomicWriteJson: the temporary file's name is the process's own, and only the
\* rename touches the document.
Mutated(p) == [seen[p] EXCEPT ![p] = @ + 1]

Write(p) ==
  /\ pc[p] = "write"
  /\ file' = Mutated(p)
  /\ Goto(p, "release")
  /\ UNCHANGED <<tries, seen, calls, acked, lockVars>>

\* Malformed JSON, a mutate that throws (an unknown session), a full disk.
OperationThrows(p) ==
  /\ pc[p] \in {"read", "write"}
  /\ Goto(p, "failing")
  /\ UNCHANGED <<tries, seen, calls, acked, lockVars, file>>

\* finally: unlinkSync(lockPath), taken to remove the file or to find none; then
\* return, or throw what the operation threw.
ReleaseLock(p) ==
  /\ pc[p] \in {"release", "failing"}
  /\ Unlink(p)
  /\ acked' = IF pc[p] = "release" THEN [acked EXCEPT ![p] = @ + 1] ELSE acked
  /\ Goto(p, "idle")
  /\ UNCHANGED <<tries, seen, calls, file>>

-----------------------------------------------------------------------------
(* The environment. *)

Crash(p) ==
  /\ "crash" \in Faults
  /\ pc[p] \notin {"idle", "crashed"}
  /\ Goto(p, "crashed")
  /\ UNCHANGED <<tries, seen, calls, acked, lockVars, file>>

Restart(p) ==
  /\ pc[p] = "crashed"
  /\ Goto(p, "idle")
  /\ seen' = [seen EXCEPT ![p] = Empty]
  /\ UNCHANGED <<tries, calls, acked, lockVars, file>>

\* Thirty seconds pass: a live holder is done by then, unless it stalls.
LockAges ==
  /\ lock # Nobody /\ ~old
  /\ ("stall" \in Faults \/ ~Inside(lock))
  /\ old' = TRUE
  /\ UNCHANGED <<procVars, lock, stolen, file>>

-----------------------------------------------------------------------------
Step(p) ==
  \/ CreateLock(p) \/ FindLocked(p) \/ StatLock(p) \/ UnlinkStale(p)
  \/ Retry(p) \/ GiveUp(p) \/ Read(p) \/ Write(p) \/ ReleaseLock(p)

Next ==
  \/ \E p \in Procs :
       \/ Begin(p) \/ Step(p) \/ LeakLock(p) \/ OperationThrows(p)
       \/ Crash(p) \/ Restart(p)
  \/ LockAges

\* A process that has begun an update goes on with it, unless it crashes.
StepFairness(p) == WF_fileVars(Step(p))

Fairness == \A p \in Procs : StepFairness(p)

Spec == Init /\ [][Next]_fileVars /\ Fairness

-----------------------------------------------------------------------------
(* Properties. *)

\* Two processes are never both inside the operation of withFileLock, as long as
\* no live holder has lost its lock file to a takeover or to a late release.
Exclusive ==
  ~stolen => \A p, q \in Procs : Inside(p) /\ Inside(q) => p = q

\* An update that returned is in the document, and no document ever loses an
\* update, under the same proviso: updateJsonFile re-reads under the lock.
AckedIsStored == ~stolen => \A p \in Procs : acked[p] <= file[p]

FileOnlyGrows == [][~stolen => \A p \in Procs : file[p] <= file'[p]]_fileVars

\* Where an update is, for its caller.
CallOf(p) ==
  CASE pc[p] \in {"idle", "crashed"} -> "none"
    [] pc[p] = "release" -> "applied"
    [] OTHER -> "pending"

Doc == INSTANCE SharedDocument WITH
  document <- file, returned <- acked, call <- [p \in Procs |-> CallOf(p)]

\* Every system call is a step of the shared document, or none, under the same
\* proviso: an update is applied at one moment to the latest document, it is applied
\* before it returns, and not if it throws.
ImplementsDocument == Doc!Init /\ [][~stolen => Doc!Next]_(Doc!documentVars)

\* updateJsonFile returns or throws: it never waits past its deadline.
UpdateEnds == \A p \in Procs : pc[p] = "open" ~> pc[p] \in {"idle", "crashed"}

\* What the proofs of liveness take for granted of that fairness: a process in an
\* update can take its next step, whatever the lock file is.
UpdatesCanStep ==
  \A p \in Procs : pc[p] \notin {"idle", "crashed"} => ENABLED <<Step(p)>>_fileVars

\* The storage contract without the proviso (docs/architecture.md, "atomic
\* temporary-file rename, a short-lived lock, stale-lock recovery").
NoLostUpdate == \A p \in Procs : acked[p] <= file[p]

\* No process loses the lock file it holds.
NeverStolen == ~stolen
=============================================================================

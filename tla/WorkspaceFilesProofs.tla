----------------------- MODULE WorkspaceFilesProofs -------------------------
(* What the edit tools, "/revert", diffs and the import of skills promise      *)
(* about the user's files, for any texts, lines, changes, skills and           *)
(* components and any number of edits.                                         *)
EXTENDS EditPipeline, SkillBundles, TextPatch, FiniteSetTheorems, SequenceTheorems,
        WellFoundedInduction, TLAPS

(***************************************************************************)
(* Edits and reverts: the invariant                                        *)
(***************************************************************************)
EditTyped ==
  /\ file \in Files /\ origin \in Files
  /\ edit \in [pc : {"idle", "read", "opened", "snapshot", "truncated"},
               before : FileTexts, after : FileTexts]
  /\ snapshots \in Seq([before : FileTexts, after : FileTexts, time : Nat])
  /\ revert \in [pc : {"idle", "next", "read", "truncated"}, todo : Seq(Nat), read : FileTexts,
                 force : BOOLEAN, alone : BOOLEAN]
  /\ \A i \in DOMAIN revert.todo : revert.todo[i] \in DOMAIN snapshots
  /\ revert.pc \in {"read", "truncated"} => revert.todo # << >>

\* An edit has put what it replaces, and by what, in a snapshot.
EditNoted ==
  edit.pc \in {"snapshot", "truncated"} =>
    \E i \in DOMAIN snapshots : snapshots[i].before = edit.before /\ snapshots[i].after = edit.after

\* What an unforced revert is about to replace is what a snapshot's edit made of the file.
ReadNoted == revert.pc = "read" /\ ~revert.force => revert.read = Empty \/ Known(revert.read)

\* What the file may have said when the first k snapshots had been taken.
SaidBy(k) ==
  {Empty, origin} \cup {snapshots[j].before : j \in 1..k} \cup {snapshots[j].after : j \in 1..k}

\* If nobody else writes, an edit starts from a text that another one left or reverted to.
Chained ==
  ~meddled /\ snapshots # << >> =>
    /\ snapshots[1].before = origin
    /\ \A i \in DOMAIN snapshots : snapshots[i].before \in SaidBy(i - 1)
    /\ TextOf(file) \in SaidBy(Len(snapshots))

InTime == \A i, j \in DOMAIN snapshots : i < j => snapshots[i].time <= snapshots[j].time

\* A whole revert alone goes through the snapshots k, k - 1, ..., 1, and the file says what it
\* said when only k had been taken.
WalksBack ==
  revert.pc # "idle" /\ revert.alone /\ ~meddled /\ ~SameMillisecond =>
    /\ edit = NoEdit /\ snapshots # << >>
    /\ \A i \in DOMAIN revert.todo : revert.todo[i] = Len(revert.todo) + 1 - i
    /\ revert.pc = "next" =>
         IF revert.todo = << >> THEN TextOf(file) = origin
         ELSE TextOf(file) \in SaidBy(Len(revert.todo))

EditInv ==
  /\ EditTyped /\ EditNoted /\ ReadNoted /\ ~lost
  /\ Chained /\ InTime /\ WalksBack

(***************************************************************************)
(* Lemmas                                                                  *)
(***************************************************************************)
\* A sequence that goes down from n with n steps is n, n - 1, ..., 1.
LEMMA CountDown ==
  ASSUME NEW n \in Nat, NEW o \in [1..n -> 1..n], \A i, j \in 1..n : i < j => o[i] > o[j]
  PROVE  \A i \in 1..n : o[i] = n + 1 - i
<1> SUFFICES ASSUME NEW i \in 1..n PROVE o[i] = n + 1 - i
  OBVIOUS
<1>1. i \in Nat /\ o[i] \in Nat /\ i >= 1 /\ i <= n /\ o[i] >= 1 /\ o[i] <= n
  OBVIOUS
<1>2. CASE o[i] > n + 1 - i
  <2> DEFINE f == [j \in 1..i |-> o[j]]
  <2>1. f \in [1..i -> o[i]..n]
    <3>1. ASSUME NEW j \in 1..i  PROVE o[j] \in o[i]..n
      <4>1. j \in 1..n /\ (j < i \/ j = i)
        BY <1>1
      <4>2. o[j] \in 1..n /\ (j < i => o[j] > o[i])
        BY <4>1
      <4> QED BY <1>1, <4>1, <4>2
    <3> QED BY <3>1
  <2>2. /\ IsFiniteSet(1..i) /\ Cardinality(1..i) = i
        /\ IsFiniteSet(o[i]..n) /\ Cardinality(o[i]..n) = (n - o[i]) + 1
    BY <1>1, FS_Interval
  <2>3. Cardinality(o[i]..n) < Cardinality(1..i)
    BY <1>1, <1>2, <2>2
  <2>4. PICK x, y \in 1..i : x # y /\ f[x] = f[y]
    <3> DEFINE S == 1..i
               T == o[i]..n
    <3>1. IsFiniteSet(S) /\ IsFiniteSet(T) /\ Cardinality(T) < Cardinality(S) /\ f \in [S -> T]
      BY <2>1, <2>2, <2>3
    <3> HIDE DEF f, S, T
    <3>2. \E x, y \in S : x # y /\ f[x] = f[y]
      BY <3>1, FS_PigeonHole
    <3> QED BY <3>2 DEF S
  <2>5. x \in 1..n /\ y \in 1..n /\ (x < y \/ y < x) /\ o[x] = o[y]
    BY <1>1, <2>4
  <2>6. o[x] \in 1..n /\ o[y] \in 1..n
    BY <2>5
  <2> QED BY <2>5, <2>6
<1>3. CASE o[i] < n + 1 - i
  <2> DEFINE f == [j \in i..n |-> o[j]]
  <2>1. f \in [i..n -> 1..o[i]]
    <3>1. ASSUME NEW j \in i..n  PROVE o[j] \in 1..o[i]
      <4>1. j \in 1..n /\ (i < j \/ j = i)
        BY <1>1
      <4>2. o[j] \in 1..n /\ (i < j => o[i] > o[j])
        BY <4>1
      <4> QED BY <1>1, <4>1, <4>2
    <3> QED BY <3>1
  <2>2. /\ IsFiniteSet(i..n) /\ Cardinality(i..n) = (n - i) + 1
        /\ IsFiniteSet(1..o[i]) /\ Cardinality(1..o[i]) = o[i]
    BY <1>1, FS_Interval
  <2>3. Cardinality(1..o[i]) < Cardinality(i..n)
    BY <1>1, <1>3, <2>2
  <2>4. PICK x, y \in i..n : x # y /\ f[x] = f[y]
    <3> DEFINE S == i..n
               T == 1..o[i]
    <3>1. IsFiniteSet(S) /\ IsFiniteSet(T) /\ Cardinality(T) < Cardinality(S) /\ f \in [S -> T]
      BY <2>1, <2>2, <2>3
    <3> HIDE DEF f, S, T
    <3>2. \E x, y \in S : x # y /\ f[x] = f[y]
      BY <3>1, FS_PigeonHole
    <3> QED BY <3>2 DEF S
  <2>5. o[x] = o[y] /\ x \in 1..n /\ y \in 1..n /\ (x < y \/ y < x)
    BY <1>1, <2>4
  <2> QED BY <2>5
<1> QED BY <1>1, <1>2, <1>3

LEMMA TextsOfFiles ==
  /\ Empty \in FileTexts /\ Missing \notin FileTexts
  /\ \A f \in Files : TextOf(f) \in FileTexts /\ (TextOf(f) # Empty => TextOf(f) = f)
  /\ \A t \in FileTexts : TextOf(t) = t
BY EditAssumption DEF FileTexts, Files, TextOf, Empty, Missing

\* What the proofs use of the two sequences.
LEMMA SnapshotsTyped ==
  ASSUME EditTyped
  PROVE  /\ Len(snapshots) \in Nat /\ DOMAIN snapshots = 1..Len(snapshots)
         /\ \A i \in DOMAIN snapshots :
              /\ snapshots[i].before \in FileTexts /\ snapshots[i].after \in FileTexts
              /\ snapshots[i].time \in Nat
         /\ snapshots = << >> <=> Len(snapshots) = 0
<1> DEFINE Taken == [before : FileTexts, after : FileTexts, time : Nat]
<1>1. snapshots \in Seq(Taken)
  BY DEF EditTyped
<1>2. \A t \in Taken : t.before \in FileTexts /\ t.after \in FileTexts /\ t.time \in Nat
  OBVIOUS
<1> HIDE DEF Taken
<1>3. /\ Len(snapshots) \in Nat /\ DOMAIN snapshots = 1..Len(snapshots)
      /\ \A i \in DOMAIN snapshots : snapshots[i] \in Taken
  BY <1>1
<1>4. snapshots = << >> <=> Len(snapshots) = 0
  BY <1>1, EmptySeq
<1> QED BY <1>2, <1>3, <1>4

LEMMA TodoTyped ==
  ASSUME EditTyped
  PROVE  /\ Len(revert.todo) \in Nat /\ DOMAIN revert.todo = 1..Len(revert.todo)
         /\ revert.todo # << >> =>
              /\ Len(revert.todo) >= 1
              /\ Head(revert.todo) = revert.todo[1] /\ Head(revert.todo) \in DOMAIN snapshots
              /\ Tail(revert.todo) \in Seq(Nat)
              /\ Len(Tail(revert.todo)) = Len(revert.todo) - 1
              /\ DOMAIN Tail(revert.todo) = 1..Len(revert.todo) - 1
              /\ \A i \in 1..Len(revert.todo) - 1 : Tail(revert.todo)[i] = revert.todo[i + 1]
<1> DEFINE todo == revert.todo
<1>1. todo \in Seq(Nat) /\ \A i \in DOMAIN todo : todo[i] \in DOMAIN snapshots
  BY DEF EditTyped
<1>2. Len(todo) \in Nat /\ DOMAIN todo = 1..Len(todo)
  BY <1>1
<1>3. ASSUME todo # << >>
      PROVE  /\ Len(todo) >= 1 /\ Head(todo) = todo[1] /\ Head(todo) \in DOMAIN snapshots
             /\ Tail(todo) \in Seq(Nat) /\ Len(Tail(todo)) = Len(todo) - 1
             /\ DOMAIN Tail(todo) = 1..Len(todo) - 1
             /\ \A i \in 1..Len(todo) - 1 : Tail(todo)[i] = todo[i + 1]
  <2> HIDE DEF todo
  <2>1. Len(todo) >= 1
    BY <1>1, <1>2, <1>3, EmptySeq
  <2>2. /\ Tail(todo) \in Seq(Nat) /\ Len(Tail(todo)) = Len(todo) - 1
        /\ \A i \in 1..Len(Tail(todo)) : Tail(todo)[i] = todo[i + 1]
    BY <1>1, <1>3, HeadTailProperties
  <2>3. DOMAIN Tail(todo) = 1..Len(Tail(todo))
    BY <2>2
  <2>4. Head(todo) = todo[1]
    BY <1>1
  <2> QED BY <1>1, <1>2, <2>1, <2>2, <2>3, <2>4
<1> QED BY <1>2, <1>3

\* A new snapshot comes last, and leaves the others as they are.
LEMMA SnapshotAppended ==
  ASSUME EditTyped, WriteSnapshot
  PROVE  /\ snapshots' \in Seq([before : FileTexts, after : FileTexts, time : Nat])
         /\ Len(snapshots') = Len(snapshots) + 1 /\ snapshots' # << >>
         /\ DOMAIN snapshots' = 1..Len(snapshots) + 1
         /\ \A i \in DOMAIN snapshots : snapshots'[i] = snapshots[i]
         /\ snapshots'[Len(snapshots) + 1].before = edit.before
         /\ snapshots'[Len(snapshots) + 1].after = edit.after
         /\ snapshots'[Len(snapshots) + 1].time \in Nat
         /\ snapshots # << >> =>
              snapshots'[Len(snapshots) + 1].time >= snapshots[Len(snapshots)].time
<1> DEFINE Taken == [before : FileTexts, after : FileTexts, time : Nat]
           last == IF snapshots = << >> THEN 0 ELSE snapshots[Len(snapshots)].time
<1>1. snapshots \in Seq(Taken) /\ edit.before \in FileTexts /\ edit.after \in FileTexts
  BY DEF EditTyped
<1>2. last \in Nat
  BY SnapshotsTyped
<1>3. PICK time \in {last, last + 1} :
        snapshots' = Append(snapshots, [before |-> edit.before, after |-> edit.after,
                                        time |-> time])
  BY DEF WriteSnapshot
<1> DEFINE new == [before |-> edit.before, after |-> edit.after, time |-> time]
<1>4. new \in Taken /\ new.before = edit.before /\ new.after = edit.after /\ new.time >= last
  BY <1>1, <1>2, <1>3
<1>5. snapshots # << >> => new.time >= snapshots[Len(snapshots)].time
  BY <1>4
<1> HIDE DEF Taken, new, last
<1>6. snapshots' = Append(snapshots, new)
  BY <1>3 DEF new
<1>7. /\ snapshots' \in Seq(Taken) /\ snapshots' # << >> /\ Len(snapshots') = Len(snapshots) + 1
      /\ \A i \in 1..Len(snapshots) : snapshots'[i] = snapshots[i]
      /\ snapshots'[Len(snapshots) + 1] = new
  BY <1>1, <1>4, <1>6, AppendProperties
<1>8. DOMAIN snapshots' = 1..Len(snapshots) + 1
  BY <1>7
<1> QED BY <1>4, <1>5, <1>7, <1>8, SnapshotsTyped DEF Taken

(***************************************************************************)
(* Every step keeps the invariant                                          *)
(***************************************************************************)
LEMMA EditInitInv == EditInit => EditInv
<1> SUFFICES ASSUME EditInit PROVE EditInv
  OBVIOUS
<1>1. EditTyped
  BY TextsOfFiles DEF EditInit, EditTyped, NoEdit, NoRevert, Files
<1> QED BY <1>1 DEF EditInit, EditInv, EditNoted, ReadNoted, Chained, InTime, WalksBack, NoEdit,
                    NoRevert

\* Only a new snapshot changes the snapshots.
LEMMA SnapshotsStay ==
  ASSUME [EditNext]_editVars
  PROVE  WriteSnapshot \/ snapshots' = snapshots
BY DEF EditNext, StartEdit, StartPatch, StartWrite, EditStarts, OpenSnapshot, SnapshotFails,
       EditTruncates, EditFills, EditFails, StartRevert, RevertReads, RevertTruncates, RevertFills,
       RevertEnds, RevertFails, OtherWrites, EditDies, editVars

LEMMA KnownStays ==
  ASSUME EditTyped, [EditNext]_editVars, NEW text, Known(text)
  PROVE  Known(text)'
<1>1. CASE WriteSnapshot
  BY <1>1, SnapshotAppended, SnapshotsTyped DEF Known
<1>2. CASE snapshots' = snapshots
  BY <1>2 DEF Known
<1> QED BY <1>1, <1>2, SnapshotsStay

LEMMA EditTypedStep ==
  ASSUME EditTyped, [EditNext]_editVars
  PROVE  EditTyped'
<1> USE TextsOfFiles
<1>1. CASE EditStarts
  <2>1. TextOf(file) \in FileTexts
    BY DEF EditTyped
  <2>2. edit' \in [pc : {"idle", "read", "opened", "snapshot", "truncated"}, before : FileTexts,
                   after : FileTexts]
    BY <1>1, <2>1 DEF EditStarts
  <2>3. /\ revert' \in [pc : {"idle", "next", "read", "truncated"}, todo : Seq(Nat),
                        read : FileTexts, force : BOOLEAN, alone : BOOLEAN]
        /\ revert'.todo = revert.todo /\ revert'.pc = revert.pc
    BY <1>1 DEF EditStarts, EditTyped
  <2> QED BY <1>1, <2>2, <2>3 DEF EditStarts, EditTyped, notes
<1>2. CASE WriteSnapshot
  <2>1. origin' \in Files /\ edit' \in [pc : {"idle", "read", "opened", "snapshot", "truncated"},
                                        before : FileTexts, after : FileTexts]
    BY <1>2 DEF WriteSnapshot, EditTyped, Files
  <2>2. \A i \in DOMAIN revert.todo : revert.todo[i] \in DOMAIN snapshots'
    BY <1>2, SnapshotAppended, SnapshotsTyped DEF EditTyped
  <2> QED BY <1>2, <2>1, <2>2, SnapshotAppended DEF WriteSnapshot, EditTyped
<1>3. CASE EditTruncates
  BY <1>3 DEF EditTruncates, Truncate, EditTyped, Files
<1>4. CASE EditFills
  BY <1>4 DEF EditFills, EditTyped, NoEdit, notes, Files
<1>5. CASE OpenSnapshot \/ SnapshotFails \/ EditFails
  <2>1. edit' \in [pc : {"idle", "read", "opened", "snapshot", "truncated"}, before : FileTexts,
                   after : FileTexts]
    <3>1. OpenSnapshot => edit' = [edit EXCEPT !.pc = "opened"]
      BY DEF OpenSnapshot
    <3>2. SnapshotFails \/ EditFails => edit' = NoEdit
      BY DEF SnapshotFails, EditFails
    <3>3. edit \in [pc : {"idle", "read", "opened", "snapshot", "truncated"}, before : FileTexts,
                    after : FileTexts]
      BY DEF EditTyped
    <3>4. [edit EXCEPT !.pc = "opened"] \in [pc : {"idle", "read", "opened", "snapshot", "truncated"},
                                            before : FileTexts, after : FileTexts]
      BY <3>3
    <3>5. NoEdit \in [pc : {"idle", "read", "opened", "snapshot", "truncated"},
                     before : FileTexts, after : FileTexts]
      BY DEF NoEdit
    <3> QED BY <1>5, <3>1, <3>2, <3>4, <3>5
  <2>2. UNCHANGED <<file, snapshots, revert, notes>>
    BY <1>5 DEF OpenSnapshot, SnapshotFails, EditFails
  <2> QED BY <2>1, <2>2 DEF EditTyped, notes
<1>6. CASE StartRevert
  <2> DEFINE n == Len(snapshots)
  <2>1. n \in Nat /\ n # 0 /\ DOMAIN snapshots = 1..n
    BY <1>6, SnapshotsTyped DEF StartRevert
  <2>2. \A o \in RevertOrders :
          o \in Seq(Nat) /\ o # << >> /\ \A i \in DOMAIN o : o[i] \in DOMAIN snapshots
    <3> HIDE DEF n
    <3> SUFFICES ASSUME NEW o \in [1..n -> 1..n]
                 PROVE  o \in Seq(Nat) /\ o # << >> /\ \A i \in DOMAIN o : o[i] \in 1..n
      BY <2>1 DEF RevertOrders
    <3>1. o \in Seq(1..n) /\ Len(o) = n
      BY <2>1
    <3>2. o \in Seq(Nat)
      BY <2>1, IsASeq
    <3> QED BY <2>1, <3>1, <3>2, EmptySeq
  <2>3. \A i \in DOMAIN snapshots :
          <<i>> \in Seq(Nat) /\ <<i>> # << >> /\ \A j \in DOMAIN <<i>> : <<i>>[j] \in DOMAIN snapshots
    BY <2>1
  <2>4. revert'.todo \in Seq(Nat) /\ \A i \in DOMAIN revert'.todo : revert'.todo[i] \in DOMAIN snapshots
    BY <1>6, <2>2, <2>3 DEF StartRevert, NoRevert
  <2>5. revert' \in [pc : {"idle", "next", "read", "truncated"}, todo : Seq(Nat),
                     read : FileTexts, force : BOOLEAN, alone : BOOLEAN] /\ revert'.pc = "next"
    BY <1>6, <2>2, <2>3 DEF StartRevert, NoRevert
  <2> QED BY <1>6, <2>4, <2>5 DEF StartRevert, EditTyped, notes
<1>7. CASE RevertReads
  <2>1. revert.todo # << >>
    BY <1>7 DEF RevertReads
  <2>2. \A i \in DOMAIN Tail(revert.todo) : Tail(revert.todo)[i] \in DOMAIN snapshots
    BY <2>1, TodoTyped DEF EditTyped
  <2>3. TextOf(file) \in FileTexts /\ Tail(revert.todo) \in Seq(Nat)
    BY <2>1, TodoTyped DEF EditTyped
  <2> QED BY <1>7, <2>1, <2>2, <2>3 DEF RevertReads, EditTyped, notes
<1>8. CASE RevertTruncates
  BY <1>8 DEF RevertTruncates, Truncate, EditTyped, Files
<1>9. CASE RevertFills
  <2>1. revert.todo # << >>
    BY <1>9 DEF RevertFills, EditTyped
  <2>2. /\ \A i \in DOMAIN Tail(revert.todo) : Tail(revert.todo)[i] \in DOMAIN snapshots
        /\ Tail(revert.todo) \in Seq(Nat) /\ snapshots[Head(revert.todo)].before \in FileTexts
    BY <2>1, TodoTyped, SnapshotsTyped DEF EditTyped
  <2> QED BY <1>9, <2>2 DEF RevertFills, EditTyped, notes, Files
<1>10. CASE RevertEnds \/ RevertFails
  <2>1. revert' = NoRevert /\ UNCHANGED <<file, edit, snapshots, notes>>
    BY <1>10 DEF RevertEnds, RevertFails
  <2> QED BY <2>1 DEF EditTyped, NoRevert, notes
<1>11. CASE OtherWrites
  BY <1>11 DEF OtherWrites, EditTyped
<1>12. CASE EditDies
  BY <1>12 DEF EditDies, EditTyped, NoEdit, NoRevert, notes
<1>13. CASE UNCHANGED editVars
  BY <1>13 DEF editVars, EditTyped, notes
<1> QED BY <1>1, <1>2, <1>3, <1>4, <1>5, <1>6, <1>7, <1>8, <1>9, <1>10, <1>11, <1>12, <1>13
        DEF EditNext, StartEdit, StartPatch, StartWrite

\* An edit notes what it is about to replace before it does.
LEMMA NotedStep ==
  ASSUME EditTyped, EditNoted, [EditNext]_editVars
  PROVE  EditNoted'
<1>1. CASE WriteSnapshot
  <2>1. edit' = [edit EXCEPT !.pc = "snapshot"]
    BY <1>1 DEF WriteSnapshot
  <2>2. edit'.before = edit.before /\ edit'.after = edit.after
    BY <2>1 DEF EditTyped
  <2> QED BY <1>1, <2>2, SnapshotAppended, SnapshotsTyped DEF EditNoted
<1>2. CASE EditTruncates
  BY <1>2 DEF EditTruncates, EditNoted, EditTyped
<1>3. CASE EditStarts \/ OpenSnapshot \/ SnapshotFails \/ EditFills \/ EditFails \/ EditDies
  BY <1>3 DEF EditStarts, OpenSnapshot, SnapshotFails, EditFills, EditFails, EditDies, EditNoted,
              EditTyped, NoEdit
<1>4. CASE edit' = edit /\ snapshots' = snapshots
  BY <1>4 DEF EditNoted
<1> QED BY <1>1, <1>2, <1>3, <1>4
        DEF EditNext, StartEdit, StartPatch, StartWrite, StartRevert, RevertReads,
            RevertTruncates, RevertFills, RevertEnds, RevertFails, OtherWrites, editVars

\* An unforced revert replaces only what it has compared with a snapshot.
LEMMA ReadNotedStep ==
  ASSUME EditTyped, ReadNoted, [EditNext]_editVars
  PROVE  ReadNoted'
<1>1. CASE RevertReads
  <2> DEFINE text == TextOf(file)
             i == Head(revert.todo)
  <2>1. revert.todo # << >> /\ i \in DOMAIN snapshots
    BY <1>1, TodoTyped DEF RevertReads
  <2>2. ASSUME Skips(text, i) PROVE revert'.pc = "next"
    BY <1>1, <2>2 DEF RevertReads, EditTyped
  <2>3. ASSUME ~Skips(text, i)
        PROVE  /\ revert'.read = text /\ revert'.force = revert.force
               /\ snapshots' = snapshots /\ file' = file
    BY <1>1, <2>3 DEF RevertReads, EditTyped
  <2>4. ~Skips(text, i) /\ ~revert.force => text = Empty \/ Known(text)
    BY <2>1 DEF Skips, Known
  <2>5. ~Skips(text, i) => Known(text)' = Known(text)
    BY <2>3 DEF Known, TextOf
  <2> QED BY <2>2, <2>3, <2>4, <2>5 DEF ReadNoted, Known
<1>2. CASE StartRevert \/ RevertTruncates \/ RevertFills \/ RevertEnds \/ RevertFails \/ EditDies
  <2>1. revert'.pc # "read"
    <3>1. StartRevert => revert'.pc = "next"
      BY DEF StartRevert, NoRevert
    <3>2. RevertTruncates => revert'.pc = "truncated"
      BY DEF RevertTruncates, EditTyped
    <3>3. RevertFills => revert'.pc = "next"
      BY DEF RevertFills, EditTyped
    <3>4. RevertEnds \/ RevertFails \/ EditDies => revert'.pc = "idle"
      BY DEF RevertEnds, RevertFails, EditDies, NoRevert
    <3> QED BY <1>2, <3>1, <3>2, <3>3, <3>4
  <2> QED BY <2>1 DEF ReadNoted
<1>3. CASE revert'.pc = revert.pc /\ revert'.read = revert.read /\ revert'.force = revert.force
  BY <1>3, KnownStays DEF ReadNoted, Known
<1>4. CASE EditStarts
  BY <1>3, <1>4 DEF EditStarts, EditTyped
<1> QED BY <1>1, <1>2, <1>3, <1>4
        DEF EditNext, StartEdit, StartPatch, StartWrite, OpenSnapshot, WriteSnapshot, SnapshotFails,
            EditTruncates, EditFills, EditFails, OtherWrites, editVars, notes

LEMMA LostStep ==
  ASSUME EditTyped, EditNoted, ReadNoted, ~lost, [EditNext]_editVars
  PROVE  ~lost'
<1>1. ASSUME NEW text \in FileTexts, Known(text) \/ text = Empty, TextOf(file) = text
      PROVE  ~Loses(file)
  BY <1>1, TextsOfFiles DEF Loses, EditTyped
<1>2. CASE EditTruncates
  <2>1. Known(edit.before) /\ edit.before \in FileTexts
    BY <1>2 DEF EditTruncates, EditNoted, Known, EditTyped
  <2> QED BY <1>1, <1>2, <2>1 DEF EditTruncates, Truncate
<1>3. CASE RevertTruncates
  <2>1. ~revert.force => (Known(revert.read) \/ revert.read = Empty) /\ revert.read \in FileTexts
    BY <1>3 DEF RevertTruncates, ReadNoted, EditTyped
  <2> QED BY <1>1, <1>3, <2>1 DEF RevertTruncates, Truncate
<1>4. CASE lost' = lost
  BY <1>4
<1> QED BY <1>2, <1>3, <1>4
        DEF EditNext, StartEdit, StartPatch, StartWrite, EditStarts, OpenSnapshot, WriteSnapshot,
            SnapshotFails, EditFills, EditFails, StartRevert, RevertReads, RevertFills, RevertEnds,
            RevertFails, OtherWrites, EditDies, editVars, notes

LEMMA InTimeStep ==
  ASSUME EditTyped, InTime, [EditNext]_editVars
  PROVE  InTime'
<1>1. CASE WriteSnapshot
  <2> DEFINE n == Len(snapshots)
  <2>1. \A i \in 1..n : snapshots[i].time \in Nat /\ (n # 0 => snapshots[i].time <= snapshots[n].time)
    BY SnapshotsTyped DEF InTime
  <2>2. /\ n \in Nat /\ DOMAIN snapshots' = 1..n + 1 /\ snapshots'[n + 1].time \in Nat
        /\ \A i \in 1..n : snapshots'[i] = snapshots[i]
        /\ n # 0 => snapshots'[n + 1].time >= snapshots[n].time
    BY <1>1, SnapshotAppended, SnapshotsTyped
  <2>3. DOMAIN snapshots = 1..n
    BY SnapshotsTyped
  <2> HIDE DEF n
  <2>4. SUFFICES ASSUME NEW i \in 1..n + 1, NEW j \in 1..n + 1, i < j
                 PROVE  snapshots'[i].time <= snapshots'[j].time
    BY <2>2 DEF InTime
  <2>5. i \in 1..n /\ n # 0
    BY <2>2, <2>4
  <2>6. CASE j = n + 1
    BY <2>1, <2>2, <2>5, <2>6
  <2>7. CASE j # n + 1
    BY <2>2, <2>3, <2>4, <2>5, <2>7 DEF InTime
  <2> QED BY <2>6, <2>7
<1>2. CASE snapshots' = snapshots
  BY <1>2 DEF InTime
<1> QED BY <1>1, <1>2, SnapshotsStay

\* What was said by the k-th snapshot stays said, and one more can only add to it.
LEMMA SaidByGrows ==
  ASSUME EditTyped, WriteSnapshot, snapshots # << >>, NEW k \in 0..Len(snapshots)
  PROVE  SaidBy(k) \subseteq SaidBy(k)'
<1>1. origin' = origin
  BY DEF WriteSnapshot
<1>2. \A j \in 1..k : snapshots'[j] = snapshots[j]
  BY SnapshotAppended, SnapshotsTyped
<1> QED BY <1>1, <1>2 DEF SaidBy

LEMMA ChainedStep ==
  ASSUME EditTyped, EditNoted, Chained, [EditNext]_editVars
  PROVE  Chained'
<1>1. CASE WriteSnapshot
  <2>n. PICK n \in Nat : n = Len(snapshots)
    BY SnapshotsTyped
  <2>1. /\ n \in Nat /\ Len(snapshots') = n + 1 /\ DOMAIN snapshots' = 1..n + 1
        /\ DOMAIN snapshots = 1..n /\ (snapshots = << >> <=> n = 0)
        /\ \A i \in 1..n : snapshots'[i] = snapshots[i]
        /\ snapshots'[n + 1].before = edit.before
    BY <1>1, <2>n, SnapshotAppended, SnapshotsTyped
  <2> SUFFICES ASSUME ~meddled'
               PROVE  /\ snapshots'[1].before = origin'
                      /\ \A i \in 1..n + 1 : snapshots'[i].before \in SaidBy(i - 1)'
                      /\ TextOf(file') \in SaidBy(n + 1)'
    BY <2>1 DEF Chained, TextOf
  <2>2. ~meddled /\ TextOf(file) = edit.before /\ file' = file
    BY <1>1 DEF WriteSnapshot
  <2>3. n + 1 \in 1..n + 1
    BY <2>1
  <2>4. TextOf(file') \in SaidBy(n + 1)'
    BY <2>1, <2>2, <2>3 DEF SaidBy
  <2>5. CASE snapshots = << >>
    <3>1. origin' = edit.before /\ n = 0
      BY <1>1, <2>1, <2>5 DEF WriteSnapshot
    <3>2. snapshots'[1].before = origin'
      BY <2>1, <3>1
    <3>3. origin' \in SaidBy(0)'
      BY DEF SaidBy
    <3>4. \A i \in 1..n + 1 : i = 1 /\ i - 1 = 0
      BY <3>1
    <3> QED BY <2>4, <3>2, <3>3, <3>4
  <2>6. CASE snapshots # << >>
    <3>1. /\ snapshots[1].before = origin /\ origin' = origin /\ 1 \in 1..n
          /\ \A i \in 1..n : snapshots[i].before \in SaidBy(i - 1)
          /\ TextOf(file) \in SaidBy(n)
      BY <1>1, <2>n, <2>1, <2>2, <2>6 DEF Chained, WriteSnapshot
    <3>2. \A k \in 0..n : SaidBy(k) \subseteq SaidBy(k)'
      BY <1>1, <2>n, <2>6, SaidByGrows
    <3>3. \A i \in 1..n : i - 1 \in 0..n /\ snapshots'[i].before \in SaidBy(i - 1)'
      <4>1. \A i \in 1..n : i - 1 \in 0..n
        BY <2>1
      <4> QED BY <2>1, <3>1, <3>2, <4>1
    <3>4. snapshots'[n + 1].before \in SaidBy(n)' /\ (n + 1) - 1 = n /\ n \in 0..n
      <4>1. (n + 1) - 1 = n /\ n \in 0..n
        BY <2>1
      <4> QED BY <2>1, <2>2, <3>1, <3>2, <4>1
    <3>5. \A i \in 1..n + 1 : i \in 1..n \/ i = n + 1
      BY <2>1
    <3>6. \A i \in 1..n + 1 : snapshots'[i].before \in SaidBy(i - 1)'
      BY <3>3, <3>4, <3>5
    <3> QED BY <2>1, <2>4, <3>1, <3>6
  <2> QED BY <2>5, <2>6
<1>2. ASSUME snapshots' = snapshots, origin' = origin, meddled' = meddled,
             snapshots # << >> => file' = file \/ TextOf(file') \in SaidBy(Len(snapshots))
      PROVE  Chained'
  BY <1>2 DEF Chained, SaidBy, TextOf
<1>3. CASE EditTruncates \/ RevertTruncates
  <2>1. TextOf(file') = Empty
    BY <1>3, TextsOfFiles DEF EditTruncates, RevertTruncates, Truncate
  <2> QED BY <1>2, <1>3, <2>1 DEF EditTruncates, RevertTruncates, SaidBy
<1>4. CASE EditFills
  <2>1. TextOf(file') = edit.after
    BY <1>4, TextsOfFiles DEF EditFills, EditTyped
  <2>2. edit.after \in SaidBy(Len(snapshots))
    BY <1>4, SnapshotsTyped DEF EditFills, EditNoted, SaidBy
  <2> QED BY <1>2, <1>4, <2>1, <2>2 DEF EditFills, notes
<1>5. CASE RevertFills
  <2>1. Head(revert.todo) \in DOMAIN snapshots
    BY <1>5, TodoTyped DEF RevertFills, EditTyped
  <2>2. TextOf(file') = snapshots[Head(revert.todo)].before
    BY <1>5, <2>1, TextsOfFiles, SnapshotsTyped DEF RevertFills
  <2>3. snapshots[Head(revert.todo)].before \in SaidBy(Len(snapshots))
    BY <2>1, SnapshotsTyped DEF SaidBy
  <2> QED BY <1>2, <1>5, <2>2, <2>3 DEF RevertFills, notes
<1>6. CASE OtherWrites
  BY <1>6 DEF OtherWrites, Chained
<1>7. CASE UNCHANGED <<file, snapshots, notes>>
  BY <1>2, <1>7 DEF notes
<1> QED BY <1>1, <1>3, <1>4, <1>5, <1>6, <1>7
        DEF EditNext, StartEdit, StartPatch, StartWrite, EditStarts, OpenSnapshot, SnapshotFails,
            EditFails, StartRevert, RevertReads, RevertEnds, RevertFails, EditDies, editVars, notes

\* The orders of a whole revert, when every snapshot has a millisecond of its own.
LEMMA YoungestFirst ==
  ASSUME EditTyped, InTime, ~SameMillisecond, NEW o \in RevertOrders
  PROVE  /\ Len(o) = Len(snapshots) /\ DOMAIN o = 1..Len(snapshots)
         /\ \A i \in DOMAIN o : o[i] = Len(snapshots) + 1 - i
<1>n. PICK n \in Nat : n = Len(snapshots) /\ DOMAIN snapshots = 1..n
  BY SnapshotsTyped
<1>1. /\ o \in [1..n -> 1..n]
      /\ \A i, j \in 1..n : i < j =>
           o[i] # o[j] /\ snapshots[o[i]].time >= snapshots[o[j]].time
  BY <1>n DEF RevertOrders
<1>2. \A i, j \in 1..n : i < j => o[i] > o[j]
  <2> SUFFICES ASSUME NEW i \in 1..n, NEW j \in 1..n, i < j PROVE o[i] > o[j]
    OBVIOUS
  <2>1. /\ o[i] \in 1..n /\ o[j] \in 1..n /\ o[i] # o[j]
        /\ snapshots[o[i]].time >= snapshots[o[j]].time
    BY <1>1
  <2>2. snapshots[o[i]].time # snapshots[o[j]].time
    BY <1>n, <2>1 DEF SameMillisecond
  <2>3. o[i] < o[j] => snapshots[o[i]].time <= snapshots[o[j]].time
    BY <1>n, <2>1 DEF InTime
  <2>4. snapshots[o[i]].time \in Nat /\ snapshots[o[j]].time \in Nat
    BY <1>n, <2>1, SnapshotsTyped
  <2> QED BY <2>1, <2>2, <2>3, <2>4
<1>3. \A i \in 1..n : o[i] = n + 1 - i
  BY <1>1, <1>2, CountDown
<1>4. Len(o) = n
  BY <1>1
<1> QED BY <1>n, <1>1, <1>3, <1>4

\* One snapshot further back, from what was said when k had been taken.
LEMMA SaidBefore ==
  ASSUME EditTyped, Chained, ~meddled, NEW k \in DOMAIN snapshots,
         NEW text \in SaidBy(k), text # Empty, text # snapshots[k].after
  PROVE  IF k = 1 THEN text = origin ELSE text \in SaidBy(k - 1)
<1>1. /\ k \in Nat /\ k >= 1 /\ k <= Len(snapshots) /\ DOMAIN snapshots = 1..Len(snapshots)
      /\ Len(snapshots) \in Nat /\ snapshots # << >>
  BY SnapshotsTyped
<1>2. snapshots[1].before = origin /\ snapshots[k].before \in SaidBy(k - 1)
  BY <1>1 DEF Chained
<1>3. PICK j \in 1..k : text \in {origin, snapshots[j].before, snapshots[j].after}
  BY <1>1 DEF SaidBy
<1>4. CASE k = 1
  BY <1>1, <1>2, <1>3, <1>4
<1>5. CASE k # 1
  <2>1. CASE j = k
    BY <1>2, <1>3, <1>5, <2>1 DEF SaidBy
  <2>2. CASE j # k
    <3>1. j \in 1..k - 1
      BY <1>1, <2>2
    <3> QED BY <1>3, <1>5, <3>1 DEF SaidBy
  <2> QED BY <2>1, <2>2
<1> QED BY <1>4, <1>5

LEMMA WalksBackStep ==
  ASSUME EditInv, [EditNext]_editVars
  PROVE  WalksBack'
<1> USE DEF EditInv
<1>1. ASSUME UNCHANGED <<snapshots, origin, meddled>>,
             revert'.pc # "idle" /\ revert'.alone /\ ~meddled /\ ~SameMillisecond =>
               /\ edit' = NoEdit /\ snapshots # << >>
               /\ \A i \in DOMAIN revert'.todo : revert'.todo[i] = Len(revert'.todo) + 1 - i
               /\ revert'.pc = "next" =>
                    IF revert'.todo = << >> THEN TextOf(file') = origin
                    ELSE TextOf(file') \in SaidBy(Len(revert'.todo))
      PROVE  WalksBack'
  BY <1>1 DEF WalksBack, SaidBy, SameMillisecond, TextOf
<1>2. CASE StartRevert
  <2>1. /\ snapshots' = snapshots /\ snapshots # << >> /\ edit' = edit /\ file' = file
        /\ origin' = origin /\ meddled' = meddled
    BY <1>2 DEF StartRevert, notes
  <2> SUFFICES ASSUME revert'.alone, ~meddled, ~SameMillisecond
               PROVE  /\ edit = NoEdit /\ revert'.todo # << >>
                      /\ \A i \in DOMAIN revert'.todo : revert'.todo[i] = Len(revert'.todo) + 1 - i
                      /\ TextOf(file) \in SaidBy(Len(revert'.todo))
    BY <1>1, <2>1
  <2>2. PICK o \in RevertOrders : revert'.todo = o /\ edit = NoEdit
    <3>1. ASSUME NEW i \in DOMAIN snapshots, NEW force \in BOOLEAN,
                 revert' = [NoRevert EXCEPT !.pc = "next", !.todo = <<i>>, !.force = force]
          PROVE  FALSE
      <4>1. revert'.alone = FALSE
        BY <3>1 DEF NoRevert
      <4> QED BY <4>1
    <3>2. ASSUME NEW o \in RevertOrders, NEW force \in BOOLEAN,
                 revert' = [NoRevert EXCEPT !.pc = "next", !.todo = o, !.force = force,
                                            !.alone = (edit = NoEdit)]
          PROVE  revert'.todo = o /\ edit = NoEdit
      <4>1. revert'.todo = o /\ revert'.alone = (edit = NoEdit)
        BY <3>2 DEF NoRevert
      <4> QED BY <4>1
    <3> QED BY <1>2, <3>1, <3>2 DEF StartRevert
  <2>3. PICK n \in Nat : n = Len(snapshots) /\ n # 0
    BY <2>1, SnapshotsTyped
  <2>4. Len(o) = n /\ DOMAIN o = 1..n /\ \A i \in 1..n : o[i] = n + 1 - i
    BY <2>3, YoungestFirst
  <2>5. o # << >>
    BY <2>3, <2>4
  <2>6. TextOf(file) \in SaidBy(n)
    BY <2>1, <2>3 DEF Chained
  <2> QED BY <2>2, <2>4, <2>5, <2>6
<1>3. CASE RevertReads
  <2> DEFINE k == Len(revert.todo)
             text == TextOf(file)
  <2>1. /\ revert.pc = "next" /\ revert.todo # << >> /\ edit' = edit /\ file' = file
        /\ UNCHANGED <<snapshots, origin, meddled>>
    BY <1>3 DEF RevertReads, notes
  <2>2. CASE Skips(text, Head(revert.todo))
    <3>1. revert' = [revert EXCEPT !.todo = Tail(@)]
      BY <1>3, <2>2 DEF RevertReads
    <3>2. revert'.pc = "next" /\ revert'.alone = revert.alone /\ revert'.todo = Tail(revert.todo)
      BY <2>1, <3>1 DEF EditTyped
    <3> SUFFICES ASSUME revert.alone, ~meddled, ~SameMillisecond
                 PROVE  /\ edit = NoEdit /\ snapshots # << >>
                        /\ \A i \in DOMAIN Tail(revert.todo) :
                             Tail(revert.todo)[i] = Len(Tail(revert.todo)) + 1 - i
                        /\ IF Tail(revert.todo) = << >> THEN text = origin
                           ELSE text \in SaidBy(Len(Tail(revert.todo)))
      BY <1>1, <2>1, <3>2
    <3>3. /\ edit = NoEdit /\ snapshots # << >> /\ text \in SaidBy(k)
          /\ \A i \in 1..k : revert.todo[i] = k + 1 - i
      BY <2>1, TodoTyped DEF WalksBack
    <3>4. /\ k \in Nat /\ k >= 1 /\ Head(revert.todo) = revert.todo[1]
          /\ Head(revert.todo) \in DOMAIN snapshots
          /\ Len(Tail(revert.todo)) = k - 1 /\ DOMAIN Tail(revert.todo) = 1..k - 1
          /\ \A i \in 1..k - 1 : Tail(revert.todo)[i] = revert.todo[i + 1]
          /\ Tail(revert.todo) \in Seq(Nat)
      BY <2>1, TodoTyped
    <3>5. Tail(revert.todo) = << >> <=> k = 1
      <4> DEFINE remaining == Tail(revert.todo)
      <4>1. remaining \in Seq(Nat) /\ Len(remaining) = k - 1 /\ k \in Nat
        BY <3>4
      <4> HIDE DEF remaining, k
      <4>2. remaining = << >> <=> k = 1
        BY <4>1, EmptySeq
      <4> QED BY <4>2 DEF remaining
    <3> HIDE DEF k, text
    <3>6. Head(revert.todo) = k
      BY <3>3, <3>4
    <3>7. text # Empty /\ text # snapshots[k].after
      BY <2>2, <3>6 DEF Skips
    <3>8. IF k = 1 THEN text = origin ELSE text \in SaidBy(k - 1)
      BY <3>3, <3>4, <3>6, <3>7, SaidBefore
    <3>9. \A i \in 1..k - 1 : Tail(revert.todo)[i] = (k - 1) + 1 - i
      BY <3>3, <3>4
    <3> QED BY <3>3, <3>4, <3>5, <3>8, <3>9
  <2>3. CASE ~Skips(text, Head(revert.todo))
    <3>1. revert' = [revert EXCEPT !.pc = "read", !.read = text]
      BY <1>3, <2>3 DEF RevertReads
    <3>2. revert'.pc = "read" /\ revert'.alone = revert.alone /\ revert'.todo = revert.todo
      BY <3>1 DEF EditTyped
    <3> QED BY <1>1, <2>1, <3>2 DEF WalksBack
  <2> QED BY <2>2, <2>3
<1>4. CASE RevertTruncates
  <2>1. /\ revert.pc = "read" /\ edit' = edit /\ UNCHANGED <<snapshots, origin, meddled>>
        /\ revert'.pc = "truncated" /\ revert'.alone = revert.alone /\ revert'.todo = revert.todo
    BY <1>4 DEF RevertTruncates, EditTyped
  <2> QED BY <1>1, <2>1 DEF WalksBack
<1>5. CASE RevertFills
  <2> DEFINE k == Len(revert.todo)
  <2>1. /\ revert.pc = "truncated" /\ revert.todo # << >> /\ edit' = edit
        /\ file' = snapshots[Head(revert.todo)].before
        /\ UNCHANGED <<snapshots, origin, meddled>>
    BY <1>5 DEF RevertFills, EditTyped, notes
  <2>2. revert'.pc = "next" /\ revert'.alone = revert.alone /\ revert'.todo = Tail(revert.todo)
    BY <1>5 DEF RevertFills, EditTyped
  <2> SUFFICES ASSUME revert.alone, ~meddled, ~SameMillisecond
               PROVE  /\ edit = NoEdit /\ snapshots # << >>
                      /\ \A i \in DOMAIN Tail(revert.todo) :
                           Tail(revert.todo)[i] = Len(Tail(revert.todo)) + 1 - i
                      /\ IF Tail(revert.todo) = << >> THEN TextOf(file') = origin
                         ELSE TextOf(file') \in SaidBy(Len(Tail(revert.todo)))
    BY <1>1, <2>1, <2>2
  <2>3. edit = NoEdit /\ snapshots # << >> /\ \A i \in 1..k : revert.todo[i] = k + 1 - i
    BY <2>1, TodoTyped DEF WalksBack
  <2>4. /\ k \in Nat /\ k >= 1 /\ Head(revert.todo) = revert.todo[1]
        /\ Head(revert.todo) \in DOMAIN snapshots
        /\ Len(Tail(revert.todo)) = k - 1 /\ DOMAIN Tail(revert.todo) = 1..k - 1
        /\ \A i \in 1..k - 1 : Tail(revert.todo)[i] = revert.todo[i + 1]
        /\ Tail(revert.todo) \in Seq(Nat)
    BY <2>1, TodoTyped
  <2>5. Tail(revert.todo) = << >> <=> k = 1
    <3> DEFINE remaining == Tail(revert.todo)
    <3>1. remaining \in Seq(Nat) /\ Len(remaining) = k - 1 /\ k \in Nat
      BY <2>4
    <3> HIDE DEF remaining, k
    <3>2. remaining = << >> <=> k = 1
      BY <3>1, EmptySeq
    <3> QED BY <3>2 DEF remaining
  <2> HIDE DEF k
  <2>6. Head(revert.todo) = k
    BY <2>3, <2>4
  <2>7. TextOf(file') = snapshots[k].before
    BY <2>1, <2>4, <2>6, TextsOfFiles, SnapshotsTyped
  <2>8. snapshots[1].before = origin /\ snapshots[k].before \in SaidBy(k - 1)
    BY <2>3, <2>4, <2>6 DEF Chained
  <2>9. \A i \in 1..k - 1 : Tail(revert.todo)[i] = (k - 1) + 1 - i
    BY <2>3, <2>4
  <2> QED BY <2>3, <2>4, <2>5, <2>7, <2>8, <2>9
<1>6. CASE RevertEnds \/ RevertFails \/ EditDies
  <2>1. revert'.pc = "idle"
    BY <1>6 DEF RevertEnds, RevertFails, EditDies, NoRevert
  <2> QED BY <2>1 DEF WalksBack
<1>12. NoEdit.pc = "idle"
  BY DEF NoEdit
<1>7. CASE EditStarts
  <2>1. revert'.alone = FALSE
    BY <1>7 DEF EditStarts, EditTyped
  <2> QED BY <2>1 DEF WalksBack
<1>8. CASE WriteSnapshot
  <2>1. edit # NoEdit /\ revert' = revert /\ (meddled => meddled')
    BY <1>8, <1>12 DEF WriteSnapshot
  <2>2. SameMillisecond => SameMillisecond'
    BY <1>8, SnapshotAppended, SnapshotsTyped DEF SameMillisecond
  <2> QED BY <2>1, <2>2 DEF WalksBack
<1>9. CASE OpenSnapshot \/ SnapshotFails \/ EditTruncates \/ EditFills \/ EditFails
  <2>1. edit # NoEdit /\ revert' = revert /\ meddled' = meddled /\ snapshots' = snapshots
    BY <1>9, <1>12 DEF OpenSnapshot, SnapshotFails, EditTruncates, EditFills, EditFails, notes
  <2> QED BY <2>1 DEF WalksBack, SameMillisecond
<1>10. CASE OtherWrites
  <2>1. revert' = revert /\ snapshots' = snapshots /\ meddled' = (meddled \/ snapshots # << >>)
    BY <1>10 DEF OtherWrites
  <2> QED BY <2>1 DEF WalksBack, SameMillisecond
<1>11. CASE UNCHANGED editVars
  BY <1>1, <1>11 DEF editVars, notes, WalksBack
<1> QED BY <1>2, <1>3, <1>4, <1>5, <1>6, <1>7, <1>8, <1>9, <1>10, <1>11
        DEF EditNext, StartEdit, StartPatch, StartWrite

(***************************************************************************)
(* The theorems                                                            *)
(***************************************************************************)
THEOREM EditInductive == EditSpec => []EditInv
<1>1. EditInv /\ [EditNext]_editVars => EditInv'
  <2> SUFFICES ASSUME EditInv, [EditNext]_editVars PROVE EditInv'
    OBVIOUS
  <2>1. EditTyped /\ EditNoted /\ ReadNoted /\ ~lost /\ Chained /\ InTime
    BY DEF EditInv
  <2> QED BY <2>1, EditTypedStep, NotedStep, ReadNotedStep, LostStep, ChainedStep, InTimeStep,
             WalksBackStep DEF EditInv
<1> QED BY <1>1, EditInitInv, PTL DEF EditSpec

(* No edit and no unforced revert destroys a text that it has read and that no *)
(* snapshot has, whatever others write at the same time (file-snapshots.ts).   *)
THEOREM TextsSurvive == EditSpec => []NothingLost
<1>1. EditInv => NothingLost
  BY DEF EditInv, NothingLost
<1> QED BY <1>1, EditInductive, PTL

(* "/revert" of a whole session, when it gets to its end, gives back the text  *)
(* from before its first edit, for any number of edits, failures, crashes and  *)
(* other reverts, if nobody else wrote the file and each snapshot has a        *)
(* millisecond of its own (revertSessionSnapshots). It does not get there once *)
(* a snapshot was left torn: reading the list throws.                          *)
THEOREM RevertGivesBack == EditSpec => []RevertRestores
<1>1. EditInv => RevertRestores
  BY DEF EditInv, WalksBack, RevertRestores
<1> QED BY <1>1, EditInductive, PTL

(* The bounds on edits: an edit that has read the file finds room for its      *)
(* snapshot, and a snapshot's time is no later than its place.                 *)
EditBounded ==
  /\ Len(snapshots) <= MaxSnapshots
  /\ edit.pc \in {"read", "opened"} => Len(snapshots) < MaxSnapshots
  /\ \A i \in DOMAIN snapshots : snapshots[i].time <= i
  /\ others \in 0..MaxOthers /\ {torn, meddled, lost} \subseteq BOOLEAN

LEMMA EditBoundedStep ==
  ASSUME EditTyped, EditBounded, [EditNext]_editVars
  PROVE  EditBounded'
<1>1. Len(snapshots) \in Nat /\ MaxSnapshots \in Nat /\ MaxOthers \in Nat
  BY SnapshotsTyped, EditAssumption
<1>2. others' \in 0..MaxOthers /\ {torn', meddled', lost'} \subseteq BOOLEAN
  <2> USE DEF EditBounded, EditNext, StartEdit, StartPatch, StartWrite, EditStarts, OpenSnapshot,
              WriteSnapshot, SnapshotFails, EditTruncates, Truncate, EditFills, EditFails, StartRevert,
              RevertReads, RevertTruncates, RevertFills, RevertEnds, RevertFails, OtherWrites,
              EditDies, editVars, notes
  <2>1. others' = others \/ (others < MaxOthers /\ others' = others + 1)
    OBVIOUS
  <2>2. meddled' = meddled \/ meddled' = (meddled \/ (TextOf(file) # edit.before))
                          \/ meddled' = (meddled \/ snapshots # << >>)
    OBVIOUS
  <2>3. meddled' \in BOOLEAN
    BY <2>2, Zenon
  <2>4. \/ lost' = lost
        \/ \E expected, forced : lost' = (lost \/ (TextOf(file) = expected /\ ~forced /\ Loses(file)))
    BY Zenon
  <2>5. lost' \in BOOLEAN
    BY <2>4, Zenon
  <2>8. torn' = torn \/ torn' = (torn \/ edit.pc = "opened")
    BY Zenon
  <2>9. torn' \in BOOLEAN
    BY <2>8, Zenon
  <2>6. others \in 0..MaxOthers
    BY DEF EditBounded
  <2> HIDE DEF EditBounded, EditNext
  <2>7. others' \in 0..MaxOthers
    <3>1. \A n \in 0..MaxOthers : n < MaxOthers => n + 1 \in 0..MaxOthers
      BY <1>1
    <3> QED BY <2>1, <2>6, <3>1
  <2> QED BY <2>3, <2>5, <2>7, <2>9
<1>3. CASE WriteSnapshot
  <2> DEFINE n == Len(snapshots)
             last == IF snapshots = << >> THEN 0 ELSE snapshots[Len(snapshots)].time
  <2>1. PICK time \in {last, last + 1} :
          snapshots' = Append(snapshots, [before |-> edit.before, after |-> edit.after, time |-> time])
    BY <1>3 DEF WriteSnapshot
  <2>2. last \in Nat /\ last <= n
    BY <1>1, SnapshotsTyped DEF EditBounded
  <2>3. /\ Len(snapshots') = n + 1 /\ DOMAIN snapshots' = 1..n + 1 /\ DOMAIN snapshots = 1..n
        /\ \A i \in DOMAIN snapshots : snapshots'[i] = snapshots[i]
    BY <1>3, SnapshotAppended, SnapshotsTyped
  <2>4. snapshots'[n + 1].time = time
    BY <2>1 DEF EditTyped
  <2>5. n < MaxSnapshots /\ edit'.pc \notin {"read", "opened"}
    BY <1>3 DEF WriteSnapshot, EditBounded, EditTyped
  <2> HIDE DEF n, last
  <2>6. n \in Nat
    BY <1>1 DEF n
  <2>7. ASSUME NEW i \in 1..n + 1  PROVE snapshots'[i].time <= i
    <3>1. CASE i = n + 1
      <4>1. time \in Nat /\ time <= n + 1
        BY <2>1, <2>2, <2>6
      <4> QED BY <2>4, <3>1, <4>1
    <3>2. CASE i # n + 1
      <4>1. i \in 1..n
        BY <2>6, <3>2
      <4> QED BY <2>3, <4>1 DEF EditBounded
    <3> QED BY <3>1, <3>2
  <2> QED BY <1>1, <1>2, <2>3, <2>5, <2>6, <2>7 DEF EditBounded
<1>4. CASE snapshots' = snapshots
  <2>1. \/ EditStarts \/ OpenSnapshot \/ edit' = edit \/ edit' = NoEdit
        \/ edit' \in {[edit EXCEPT !.pc = "snapshot"], [edit EXCEPT !.pc = "truncated"]}
    BY DEF EditNext, StartEdit, StartPatch, StartWrite, WriteSnapshot, SnapshotFails, EditTruncates,
           EditFills, EditFails, StartRevert, RevertReads, RevertTruncates, RevertFills, RevertEnds,
           RevertFails, OtherWrites, EditDies, editVars
  <2>2. edit'.pc \in {"read", "opened"} => EditStarts \/ OpenSnapshot \/ edit' = edit
    BY <2>1 DEF EditTyped, NoEdit
  <2>3. edit'.pc \in {"read", "opened"} => Len(snapshots) < MaxSnapshots
    BY <2>2 DEF EditBounded, EditStarts, OpenSnapshot
  <2> QED BY <1>2, <1>4, <2>3 DEF EditBounded
<1> QED BY <1>3, <1>4, SnapshotsStay

(* What edits and reverts keep has its type, and stays within the bounds.      *)
THEOREM EditTypeCorrect == EditSpec => []EditTypeOK
<1>1. EditInit => EditBounded
  <2>1. EditInit => /\ Len(snapshots) = 0 /\ DOMAIN snapshots = {} /\ edit.pc = "idle"
                    /\ others = 0 /\ torn = FALSE /\ meddled = FALSE /\ lost = FALSE
    BY DEF EditInit, NoEdit
  <2>2. 0 <= MaxSnapshots /\ 0 \in 0..MaxOthers
    BY EditAssumption
  <2> QED BY <2>1, <2>2 DEF EditBounded
<1>2. EditInv /\ EditBounded /\ [EditNext]_editVars => EditBounded'
  BY EditBoundedStep DEF EditInv
<1>3. EditInv /\ EditBounded => EditTypeOK
  <2> SUFFICES ASSUME EditTyped, EditBounded  PROVE EditTypeOK
    BY DEF EditInv
  <2>1. snapshots \in Seq(Snapshot)
    <3>1. /\ Len(snapshots) \in Nat /\ DOMAIN snapshots = 1..Len(snapshots)
          /\ \A i \in 1..Len(snapshots) : snapshots[i].time \in Nat /\ snapshots[i].time <= i
      BY SnapshotsTyped DEF EditBounded
    <3>2. \A i \in 1..Len(snapshots) : snapshots[i] \in [before : FileTexts, after : FileTexts, time : Nat]
      BY <3>1, ElementOfSeq DEF EditTyped
    <3>3. \A i \in 1..Len(snapshots) : snapshots[i].time \in 0..MaxSnapshots
      BY <3>1, EditAssumption DEF EditBounded
    <3>4. \A i \in 1..Len(snapshots) : snapshots[i] \in Snapshot
      BY <3>2, <3>3 DEF Snapshot
    <3> QED BY <3>1, <3>4, SeqDef DEF EditTyped
  <2>2. revert.todo \in Seq(DOMAIN snapshots)
    BY TodoTyped, SeqDef DEF EditTyped
  <2> QED BY <2>1, <2>2 DEF EditTyped, EditBounded, EditTypeOK
<1> QED BY <1>1, <1>2, <1>3, EditInductive, EditInitInv, PTL DEF EditSpec

(***************************************************************************)
(* Importing skills and installing bundles: the invariant                  *)
(***************************************************************************)
\* A file that is being copied is torn until the copy ends: nobody else writes it.
CopyInTurn == install.at # Nothing => disk[install.at] = "torn"

PartSlot(c) == <<<<Install, c>>, "rest">>
PartTask(c) == [slot |-> PartSlot(c), existing |-> "skip"]

\* Only installations write the other components; one is torn while it is copied, or for ever
\* after a crash.
PartsOurs ==
  \A c \in Parts : /\ disk[PartSlot(c)] # "user"
                   /\ disk[PartSlot(c)] = "torn" => crashed \/ install.at = PartSlot(c)

\* What counts as copied is there or still to be copied.
CopiedOrToCome ==
  install.pc \in {"parts", "read", "write", "fill"} =>
    /\ install.todo \subseteq {PartTask(c) : c \in Parts}
    /\ \A c \in install.copied : Exists(PartSlot(c)) \/ PartTask(c) \in install.todo
    /\ install.pc # "parts" => install.at = Nothing /\ install.todo = {}

\* While skills are copied no component is.
NoneYet == install.pc \in {"idle", "copy"} => install.copied = {}

SkillInv == SkillTypeOK /\ CopyInTurn /\ PartsOurs /\ CopiedOrToCome /\ NoneYet

(***************************************************************************)
(* Lemmas                                                                  *)
(***************************************************************************)
LEMMA SlotsTyped ==
  /\ \A c \in Parts : PartSlot(c) \in Slots /\ PartSlot(c) # Nothing /\ PartTask(c) \in Task
  /\ \A d \in Dirs : SkillFile(d) \in Slots /\ \A c \in Parts : SkillFile(d) # PartSlot(c)
  /\ \A s \in Slots : s[1] \in Dirs \cup PartDirs /\ (s[2] = "SKILL.md" => s[1] \in Dirs)
  /\ \A d \in Dirs, c \in Parts : PartSlot(c) \notin RemovedWith(d)
  /\ \A d \in Dirs, c \in Parts : d # PartSlot(c)[1]
<1>1. \A c \in Parts : PartSlot(c) \in Slots /\ PartSlot(c)[1] = <<Install, c>>
  BY DEF PartSlot, Slots, PartDirs
<1>2. \A c \in Parts : PartTask(c) \in Task
  BY <1>1 DEF PartTask, Task
<1>3. \A d \in Dirs : d[1] \in Paths /\ d[1] # Install
  BY SkillAssumption DEF Dirs
<1>4. \A d \in Dirs, c \in Parts : d # PartSlot(c)[1]
  BY <1>1, <1>3
<1>5. \A d \in Dirs : SkillFile(d) \in Slots /\ SkillFile(d)[1] = d
  BY DEF SkillFile, Slots
<1>6. \A s \in Slots : s[1] \in Dirs \cup PartDirs /\ (s[2] = "SKILL.md" => s[1] \in Dirs)
  BY DEF Slots, Dirs
<1>7. \A d \in Dirs, c \in Parts : PartSlot(c) \notin RemovedWith(d)
  BY <1>1, <1>3, <1>4, <1>5 DEF RemovedWith, SlotsOf
<1> QED BY <1>1, <1>2, <1>4, <1>5, <1>6, <1>7, SkillAssumption

LEMMA TasksTyped == \A d : TasksFor(d) \in SUBSET Task
BY DEF TasksFor, SlotsOf, Task

\* The two kinds of start.
LEMMA InstallStarted ==
  ASSUME NEW kind \in {"import", "bundle"}, NEW path, InstallStarts(kind, path)
  PROVE  /\ install'.pc = "copy" /\ install'.copied = {} /\ install'.at = Nothing
         /\ UNCHANGED <<disk, adding, registry, kept, crashed>>
         /\ SkillTypeOK => SkillTypeOK'
<1> DEFINE todo == UNION {TasksFor(d) : d \in Targets(path)}
<1>1. todo \in SUBSET Task
  BY TasksTyped
<1>2. install' = [NoInstall EXCEPT !.pc = "copy", !.kind = kind, !.todo = todo]
  BY DEF InstallStarts
<1> HIDE DEF todo
<1> QED BY <1>1, <1>2 DEF InstallStarts, NoInstall, SkillTypeOK

(***************************************************************************)
(* Every step keeps the invariant                                          *)
(***************************************************************************)
LEMMA SkillInitInv == SkillInit => SkillInv
<1> SUFFICES ASSUME SkillInit PROVE SkillInv
  OBVIOUS
<1>1. SkillTypeOK
  BY DEF SkillInit, SkillTypeOK, NoInstall
<1>2. \A c \in Parts : disk[PartSlot(c)] \notin Written
  BY SlotsTyped, SkillAssumption DEF SkillInit
<1>3. install.pc = "idle" /\ install.at = Nothing /\ install.copied = {}
  BY DEF SkillInit, NoInstall
<1> QED BY <1>1, <1>2, <1>3 DEF SkillInv, CopyInTurn, PartsOurs, CopiedOrToCome, NoneYet, Written

LEMMA SkillTypeStep ==
  ASSUME SkillTypeOK, [SkillNext]_skillVars
  PROVE  SkillTypeOK'
<1> USE SlotsTyped
<1>1. ASSUME NEW kind \in {"import", "bundle"}, NEW path, InstallStarts(kind, path)
      PROVE  SkillTypeOK'
  BY <1>1, InstallStarted
<1>2. CASE CopyBegins
  <2>1. PICK t \in NextTasks :
          \/ /\ UNCHANGED disk
             /\ install' = [install EXCEPT !.dir = t.slot[1],
                  !.todo = IF t.existing = "skip" THEN @ \ {t} ELSE TasksLeftBy(t)]
          \/ /\ install' = [install EXCEPT !.dir = t.slot[1], !.at = t.slot, !.todo = @ \ {t}]
             /\ disk' = [disk EXCEPT ![t.slot] = "torn"]
    BY <1>2 DEF CopyBegins
  <2>2. t.slot \in Slots /\ t.slot[1] \in Dirs \cup PartDirs
    BY DEF NextTasks, SkillTypeOK, Task
  <2>3. TasksLeftBy(t) \subseteq install.todo
    BY DEF TasksLeftBy
  <2>4. install.todo \ {t} \subseteq Task /\ TasksLeftBy(t) \subseteq Task
    BY <2>3 DEF SkillTypeOK
  <2> QED BY <1>2, <2>1, <2>2, <2>4 DEF CopyBegins, SkillTypeOK, Written
<1>3. CASE CopyDone
  BY <1>3 DEF CopyDone, SkillTypeOK, Written
<1>4. CASE CopyFails
  BY <1>4 DEF CopyFails, SkillTypeOK
<1>5. CASE SkillsCopied
  <2>1. {[slot |-> <<d, "rest">>, existing |-> "skip"] : d \in PartDirs} \subseteq Task
    BY DEF Task, Slots
  <2> QED BY <1>5, <2>1 DEF SkillsCopied, SkillTypeOK, NoInstall
<1>6. CASE PartsCopied
  BY <1>6 DEF PartsCopied, SkillTypeOK
<1>7. CASE ReadRegistry
  <2>1. CASE registry = Malformed
    BY <1>7, <2>1 DEF ReadRegistry, SkillTypeOK, NoInstall
  <2>2. CASE registry # Malformed
    <3>1. registry \in SUBSET Bundles
      BY <2>2 DEF SkillTypeOK
    <3> QED BY <1>7, <2>2, <3>1 DEF ReadRegistry, SkillTypeOK
  <2> QED BY <2>1, <2>2
<1>8. CASE TruncateRegistry
  <2>1. registry' \in (SUBSET Bundles) \cup {Malformed}
    BY <1>8 DEF TruncateRegistry
  <2>2. UNCHANGED <<disk, adding, kept, crashed>> /\ install' = [install EXCEPT !.pc = "fill"]
    BY <1>8 DEF TruncateRegistry
  <2> QED BY <2>1, <2>2 DEF SkillTypeOK
<1>9. CASE FillRegistry
  BY <1>9 DEF FillRegistry, SkillTypeOK, NoInstall, Bundles
<1>10. CASE OtherRegisters
  BY <1>10 DEF OtherRegisters, SkillTypeOK, Bundles
<1>11. CASE InstallDies
  BY <1>11 DEF InstallDies, SkillTypeOK, NoInstall
<1>12. ASSUME NEW d \in Dirs, AddChecks(d) PROVE SkillTypeOK'
  BY <1>12 DEF AddChecks, SkillTypeOK
<1>13. ASSUME NEW d \in Dirs, RemoveSkill(d) PROVE SkillTypeOK'
  BY <1>13 DEF RemoveSkill, SkillTypeOK
<1>14. CASE AddWrites
  BY <1>14 DEF AddWrites, SkillTypeOK, Written
<1>15. ASSUME NEW s \in Slots, UserWrites(s) PROVE SkillTypeOK'
  BY <1>15 DEF UserWrites, SkillTypeOK, Written
<1>16. CASE UNCHANGED skillVars
  BY <1>16 DEF skillVars, SkillTypeOK
<1> QED BY <1>1, <1>2, <1>3, <1>4, <1>5, <1>6, <1>7, <1>8, <1>9, <1>10, <1>11, <1>12, <1>13,
           <1>14, <1>15, <1>16
        DEF SkillNext, StartImport, StartBundle, WizardImports, WizardInstalls

\* One step of whoever is not copying leaves the file that is being copied, and the other
\* components, as they are.
LEMMA OthersKeepClear ==
  ASSUME SkillTypeOK,
         \/ \E d \in Dirs : AddChecks(d) \/ RemoveSkill(d)
         \/ AddWrites
         \/ \E s \in Slots : UserWrites(s)
  PROVE  /\ install' = install /\ crashed' = crashed
         /\ install.at \in Slots => disk'[install.at] = disk[install.at]
         /\ \A c \in Parts : disk'[PartSlot(c)] = disk[PartSlot(c)]
<1> USE SlotsTyped DEF SkillTypeOK
<1>1. ASSUME NEW d \in Dirs, AddChecks(d)
      PROVE  disk' = disk /\ install' = install /\ crashed' = crashed
  BY <1>1 DEF AddChecks
<1>2. ASSUME NEW d \in Dirs, RemoveSkill(d)
      PROVE  /\ install' = install /\ crashed' = crashed
             /\ \A s \in Slots : s \notin RemovedWith(d) => disk'[s] = disk[s]
             /\ install.at \notin RemovedWith(d)
  BY <1>2 DEF RemoveSkill
<1>3. ASSUME AddWrites
      PROVE  /\ install' = install /\ crashed' = crashed /\ adding \in Dirs
             /\ \A s \in Slots : s # SkillFile(adding) => disk'[s] = disk[s]
             /\ install.at # SkillFile(adding)
  BY <1>3 DEF AddWrites
<1>4. ASSUME NEW t \in Slots, UserWrites(t)
      PROVE  /\ install' = install /\ crashed' = crashed /\ t[1] \in Dirs /\ t # install.at
             /\ \A s \in Slots : s # t => disk'[s] = disk[s]
  BY <1>4 DEF UserWrites
<1> QED BY <1>1, <1>2, <1>3, <1>4

\* What the steps of an import or installation do, one for the three parts of the invariant.
LEMMA CopyBeginsStep ==
  ASSUME SkillInv, CopyBegins
  PROVE  /\ CopyInTurn' /\ PartsOurs' /\ CopiedOrToCome' /\ NoneYet'
         /\ \A s \in Slots : Exists(s) => disk'[s] = disk[s]
<1> USE SlotsTyped DEF SkillInv
<1>1. PICK t \in NextTasks :
        IF Exists(t.slot)
          THEN /\ UNCHANGED disk
               /\ install' = [install EXCEPT !.dir = t.slot[1],
                    !.todo = IF t.existing = "skip" THEN @ \ {t} ELSE TasksLeftBy(t)]
          ELSE /\ install' = [install EXCEPT !.dir = t.slot[1], !.at = t.slot, !.todo = @ \ {t}]
               /\ disk' = [disk EXCEPT ![t.slot] = "torn"]
  BY DEF CopyBegins
<1>2. t \in install.todo /\ t \in Task /\ t.slot \in Slots
  BY DEF NextTasks, SkillTypeOK, Task
<1>3. /\ install.pc \in {"copy", "parts"} /\ install.at = Nothing /\ crashed' = crashed
      /\ install'.pc = install.pc /\ install'.copied = install.copied
  BY <1>1 DEF CopyBegins, SkillTypeOK
<1>4. install.pc = "parts" => t.existing = "skip" /\ \E c \in Parts : t = PartTask(c)
  BY <1>2 DEF CopiedOrToCome, PartTask
<1>5. NoneYet'
  BY <1>3 DEF NoneYet
<1>6. CASE Exists(t.slot)
  <2>1. /\ disk' = disk /\ install'.at = Nothing
        /\ install.pc = "parts" => install'.todo = install.todo \ {t}
    BY <1>1, <1>3, <1>4, <1>6 DEF SkillTypeOK
  <2>2. CopyInTurn' /\ PartsOurs'
    BY <1>3, <2>1 DEF CopyInTurn, PartsOurs
  <2>3. CopiedOrToCome'
    BY <1>3, <1>6, <2>1 DEF CopiedOrToCome, Exists, PartTask
  <2> QED BY <1>5, <2>1, <2>2, <2>3
<1>7. CASE ~Exists(t.slot)
  <2>1. /\ install'.at = t.slot /\ install'.todo = install.todo \ {t} /\ disk'[t.slot] = "torn"
        /\ \A s \in Slots : s # t.slot => disk'[s] = disk[s]
    BY <1>1, <1>2, <1>7 DEF SkillTypeOK
  <2>2. CopyInTurn' /\ PartsOurs'
    BY <1>3, <2>1 DEF CopyInTurn, PartsOurs
  <2>3. "torn" # Nothing
    BY SkillAssumption DEF Written
  <2>4. CopiedOrToCome'
    <3> SUFFICES ASSUME install.pc = "parts"
                 PROVE  /\ install'.todo \subseteq {PartTask(c) : c \in Parts}
                        /\ \A c \in install.copied :
                             disk'[PartSlot(c)] # Nothing \/ PartTask(c) \in install'.todo
      BY <1>3 DEF CopiedOrToCome, Exists, PartTask
    <3>1. install'.todo \subseteq {PartTask(c) : c \in Parts}
      BY <2>1 DEF CopiedOrToCome
    <3>2. ASSUME NEW c \in install.copied
          PROVE  disk'[PartSlot(c)] # Nothing \/ PartTask(c) \in install'.todo
      <4>1. c \in Parts /\ (Exists(PartSlot(c)) \/ PartTask(c) \in install.todo)
        BY DEF CopiedOrToCome, SkillTypeOK
      <4>2. PartTask(c) = t => disk'[PartSlot(c)] # Nothing
        BY <2>1, <2>3 DEF PartTask
      <4>3. PartTask(c) # t /\ PartTask(c) \in install.todo => PartTask(c) \in install'.todo
        BY <2>1
      <4>4. Exists(PartSlot(c)) => disk'[PartSlot(c)] # Nothing
        BY <2>1, <2>3, <4>1 DEF Exists
      <4> QED BY <4>1, <4>2, <4>3, <4>4
    <3> QED BY <3>1, <3>2
  <2>5. \A s \in Slots : Exists(s) => disk'[s] = disk[s]
    BY <1>7, <2>1 DEF Exists
  <2> QED BY <1>5, <2>2, <2>4, <2>5
<1> QED BY <1>6, <1>7

LEMMA CopyDoneStep ==
  ASSUME SkillInv, CopyDone
  PROVE  /\ CopyInTurn' /\ PartsOurs' /\ CopiedOrToCome' /\ NoneYet'
         /\ \A s \in Slots : s # install.at => disk'[s] = disk[s]
<1> USE SlotsTyped DEF SkillInv
<1>1. /\ install.at \in Slots /\ disk'[install.at] = "bundle" /\ crashed' = crashed
      /\ \A s \in Slots : s # install.at => disk'[s] = disk[s]
  BY DEF CopyDone, SkillTypeOK
<1>2. /\ install'.pc = install.pc /\ install'.at = Nothing /\ install'.todo = install.todo
      /\ install'.copied = install.copied
  BY DEF CopyDone, SkillTypeOK
<1>3. "bundle" # Nothing
  BY SkillAssumption DEF Written
<1>4. PartsOurs'
  BY <1>1, <1>2 DEF PartsOurs
<1>5. CopiedOrToCome'
  BY <1>1, <1>2, <1>3 DEF CopiedOrToCome, Exists, PartTask, CopyDone
<1> QED BY <1>1, <1>2, <1>4, <1>5 DEF CopyInTurn, NoneYet

LEMMA CopyFailsStep ==
  ASSUME SkillInv, CopyFails
  PROVE  /\ CopyInTurn' /\ PartsOurs' /\ CopiedOrToCome' /\ NoneYet'
         /\ \A s \in Slots : s # install.at => disk'[s] = disk[s]
<1> USE SlotsTyped DEF SkillInv
<1>1. /\ install.at \in Slots /\ disk'[install.at] = Nothing /\ crashed' = crashed
      /\ \A s \in Slots : s # install.at => disk'[s] = disk[s]
  BY DEF CopyFails, SkillTypeOK
<1>2. /\ install'.pc = install.pc /\ install'.at = Nothing
      /\ install'.todo = {u \in install.todo : u.slot[1] # install.at[1]}
      /\ install'.copied = install.copied \ {install.at[1][2]}
  BY DEF CopyFails, SkillTypeOK
<1>3. Nothing \notin Written
  BY SkillAssumption
<1>4. PartsOurs'
  BY <1>1, <1>2, <1>3 DEF PartsOurs, Written
<1>5. CopiedOrToCome'
  <2> SUFFICES ASSUME install.pc \in {"parts", "read", "write", "fill"}
               PROVE  /\ install'.todo \subseteq {PartTask(c) : c \in Parts}
                      /\ \A c \in install'.copied :
                           disk'[PartSlot(c)] # Nothing \/ PartTask(c) \in install'.todo
                      /\ install.pc = "parts"
    BY <1>2 DEF CopiedOrToCome, PartTask, Exists
  <2>1. install.pc = "parts"
    BY DEF CopiedOrToCome, CopyFails
  <2>2. ASSUME NEW c \in install'.copied
        PROVE  disk'[PartSlot(c)] # Nothing \/ PartTask(c) \in install'.todo
    <3>1. c \in install.copied /\ c \in Parts /\ c # install.at[1][2]
      BY <1>2, <2>2 DEF SkillTypeOK
    <3>2. /\ PartTask(c).slot[1] = <<Install, c>> /\ PartSlot(c)[1][2] = c
          /\ <<Install, c>>[2] = c
      BY DEF PartTask, PartSlot
    <3>3. PartSlot(c) # install.at /\ PartTask(c).slot[1] # install.at[1]
      BY <3>1, <3>2
    <3>4. disk[PartSlot(c)] # Nothing \/ PartTask(c) \in install.todo
      BY <3>1 DEF CopiedOrToCome, Exists
    <3> QED BY <1>1, <1>2, <3>1, <3>3, <3>4
  <2> QED BY <1>2, <2>1, <2>2 DEF CopiedOrToCome
<1> QED BY <1>1, <1>2, <1>4, <1>5 DEF CopyInTurn, NoneYet

LEMMA SkillStep ==
  ASSUME SkillInv, [SkillNext]_skillVars
  PROVE  SkillInv'
<1> SUFFICES CopyInTurn' /\ PartsOurs' /\ CopiedOrToCome' /\ NoneYet'
  BY SkillTypeStep DEF SkillInv
<1> USE SlotsTyped DEF SkillInv
<1>1. ASSUME NEW kind \in {"import", "bundle"}, NEW path, InstallStarts(kind, path)
      PROVE  CopyInTurn' /\ PartsOurs' /\ CopiedOrToCome' /\ NoneYet'
  <2>1. /\ install'.pc = "copy" /\ install'.copied = {} /\ install'.at = Nothing
        /\ UNCHANGED <<disk, crashed>>
    BY <1>1, InstallStarted
  <2>2. install.at = Nothing
    BY <1>1 DEF InstallStarts, NoInstall
  <2> QED BY <2>1, <2>2 DEF CopyInTurn, PartsOurs, CopiedOrToCome, NoneYet
<1>2. CASE CopyBegins
  BY <1>2, CopyBeginsStep
<1>3. CASE CopyDone
  BY <1>3, CopyDoneStep
<1>4. CASE CopyFails
  BY <1>4, CopyFailsStep
<1>5. CASE SkillsCopied
  <2>1. install.at = Nothing /\ UNCHANGED <<disk, crashed>>
    BY <1>5 DEF SkillsCopied
  <2>2. CASE install.kind = "import"
    <3>1. install'.pc = "idle" /\ install'.at = Nothing /\ install'.copied = {}
      BY <1>5, <2>2 DEF SkillsCopied, NoInstall
    <3> QED BY <2>1, <3>1 DEF CopyInTurn, PartsOurs, CopiedOrToCome, NoneYet
  <2>3. CASE install.kind # "import"
    <3>1. /\ install'.pc = "parts" /\ install'.at = Nothing /\ install'.copied = Parts
          /\ install'.todo = {[slot |-> <<d, "rest">>, existing |-> "skip"] : d \in PartDirs}
      BY <1>5, <2>1, <2>3 DEF SkillsCopied, SkillTypeOK
    <3>2. install'.todo = {PartTask(c) : c \in Parts}
      BY <3>1 DEF PartDirs, PartTask, PartSlot
    <3> QED BY <2>1, <3>1, <3>2 DEF CopyInTurn, PartsOurs, CopiedOrToCome, NoneYet, PartTask
  <2> QED BY <2>2, <2>3
<1>6. CASE PartsCopied
  <2>1. /\ install.at = Nothing /\ install.todo = {} /\ install.pc = "parts"
        /\ install'.at = Nothing /\ install'.todo = {} /\ install'.pc = "read"
        /\ install'.copied = install.copied /\ UNCHANGED <<disk, crashed>>
    BY <1>6 DEF PartsCopied, SkillTypeOK
  <2> QED BY <2>1 DEF CopyInTurn, PartsOurs, CopiedOrToCome, NoneYet, Exists, PartTask
<1>7. ASSUME install.pc \in {"read", "write", "fill"}, install'.pc \in {"write", "fill"},
             UNCHANGED <<disk, crashed>>,
             install'.at = install.at, install'.todo = install.todo, install'.copied = install.copied
      PROVE  CopyInTurn' /\ PartsOurs' /\ CopiedOrToCome' /\ NoneYet'
  BY <1>7 DEF CopyInTurn, PartsOurs, CopiedOrToCome, NoneYet, Exists, PartTask
<1>8. ASSUME install' = NoInstall, disk' = disk, crashed => crashed', install.at # Nothing => crashed'
      PROVE  CopyInTurn' /\ PartsOurs' /\ CopiedOrToCome' /\ NoneYet'
  <2>1. install'.pc = "idle" /\ install'.at = Nothing /\ install'.copied = {}
    BY <1>8 DEF NoInstall
  <2> QED BY <1>8, <2>1 DEF CopyInTurn, PartsOurs, CopiedOrToCome, NoneYet
<1>9. CASE ReadRegistry
  <2>1. install.pc = "read" /\ UNCHANGED <<disk, crashed>> /\ install.at = Nothing
    BY <1>9 DEF ReadRegistry, CopiedOrToCome
  <2>2. CASE registry = Malformed
    BY <1>8, <1>9, <2>1, <2>2 DEF ReadRegistry
  <2>3. CASE registry # Malformed
    <3>1. /\ install'.pc = "write" /\ install'.at = install.at /\ install'.todo = install.todo
          /\ install'.copied = install.copied
      BY <1>9, <2>3 DEF ReadRegistry, SkillTypeOK
    <3> QED BY <1>7, <2>1, <3>1
  <2> QED BY <2>2, <2>3
<1>10. CASE TruncateRegistry
  <2>1. /\ install.pc = "write" /\ UNCHANGED <<disk, crashed>>
        /\ install'.pc = "fill" /\ install'.at = install.at /\ install'.todo = install.todo
        /\ install'.copied = install.copied
    BY <1>10 DEF TruncateRegistry, SkillTypeOK
  <2> QED BY <1>7, <2>1
<1>11. CASE FillRegistry
  <2>1. install.at = Nothing
    BY <1>11 DEF FillRegistry, CopiedOrToCome
  <2> QED BY <1>8, <1>11, <2>1 DEF FillRegistry
<1>12. CASE InstallDies
  BY <1>8, <1>12 DEF InstallDies
<1>13. CASE OtherRegisters \/ UNCHANGED skillVars
  BY <1>13 DEF OtherRegisters, skillVars, CopyInTurn, PartsOurs, CopiedOrToCome, NoneYet, Exists,
               PartTask
<1>14. ASSUME \/ \E d \in Dirs : AddChecks(d) \/ RemoveSkill(d)
              \/ AddWrites
              \/ \E s \in Slots : UserWrites(s)
       PROVE  CopyInTurn' /\ PartsOurs' /\ CopiedOrToCome' /\ NoneYet'
  <2>1. /\ install' = install /\ crashed' = crashed
        /\ install.at \in Slots => disk'[install.at] = disk[install.at]
        /\ \A c \in Parts : disk'[PartSlot(c)] = disk[PartSlot(c)]
    BY <1>14, OthersKeepClear
  <2>2. install.at # Nothing => install.at \in Slots
    BY DEF SkillTypeOK
  <2>3. install.copied \subseteq Parts
    BY DEF SkillTypeOK
  <2> QED BY <2>1, <2>2, <2>3 DEF CopyInTurn, PartsOurs, CopiedOrToCome, NoneYet, Exists, PartTask
<1> QED BY <1>1, <1>2, <1>3, <1>4, <1>5, <1>6, <1>9, <1>10, <1>11, <1>12, <1>13, <1>14
        DEF SkillNext, StartImport, StartBundle, WizardImports, WizardInstalls

(***************************************************************************)
(* The theorems                                                            *)
(***************************************************************************)
THEOREM SkillInductive == SkillSpec => []SkillInv
<1>1. SkillInv /\ [SkillNext]_skillVars => SkillInv'
  BY SkillStep
<1> QED BY <1>1, SkillInitInv, PTL DEF SkillSpec

(* What an installation keeps, the files and the registry have their types.    *)
THEOREM SkillTypeCorrect == SkillSpec => []SkillTypeOK
BY SkillInductive, PTL DEF SkillInv

(* A component that the registry is about to list as copied is on disk, and    *)
(* whole unless a process died in a copy (installSkillsBundle).                *)
THEOREM RegistryIsTrue == SkillSpec => []CopiedIsThere
<1>1. SkillInv => CopiedIsThere
  <2> SUFFICES ASSUME SkillInv, install.pc \in {"read", "write", "fill"}, NEW c \in install.copied
               PROVE  disk[<<<<Install, c>>, "rest">>] \in
                        (IF crashed THEN {"torn", "bundle"} ELSE {"bundle"})
    BY DEF CopiedIsThere
  <2> USE DEF SkillInv
  <2>1. c \in Parts /\ disk[PartSlot(c)] \in Written \cup {Nothing}
    BY SlotsTyped DEF SkillTypeOK
  <2>2. Exists(PartSlot(c)) /\ install.at = Nothing
    BY DEF CopiedOrToCome
  <2>3. disk[PartSlot(c)] \in {"torn", "bundle"} /\ (disk[PartSlot(c)] = "torn" => crashed)
    BY <2>1, <2>2, SlotsTyped DEF PartsOurs, Written, Exists
  <2> QED BY <2>3 DEF PartSlot
<1> QED BY <1>1, SkillInductive, PTL

(* No step of an import or installation changes a file that was there, for any *)
(* skills and components, whatever the user and other commands write between   *)
(* its scan and its copies (COPYFILE_EXCL).                                    *)
THEOREM ImportIsAdditive == SkillSpec => ImportKeepsFiles
<1>1. SkillInv /\ [SkillNext]_skillVars =>
        [install' # install =>
           \A s \in Slots : disk[s] \in {"bundle", "user"} => disk'[s] = disk[s]]_skillVars
  <2> SUFFICES ASSUME SkillInv, [SkillNext]_skillVars, install' # install,
                      NEW s \in Slots, disk[s] \in {"bundle", "user"}
               PROVE  disk'[s] = disk[s]
    OBVIOUS
  <2>1. Exists(s)
    BY SkillAssumption DEF Exists, Written
  <2>2. ASSUME CopyDone \/ CopyFails PROVE disk'[s] = disk[s]
    <3>1. s # install.at
      BY <2>2 DEF CopyDone, CopyFails, SkillInv, CopyInTurn
    <3> QED BY <2>2, <3>1, CopyDoneStep, CopyFailsStep
  <2>3. ASSUME \/ \E d \in Dirs : AddChecks(d) \/ RemoveSkill(d)
               \/ AddWrites
               \/ \E t \in Slots : UserWrites(t)
        PROVE  FALSE
    BY <2>3, OthersKeepClear DEF SkillInv
  <2> QED BY <2>1, <2>2, <2>3, CopyBeginsStep
          DEF SkillNext, StartImport, StartBundle, WizardImports, WizardInstalls, InstallStarts,
              SkillsCopied, PartsCopied, ReadRegistry, TruncateRegistry, FillRegistry,
              OtherRegisters, InstallDies, skillVars
<1> QED BY <1>1, SkillInductive, PTL DEF SkillSpec, ImportKeepsFiles

(***************************************************************************)
(* Diffs: the invariant                                                    *)
(***************************************************************************)
\* The lines the diff changes, and the hunk of each.
Altered == {i \in DOMAIN basis : changes[i][1] # "keep"}
HunkOf(i) == [start |-> i, body |-> HunkBody(basis[i], changes[i])]

\* These are the hunks of the changed lines after m and up to n, in their order.
HunksOf(list, m, n) ==
  /\ list \in Seq(Hunk)
  /\ \A k \in DOMAIN list : list[k].start \in Altered /\ m < list[k].start /\ list[k].start <= n
  /\ \A k \in DOMAIN list : list[k] = HunkOf(list[k].start)
  /\ \A j, k \in DOMAIN list : j < k => list[j].start < list[k].start
  /\ \A i \in Altered : m < i /\ i <= n => \E k \in DOMAIN list : list[k].start = i

\* The text is as long as the one described of the first n lines, and that one if the diff was
\* made of what it is applied to.
Reaches(text, n) ==
  /\ text \in Seq(Lines) /\ n \in 0..Len(basis) /\ n <= Len(source)
  /\ Len(text) = Len(Described[n].text)
  /\ source = basis => text = Described[n].text

PlusLine == {"+"} \X Lines
Added(list) == [i \in DOMAIN list |-> list[i][2]]

BetweenHunks == status = "hunk" => HunksOf(hunks, next - 1, Len(basis)) /\ Reaches(output, next - 1)

\* In a hunk either its first line is to come, which the source may not have, or only lines to add.
InHunk ==
  status = "body" =>
    \/ /\ next \in Altered /\ rest = HunkBody(basis[next], changes[next])
       /\ HunksOf(hunks, next, Len(basis))
       /\ next - 1 <= Len(source) => Reaches(output, next - 1)
    \/ /\ rest \in Seq(PlusLine)
       /\ HunksOf(hunks, next - 1, Len(basis)) /\ Reaches(output \o Added(rest), next - 1)

Ends ==
  /\ status = "mismatch" => source # basis
  /\ status = "done" => /\ Len(output) - Len(source) = Len(Changed) - Len(basis)
                        /\ source = basis => output = Changed

PatchInv == PatchTypeOK /\ BetweenHunks /\ InHunk /\ Ends

(***************************************************************************)
(* Lemmas on diffs                                                         *)
(***************************************************************************)
\* What holds of no line, and of one more than each it holds of, holds of all.
LEMMA LineByLine ==
  ASSUME NEW G, 0 \in G, \A n \in Nat : n \in G => n + 1 \in G
  PROVE  Nat \subseteq G
<1> DEFINE T == Nat \ G
<1>1. SUFFICES ASSUME T # {} PROVE FALSE
  OBVIOUS
<1>2. PICK x \in T : \A y \in T : ~(<<y, x>> \in OpToRel(<, Nat))
  <2> HIDE DEF T
  <2>1. T \subseteq Nat
    BY DEF T
  <2> QED
    BY <1>1, <2>1, NatLessThanWellFounded, WFMin
<1>3. x \in Nat /\ x # 0 /\ x - 1 \in Nat /\ x - 1 + 1 = x /\ x - 1 < x
  OBVIOUS
<1>4. x - 1 \in T
  BY <1>3
<1>5. <<x - 1, x>> \in OpToRel(<, Nat)
  BY <1>3 DEF OpToRel
<1> QED
  BY <1>2, <1>4, <1>5

\* What one more line adds to what was described.
FirstLine == [text |-> << >>, hunks |-> << >>]
OneMore(before, n) ==
  [text |-> before.text \o ChangeLine(basis[n], changes[n]),
   hunks |-> IF changes[n][1] = "keep" THEN before.hunks
             ELSE Append(before.hunks, [start |-> n, body |-> HunkBody(basis[n], changes[n])])]

\* The definition of Described has a solution: the lines can be described one by one.
LEMMA DescribedIs ==
  ASSUME Len(basis) \in Nat
  PROVE  /\ Described[0] = FirstLine
         /\ \A n \in 1..Len(basis) : Described[n] = OneMore(Described[n - 1], n)
<1> DEFINE Solves(h, m) == h = [n \in 0..m |-> IF n = 0 THEN FirstLine ELSE OneMore(h[n - 1], n)]
           G == {m \in Nat : \E f : Solves(f, m)}
<1>1. 0 \in G
  <2>1. Solves([n \in 0..0 |-> FirstLine], 0)
    OBVIOUS
  <2> QED
    BY <2>1
<1>2. ASSUME NEW m \in Nat, m \in G  PROVE m + 1 \in G
  <2>1. PICK f : Solves(f, m)
    BY <1>2
  <2> DEFINE g == [n \in 0..(m + 1) |-> IF n = m + 1 THEN OneMore(f[m], m + 1) ELSE f[n]]
  <2>2. ASSUME NEW n \in 0..(m + 1)  PROVE g[n] = IF n = 0 THEN FirstLine ELSE OneMore(g[n - 1], n)
    <3>1. CASE n = 0
      <4>1. n \in 0..m /\ n # m + 1
        BY <3>1
      <4>2. g[n] = f[n]
        BY <4>1
      <4>3. f[n] = FirstLine
        BY <2>1, <3>1, <4>1
      <4> QED
        BY <3>1, <4>2, <4>3
    <3>2. CASE n # 0 /\ n # m + 1
      <4>1. n \in 0..m /\ n - 1 \in 0..m /\ n - 1 # m + 1 /\ n - 1 \in 0..(m + 1)
        BY <3>2
      <4>2. g[n] = f[n] /\ g[n - 1] = f[n - 1]
        BY <3>2, <4>1
      <4>3. f[n] = OneMore(f[n - 1], n)
        BY <2>1, <3>2, <4>1
      <4> QED
        BY <3>2, <4>2, <4>3
    <3>3. CASE n = m + 1
      <4>1. n # 0 /\ n - 1 = m /\ m \in 0..(m + 1) /\ m # m + 1
        BY <3>3
      <4>2. g[n] = OneMore(f[m], m + 1) /\ g[m] = f[m]
        BY <3>3, <4>1
      <4> QED
        BY <3>3, <4>1, <4>2
    <3> QED
      BY <3>1, <3>2, <3>3
  <2>3. Solves(g, m + 1)
    <3>1. DOMAIN g = 0..(m + 1) /\ g = [n \in 0..(m + 1) |-> g[n]]
      OBVIOUS
    <3> HIDE DEF g
    <3> QED
      BY <2>2, <3>1
  <2>4. m + 1 \in Nat /\ \E h : Solves(h, m + 1)
    <3> HIDE DEF Solves, g
    <3> QED
      BY <2>3
  <2> QED
    BY <2>4
<1>3. PICK f : Solves(f, Len(basis))
  <2> HIDE DEF G
  <2>1. Nat \subseteq G
    BY <1>1, <1>2, LineByLine
  <2> QED
    BY <2>1 DEF G
<1>4. Solves(Described, Len(basis))
  BY <1>3 DEF Described, FirstLine, OneMore
<1> QED
  BY <1>4

LEMMA BasisTyped ==
  ASSUME basis \in Sources, changes \in [DOMAIN basis -> Changes]
  PROVE  /\ basis \in Seq(Lines) /\ DOMAIN basis = 1..Len(basis) /\ Len(basis) \in Nat
         /\ Len(basis) <= MaxText /\ MaxText \in Nat
         /\ \A i \in 1..Len(basis) : basis[i] \in Lines /\ changes[i] \in Changes
<1>1. PICK n \in 0..MaxText : basis \in [1..n -> Lines]
  BY DEF Sources
<1>2. n \in Nat /\ MaxText \in Nat /\ n <= MaxText
  BY PatchAssumption
<1>3. basis \in Seq(Lines) /\ Len(basis) = n
  BY <1>1, <1>2
<1> QED
  BY <1>1, <1>2, <1>3

LEMMA OneLong ==
  ASSUME NEW S, NEW x \in S
  PROVE  /\ <<x>> \in Seq(S) /\ <<x>> # << >> /\ Head(<<x>>) = x /\ Tail(<<x>>) = << >>
         /\ DOMAIN <<x>> = 1..1 /\ Len(<<x>>) = 1 /\ <<x>>[1] = x
OBVIOUS

LEMMA TwoLong ==
  ASSUME NEW S, NEW x \in S, NEW y \in S
  PROVE  <<x, y>> \in Seq(S) /\ <<x, y>> # << >> /\ Head(<<x, y>>) = x /\ Tail(<<x, y>>) = <<y>>
<1>1. <<x, y>> \in Seq(S) /\ <<x, y>> # << >> /\ Len(<<x, y>>) = 2 /\ <<x, y>>[2] = y
  OBVIOUS
<1>2. <<y>> \in Seq(S) /\ Len(<<y>>) = 1 /\ <<y>>[1] = y
  OBVIOUS
<1>3. Tail(<<x, y>>) \in Seq(S) /\ Len(Tail(<<x, y>>)) = 1 /\ Tail(<<x, y>>)[1] = y
  <2> DEFINE s == <<x, y>>
  <2>1. s \in Seq(S) /\ s # << >> /\ Len(s) = 2 /\ s[2] = y
    BY <1>1
  <2> HIDE DEF s
  <2>2. /\ Tail(s) \in Seq(S) /\ Len(Tail(s)) = Len(s) - 1
        /\ \A i \in 1..Len(Tail(s)) : Tail(s)[i] = s[i + 1]
    BY <2>1, HeadTailProperties
  <2> QED
    BY <2>1, <2>2 DEF s
<1>4. Tail(<<x, y>>) = <<y>>
  BY <1>2, <1>3, SeqEqual
<1> QED
  BY <1>1, <1>4

LEMMA AddedTyped ==
  ASSUME NEW list \in Seq(PlusLine)
  PROVE  /\ Added(list) \in Seq(Lines) /\ Len(Added(list)) = Len(list)
         /\ \A i \in 1..Len(list) : Added(list)[i] = list[i][2]
<1>1. Len(list) \in Nat /\ DOMAIN list = 1..Len(list) /\ \A i \in 1..Len(list) : list[i] \in PlusLine
  BY LenProperties, ElementOfSeq
<1>2. \A i \in 1..Len(list) : list[i][2] \in Lines
  BY <1>1 DEF PlusLine
<1>3. Added(list) = [i \in 1..Len(list) |-> list[i][2]]
  BY <1>1 DEF Added
<1> QED
  BY <1>1, <1>2, <1>3

\* How a hunk says what a change makes of its line.
LEMMA HunkSays ==
  ASSUME NEW line \in Lines, NEW change \in Changes
  PROVE  /\ ChangeLine(line, change) \in Seq(Lines)
         /\ change[1] = "keep" => ChangeLine(line, change) = <<line>>
         /\ change[1] # "keep" =>
              LET body == HunkBody(line, change) IN
              /\ body \in Seq(DiffLine) /\ body # << >>
              /\ Head(body)[1] \in {" ", "-"} /\ Head(body)[2] = line
              /\ Tail(body) \in Seq(PlusLine)
              /\ ChangeLine(line, change) = (IF Head(body)[1] = " " THEN <<line>> ELSE << >>) \o Added(Tail(body))
<1>1. CASE change[1] = "keep"
  BY <1>1 DEF ChangeLine
<1>2. CASE change[1] = "delete"
  <2> DEFINE first == <<"-", line>>
  <2>1. ChangeLine(line, change) = << >> /\ HunkBody(line, change) = <<first>>
    BY <1>2 DEF ChangeLine, HunkBody
  <2>2. first \in DiffLine /\ first[1] = "-" /\ first[2] = line
    BY DEF DiffLine
  <2> HIDE DEF first
  <2>3. /\ <<first>> \in Seq(DiffLine) /\ <<first>> # << >>
        /\ Head(<<first>>) = first /\ Tail(<<first>>) = << >>
    BY <2>2, OneLong
  <2>4. Added(<< >>) = << >> /\ << >> \in Seq(PlusLine) /\ << >> \in Seq(Lines) /\ << >> \o << >> = << >>
    BY DEF Added
  <2> QED
    BY <1>2, <2>1, <2>2, <2>3, <2>4
<1>3. CASE change[1] \in {"replace", "add"}
  <2> DEFINE first == IF change[1] = "add" THEN <<" ", line>> ELSE <<"-", line>>
             second == <<"+", change[2]>>
  <2>1. change[2] \in Lines
    BY <1>3 DEF Changes
  <2>2. HunkBody(line, change) = <<first, second>>
    BY <1>3 DEF HunkBody
  <2>3. first \in DiffLine /\ first[1] \in {" ", "-"} /\ first[2] = line /\ (first[1] = " " <=> change[1] = "add")
    BY <1>3, <2>1 DEF DiffLine
  <2>4. second \in DiffLine /\ second \in PlusLine /\ second[2] = change[2]
    BY <2>1 DEF DiffLine, PlusLine
  <2>5. ChangeLine(line, change) = (IF change[1] = "add" THEN <<line>> ELSE << >>) \o <<change[2]>>
    <3>1. CASE change[1] = "add"
      <4>1. ChangeLine(line, change) = <<line, change[2]>>
        BY <3>1 DEF ChangeLine
      <4>2. <<line, change[2]>> = <<line>> \o <<change[2]>>
        OBVIOUS
      <4> QED
        BY <3>1, <4>1, <4>2
    <3>2. CASE change[1] = "replace"
      <4>1. ChangeLine(line, change) = <<change[2]>>
        BY <3>2 DEF ChangeLine
      <4>2. << >> \o <<change[2]>> = <<change[2]>>
        OBVIOUS
      <4> QED
        BY <3>2, <4>1, <4>2
    <3> QED
      BY <1>3, <3>1, <3>2
  <2>6. ChangeLine(line, change) \in Seq(Lines)
    BY <2>1, <2>5
  <2> HIDE DEF first, second
  <2>7. /\ <<first, second>> \in Seq(DiffLine) /\ <<first, second>> # << >>
        /\ Head(<<first, second>>) = first /\ Tail(<<first, second>>) = <<second>>
    BY <2>3, <2>4, TwoLong
  <2>8. <<second>> \in Seq(PlusLine) /\ DOMAIN <<second>> = 1..1 /\ <<second>>[1] = second
    BY <2>4, OneLong
  <2>9. Added(<<second>>) = <<change[2]>>
    <3>1. Added(<<second>>) = [i \in 1..1 |-> change[2]]
      BY <2>4, <2>8 DEF Added
    <3>2. [i \in 1..1 |-> change[2]] = <<change[2]>>
      OBVIOUS
    <3> QED
      BY <3>1, <3>2
  <2> QED
    BY <1>3, <2>2, <2>3, <2>5, <2>6, <2>7, <2>8, <2>9
<1>4. change[1] \in {"keep", "delete", "replace", "add"}
  BY DEF Changes
<1> QED
  BY <1>1, <1>2, <1>3, <1>4

Based == basis \in Sources /\ changes \in [DOMAIN basis -> Changes]

LEMMA HunkTyped ==
  ASSUME Based, NEW i \in Altered
  PROVE  i \in 1..Len(basis) /\ HunkOf(i) \in Hunk
<1>1. i \in 1..Len(basis) /\ basis[i] \in Lines /\ changes[i] \in Changes /\ changes[i][1] # "keep"
  BY BasisTyped DEF Based, Altered
<1>2. HunkBody(basis[i], changes[i]) \in Seq(DiffLine)
  BY <1>1, HunkSays
<1>3. i \in 1..MaxText
  BY <1>1, BasisTyped DEF Based
<1> QED
  BY <1>1, <1>2, <1>3 DEF HunkOf, Hunk

LEMMA OneHunkMore ==
  ASSUME Based, NEW m \in Nat, m + 1 \in Altered, NEW list, HunksOf(list, 0, m)
  PROVE  HunksOf(Append(list, HunkOf(m + 1)), 0, m + 1)
<1> DEFINE hunk == HunkOf(m + 1)
           longer == Append(list, hunk)
<1>1. hunk \in Hunk /\ hunk.start = m + 1
  BY HunkTyped DEF HunkOf
<1>2. list \in Seq(Hunk)
  BY DEF HunksOf
<1> HIDE DEF hunk
<1>3. /\ longer \in Seq(Hunk) /\ Len(list) \in Nat /\ DOMAIN list = 1..Len(list)
      /\ DOMAIN longer = 1..(Len(list) + 1)
      /\ \A k \in DOMAIN list : longer[k] = list[k]
      /\ longer[Len(list) + 1] = hunk
  BY <1>1, <1>2
<1>4. \A k \in DOMAIN list : list[k].start \in Nat /\ list[k].start <= m /\ list[k].start < m + 1
  <2>1. \A k \in DOMAIN list : list[k].start \in Altered /\ list[k].start <= m
    BY DEF HunksOf
  <2>2. \A i \in Altered : i \in Nat
    BY HunkTyped
  <2> QED
    BY <2>1, <2>2
<1> HIDE DEF longer
<1>5. \A k \in DOMAIN longer :
        /\ longer[k].start \in Altered /\ 0 < longer[k].start /\ longer[k].start <= m + 1
        /\ longer[k] = HunkOf(longer[k].start)
  <2> SUFFICES ASSUME NEW k \in DOMAIN longer
               PROVE  /\ longer[k].start \in Altered /\ 0 < longer[k].start /\ longer[k].start <= m + 1
                      /\ longer[k] = HunkOf(longer[k].start)
    OBVIOUS
  <2>1. CASE k \in DOMAIN list
    BY <1>3, <1>4, <2>1 DEF HunksOf
  <2>2. CASE k = Len(list) + 1
    BY <1>1, <1>3, <2>2 DEF hunk
  <2> QED
    BY <1>3, <2>1, <2>2
<1>6. \A j, k \in DOMAIN longer : j < k => longer[j].start < longer[k].start
  <2> SUFFICES ASSUME NEW j \in DOMAIN longer, NEW k \in DOMAIN longer, j < k
               PROVE  longer[j].start < longer[k].start
    OBVIOUS
  <2>1. j \in DOMAIN list
    BY <1>3
  <2>2. CASE k \in DOMAIN list
    BY <1>3, <2>1, <2>2 DEF HunksOf
  <2>3. CASE k = Len(list) + 1
    BY <1>1, <1>3, <1>4, <2>1, <2>3
  <2> QED
    BY <1>3, <2>2, <2>3
<1>7. ASSUME NEW i \in Altered, 0 < i, i <= m + 1  PROVE \E k \in DOMAIN longer : longer[k].start = i
  <2>1. i \in Nat
    BY HunkTyped
  <2>2. CASE i <= m
    <3>1. PICK k \in DOMAIN list : list[k].start = i
      BY <1>7, <2>2 DEF HunksOf
    <3> QED
      BY <1>3, <3>1
  <2>3. CASE i = m + 1
    BY <1>1, <1>3, <2>3
  <2> QED
    BY <1>7, <2>1, <2>2, <2>3
<1> QED
  BY <1>3, <1>5, <1>6, <1>7 DEF HunksOf, hunk, longer

\* The lines described so far are lines, and their hunks those of the changed ones.
LEMMA DescribedTyped ==
  ASSUME Based
  PROVE  \A n \in 0..Len(basis) :
           Described[n].text \in Seq(Lines) /\ HunksOf(Described[n].hunks, 0, n)
<1> DEFINE Fine(m) == Described[m].text \in Seq(Lines) /\ HunksOf(Described[m].hunks, 0, m)
           G == {m \in Nat : m <= Len(basis) => Fine(m)}
<1>1. Len(basis) \in Nat /\ \A i \in 1..Len(basis) : basis[i] \in Lines /\ changes[i] \in Changes
  BY BasisTyped DEF Based
<1>2. \A i \in Altered : i \in 1..Len(basis)
  BY HunkTyped
<1>3. Fine(0)
  <2>1. Described[0].text = << >> /\ Described[0].hunks = << >>
    BY <1>1, DescribedIs DEF FirstLine
  <2>2. HunksOf(<< >>, 0, 0)
    BY <1>2 DEF HunksOf
  <2> QED
    BY <2>1, <2>2
<1>4. ASSUME NEW m \in Nat, m <= Len(basis) => Fine(m), m + 1 <= Len(basis)  PROVE Fine(m + 1)
  <2>1. Fine(m) /\ m + 1 \in 1..Len(basis) /\ m + 1 - 1 = m
    BY <1>1, <1>4
  <2>2. Described[m + 1] = OneMore(Described[m], m + 1)
    BY <1>1, <2>1, DescribedIs
  <2>3. Described[m + 1].text \in Seq(Lines)
    <3>1. ChangeLine(basis[m + 1], changes[m + 1]) \in Seq(Lines)
      BY <1>1, <2>1, HunkSays
    <3>2. Described[m + 1].text = Described[m].text \o ChangeLine(basis[m + 1], changes[m + 1])
      <4> DEFINE before == Described[m]
      <4>1. OneMore(before, m + 1).text = before.text \o ChangeLine(basis[m + 1], changes[m + 1])
        BY DEF OneMore
      <4> QED
        BY <2>2, <4>1
    <3> QED
      BY <2>1, <3>1, <3>2
  <2>4. HunksOf(Described[m + 1].hunks, 0, m + 1)
    <3>1. CASE changes[m + 1][1] = "keep"
      <4>1. Described[m + 1].hunks = Described[m].hunks
        BY <2>2, <3>1 DEF OneMore
      <4>2. \A i \in Altered : i \in Nat /\ i # m + 1 /\ (i <= m + 1 <=> i <= m)
        BY <1>2, <3>1 DEF Altered
      <4> QED
        BY <2>1, <4>1, <4>2 DEF HunksOf
    <3>2. CASE changes[m + 1][1] # "keep"
      <4>1. Described[m + 1].hunks = Append(Described[m].hunks, HunkOf(m + 1))
        BY <2>2, <3>2 DEF OneMore, HunkOf
      <4>2. m + 1 \in Altered
        BY <2>1, <3>2, BasisTyped DEF Altered, Based
      <4> QED
        BY <2>1, <4>1, <4>2, OneHunkMore
    <3> QED
      BY <3>1, <3>2
  <2> QED
    BY <2>3, <2>4
<1>5. Nat \subseteq G
  <2>1. 0 \in G
    BY <1>3
  <2>2. ASSUME NEW m \in Nat, m \in G  PROVE m + 1 \in G
    <3> HIDE DEF Fine
    <3> QED
      BY <1>4, <2>2
  <2> HIDE DEF G
  <2> QED
    BY <2>1, <2>2, LineByLine
<1> QED
  BY <1>1, <1>5

\* Where no line is changed, what is described is the text itself.
LEMMA KeptLines ==
  ASSUME Based, NEW m \in 0..Len(basis), NEW n \in m..Len(basis),
         \A i \in Altered : ~(m < i /\ i <= n)
  PROVE  Described[n].text = Described[m].text \o SubSeq(basis, m + 1, n)
<1> DEFINE Kept(k) == Described[m + k].text = Described[m].text \o SubSeq(basis, m + 1, m + k)
           G == {k \in Nat : m + k <= n => Kept(k)}
<1>1. /\ Len(basis) \in Nat /\ basis \in Seq(Lines) /\ DOMAIN basis = 1..Len(basis)
      /\ \A i \in 1..Len(basis) : basis[i] \in Lines /\ changes[i] \in Changes
  BY BasisTyped DEF Based
<1>2. m \in Nat /\ n \in Nat /\ m <= n /\ n <= Len(basis)
  BY <1>1
<1>3. Described[m].text \in Seq(Lines)
  BY DescribedTyped
<1>4. 0 \in G
  <2>1. SubSeq(basis, m + 1, m + 0) = << >> /\ m + 0 = m
    BY <1>2, SubSeqEmpty
  <2> QED
    BY <1>3, <2>1, ConcatEmptySeq
<1>5. ASSUME NEW k \in Nat, k \in G  PROVE k + 1 \in G
  <2>1. SUFFICES ASSUME m + (k + 1) <= n PROVE Kept(k + 1)
    <3> HIDE DEF Kept
    <3> QED
      OBVIOUS
  <2> DEFINE i == m + k + 1
  <2>2. i = m + (k + 1) /\ i - 1 = m + k /\ i \in 1..Len(basis) /\ m < i /\ i <= n /\ m + k <= n
    BY <1>2, <2>1
  <2>3. Kept(k)
    BY <1>5, <2>2
  <2>4. changes[i][1] = "keep"
    BY <1>1, <2>2 DEF Altered
  <2>5. Described[i].text = Described[m + k].text \o <<basis[i]>>
    <3>1. Described[i] = OneMore(Described[m + k], i)
      BY <1>1, <2>2, DescribedIs
    <3>2. ChangeLine(basis[i], changes[i]) = <<basis[i]>>
      BY <1>1, <2>2, <2>4, HunkSays
    <3>3. \A before : OneMore(before, i).text = before.text \o ChangeLine(basis[i], changes[i])
      BY DEF OneMore
    <3> HIDE DEF i
    <3> QED
      BY <3>1, <3>2, <3>3
  <2>6. SubSeq(basis, m + 1, i) = SubSeq(basis, m + 1, m + k) \o <<basis[i]>>
    <3>1. m + 1 \in 1..Len(basis) /\ i \in (m + 1)..Len(basis)
      BY <1>2, <2>2
    <3>2. SubSeq(basis, m + 1, i) = SubSeq(basis, m + 1, i - 1) \o <<basis[i]>>
      BY <1>1, <3>1, SubSeqRecursiveSecond
    <3> QED
      BY <2>2, <3>2
  <2>7. SubSeq(basis, m + 1, m + k) \in Seq(Lines) /\ <<basis[i]>> \in Seq(Lines)
    <3>1. \A j \in (m + 1)..(m + k) : basis[j] \in Lines
      BY <1>1, <1>2, <2>2
    <3>2. SubSeq(basis, m + 1, m + k) \in Seq(Lines)
      BY <1>2, <3>1, SubSeqProperties
    <3> QED
      BY <1>1, <2>2, <3>2, OneLong
  <2>8. Described[i].text = Described[m].text \o SubSeq(basis, m + 1, i)
    <3> DEFINE first == Described[m].text
               more == SubSeq(basis, m + 1, m + k)
               last == <<basis[i]>>
    <3>1. Described[i].text = (first \o more) \o last
      BY <2>3, <2>5
    <3>2. first \in Seq(Lines) /\ more \in Seq(Lines) /\ last \in Seq(Lines)
      BY <1>3, <2>7
    <3>3. SubSeq(basis, m + 1, i) = more \o last
      BY <2>6
    <3> HIDE DEF i, first, more, last
    <3>4. (first \o more) \o last = first \o (more \o last)
      BY <3>2, ConcatAssociative
    <3>5. Described[i].text = first \o SubSeq(basis, m + 1, i)
      BY <3>1, <3>3, <3>4
    <3> QED
      BY <3>5 DEF first
  <2> QED
    BY <2>2, <2>8
<1>6. Nat \subseteq G
  <2> HIDE DEF G
  <2> QED
    BY <1>4, <1>5, LineByLine
<1>7. n - m \in Nat /\ m + (n - m) = n
  BY <1>2
<1>8. Kept(n - m)
  <2> HIDE DEF Kept
  <2> QED
    BY <1>2, <1>6, <1>7
<1> QED
  BY <1>7, <1>8

\* Without its first, a list of hunks is that of the changed lines after the first's.
LEMMA OtherHunks ==
  ASSUME NEW m \in Nat, NEW n \in Nat, NEW list, HunksOf(list, m, n), list # << >>, Based
  PROVE  LET c == Head(list).start IN
         /\ c \in Altered /\ m < c /\ c <= n /\ Head(list) = HunkOf(c)
         /\ HunksOf(Tail(list), c, n)
         /\ \A i \in Altered : ~(m < i /\ i < c)
<1> DEFINE c == Head(list).start
           later == Tail(list)
<1>1. /\ list \in Seq(Hunk) /\ Len(list) \in Nat \ {0} /\ DOMAIN list = 1..Len(list)
      /\ Head(list) = list[1] /\ 1 \in DOMAIN list
  BY EmptySeq DEF HunksOf
<1>2. /\ later \in Seq(Hunk) /\ Len(later) = Len(list) - 1 /\ DOMAIN later = 1..(Len(list) - 1)
      /\ \A k \in DOMAIN later : later[k] = list[k + 1] /\ k + 1 \in DOMAIN list /\ k \in Nat
  <2>1. /\ later \in Seq(Hunk) /\ Len(later) = Len(list) - 1
        /\ \A k \in 1..Len(later) : later[k] = list[k + 1]
    BY <1>1, HeadTailProperties DEF HunksOf
  <2>2. DOMAIN later = 1..Len(later)
    BY <2>1, LenProperties
  <2> HIDE DEF later
  <2> QED
    BY <1>1, <2>1, <2>2
<1> HIDE DEF later
<1>3. c \in Altered /\ m < c /\ c <= n /\ Head(list) = HunkOf(c)
  BY <1>1 DEF HunksOf
<1>4. c = list[1].start
  BY <1>1
<1> HIDE DEF c
<1>5. \A k \in DOMAIN list : k = 1 \/ (k - 1 \in DOMAIN later /\ later[k - 1] = list[k] /\ c < list[k].start)
  <2> SUFFICES ASSUME NEW k \in DOMAIN list, k # 1
               PROVE  k - 1 \in DOMAIN later /\ later[k - 1] = list[k] /\ c < list[k].start
    OBVIOUS
  <2>1. k \in Nat /\ 1 < k /\ k - 1 \in DOMAIN later /\ k - 1 + 1 = k
    BY <1>1, <1>2
  <2>2. list[1].start < list[k].start
    BY <1>1, <2>1 DEF HunksOf
  <2> QED
    BY <1>2, <1>4, <2>1, <2>2
<1>6. HunksOf(later, c, n)
  <2>1. \A k \in DOMAIN later :
          /\ later[k].start \in Altered /\ c < later[k].start /\ later[k].start <= n
          /\ later[k] = HunkOf(later[k].start)
    <3> SUFFICES ASSUME NEW k \in DOMAIN later
                 PROVE  /\ later[k].start \in Altered /\ c < later[k].start /\ later[k].start <= n
                        /\ later[k] = HunkOf(later[k].start)
      OBVIOUS
    <3>1. later[k] = list[k + 1] /\ k + 1 \in DOMAIN list /\ k + 1 # 1
      BY <1>2
    <3>2. c < list[k + 1].start
      BY <1>5, <3>1
    <3> QED
      BY <3>1, <3>2 DEF HunksOf
  <2>2. \A j, k \in DOMAIN later : j < k => later[j].start < later[k].start
    BY <1>2 DEF HunksOf
  <2>3. ASSUME NEW i \in Altered, c < i, i <= n  PROVE \E k \in DOMAIN later : later[k].start = i
    <3>1. i \in Nat /\ c \in Nat
      BY <1>3, HunkTyped
    <3>2. PICK k \in DOMAIN list : list[k].start = i
      BY <1>3, <2>3, <3>1 DEF HunksOf
    <3>3. k # 1
      BY <1>4, <2>3, <3>1, <3>2
    <3> QED
      BY <1>5, <3>2, <3>3
  <2> QED
    BY <1>2, <2>1, <2>2, <2>3 DEF HunksOf
<1>7. \A i \in Altered : ~(m < i /\ i < c)
  <2> SUFFICES ASSUME NEW i \in Altered, m < i, i < c PROVE FALSE
    OBVIOUS
  <2>1. i \in Nat /\ c \in Nat
    BY <1>3, HunkTyped
  <2>2. PICK k \in DOMAIN list : list[k].start = i
    BY <1>3, <2>1 DEF HunksOf
  <2>3. list[k].start = c \/ c < list[k].start
    BY <1>4, <1>5
  <2> QED
    BY <2>1, <2>2, <2>3
<1> QED
  BY <1>3, <1>6, <1>7 DEF c, later

LEMMA BasisStays ==
  ASSUME UNCHANGED <<basis, changes>>
  PROVE  /\ Described' = Described /\ Changed' = Changed /\ Altered' = Altered
         /\ Based => Based'
         /\ \A i : HunkOf(i)' = HunkOf(i)
<1>1. Described' = Described
  BY DEF Described
<1> QED
  BY <1>1 DEF Changed, Altered, HunkOf, Based

LEMMA PatchNumbers ==
  ASSUME PatchInv
  PROVE  /\ Based /\ source \in Seq(Lines) /\ Len(source) \in Nat /\ Len(source) <= MaxText
         /\ Len(basis) \in Nat /\ Len(basis) <= MaxText /\ MaxText \in Nat /\ next \in Nat /\ 1 <= next
         /\ output \in Seq(Lines) /\ rest \in Seq(DiffLine) /\ hunks \in Seq(Hunk)
         /\ \A i \in 1..Len(source) : source[i] \in Lines
<1>1. Based /\ source \in Sources
  BY DEF PatchInv, PatchTypeOK, Based
<1>2. Len(basis) \in Nat /\ Len(basis) <= MaxText /\ MaxText \in Nat
  BY <1>1, BasisTyped DEF Based
<1>3. PICK n \in 0..MaxText : source \in [1..n -> Lines]
  BY <1>1 DEF Sources
<1>4. source \in Seq(Lines) /\ Len(source) = n
  BY <1>2, <1>3
<1>5. next \in 1..(MaxText + 1) /\ output \in Seq(Lines) /\ rest \in Seq(DiffLine) /\ hunks \in Seq(Hunk)
  BY DEF PatchInv, PatchTypeOK
<1> QED
  BY <1>1, <1>2, <1>3, <1>4, <1>5

\* What is put out before a hunk brings the output up to the hunk's line.
LEMMA StartHunkKeeps ==
  ASSUME PatchInv, StartHunk
  PROVE  PatchInv'
<1> DEFINE c == Head(hunks).start
           last == IF c > Len(source) THEN Len(source) ELSE c - 1
           more == SubSeq(source, next, last)
<1>1. HunksOf(hunks, next - 1, Len(basis)) /\ Reaches(output, next - 1) /\ hunks # << >>
  BY DEF PatchInv, BetweenHunks, StartHunk
<1>2. /\ c \in Altered /\ next - 1 < c /\ c <= Len(basis) /\ Head(hunks) = HunkOf(c)
      /\ HunksOf(Tail(hunks), c, Len(basis))
      /\ \A i \in Altered : ~(next - 1 < i /\ i < c)
  BY <1>1, PatchNumbers, OtherHunks
<1>3. c \in 1..Len(basis) /\ c \in Nat /\ next <= c
  BY <1>2, HunkTyped, PatchNumbers
<1>4. /\ output' = output \o more /\ next' = c /\ rest' = HunkBody(basis[c], changes[c])
      /\ hunks' = Tail(hunks) /\ status' = "body" /\ UNCHANGED <<basis, changes, source>>
  <2>1. next' = IF c > next THEN c ELSE next
    BY DEF StartHunk
  <2>2. rest' = Head(hunks).body /\ Head(hunks).body = HunkBody(basis[c], changes[c])
    BY <1>2 DEF StartHunk, HunkOf
  <2> QED
    BY <1>3, <2>1, <2>2, PatchNumbers DEF StartHunk
<1>5. /\ last \in Int /\ last <= Len(source) /\ last <= c - 1
      /\ c - 1 <= Len(source) => last = c - 1
  BY <1>3, PatchNumbers
<1>6. /\ more \in Seq(Lines)
      /\ Len(more) = IF next <= last THEN last - next + 1 ELSE 0
  <2>1. \A i \in next..last : source[i] \in Lines
    BY <1>5, PatchNumbers
  <2> HIDE DEF last
  <2> QED
    BY <1>5, <2>1, PatchNumbers, SubSeqProperties
<1> HIDE DEF c, last
<1>7. ASSUME c - 1 <= Len(source)  PROVE Reaches(output \o more, c - 1)
  <2> DEFINE gap == SubSeq(basis, next, c - 1)
  <2>1. Described[c - 1].text = Described[next - 1].text \o gap
    <3>1. next - 1 \in 0..Len(basis) /\ c - 1 \in (next - 1)..Len(basis) /\ next - 1 + 1 = next
      BY <1>3, PatchNumbers
    <3>2. \A i \in Altered : ~(next - 1 < i /\ i <= c - 1)
      BY <1>2, <1>3, PatchNumbers, HunkTyped
    <3> QED
      BY <3>1, <3>2, PatchNumbers, KeptLines
  <2>2. gap \in Seq(Lines) /\ Len(gap) = IF next <= c - 1 THEN c - 1 - next + 1 ELSE 0
    <3>1. \A i \in next..(c - 1) : basis[i] \in Lines
      BY <1>3, PatchNumbers, BasisTyped DEF Based
    <3> QED
      BY <1>3, <3>1, PatchNumbers, SubSeqProperties
  <2>3. Len(gap) = Len(more) /\ Len(more) \in Nat /\ last = c - 1
    BY <1>3, <1>5, <1>6, <1>7, <2>2, PatchNumbers
  <2>4. source = basis => more = gap
    BY <2>3
  <2>5. /\ Described[next - 1].text \in Seq(Lines) /\ Len(output) = Len(Described[next - 1].text)
        /\ source = basis => output = Described[next - 1].text
    <3>1. next - 1 \in 0..Len(basis)
      BY <1>1 DEF Reaches
    <3> QED
      BY <1>1, <3>1, PatchNumbers, DescribedTyped DEF Reaches
  <2> HIDE DEF more, gap
  <2>6. output \o more \in Seq(Lines) /\ Len(output \o more) = Len(Described[c - 1].text)
    <3>1. Len(output \o more) = Len(output) + Len(more)
      BY <1>6, PatchNumbers, ConcatProperties
    <3>2. Len(Described[c - 1].text) = Len(Described[next - 1].text) + Len(gap)
      <4> DEFINE before == Described[next - 1].text
      <4>1. before \in Seq(Lines) /\ Described[c - 1].text = before \o gap
        BY <2>1, <2>5
      <4> HIDE DEF before
      <4>2. Len(before \o gap) = Len(before) + Len(gap)
        BY <2>2, <4>1, ConcatProperties
      <4> QED
        BY <4>1, <4>2 DEF before
    <3> QED
      BY <1>6, <2>3, <2>5, <3>1, <3>2, PatchNumbers, ConcatProperties
  <2>7. c - 1 \in 0..Len(basis)
    BY <1>3, PatchNumbers
  <2> QED
    BY <1>7, <2>1, <2>4, <2>5, <2>6, <2>7 DEF Reaches
<1> HIDE DEF more
<1>8. InHunk'
  <2>1. Described' = Described /\ Altered' = Altered /\ \A i : HunkOf(i)' = HunkOf(i)
    BY <1>4, BasisStays
  <2>2. HunksOf(hunks, next, Len(basis))'
    BY <1>2, <1>4, <2>1 DEF HunksOf
  <2>3. (next - 1 <= Len(source) => Reaches(output, next - 1))'
    BY <1>4, <1>7, <2>1 DEF Reaches
  <2>4. (next \in Altered /\ rest = HunkBody(basis[next], changes[next]))'
    BY <1>2, <1>4, <2>1
  <2> QED
    BY <2>2, <2>3, <2>4 DEF InHunk
<1>9. PatchTypeOK'
  <2>1. output \o more \in Seq(Lines)
    BY <1>6, PatchNumbers, ConcatProperties
  <2>2. rest' \in Seq(DiffLine)
    <3>1. basis[c] \in Lines /\ changes[c] \in Changes /\ changes[c][1] # "keep"
      BY <1>2, <1>3, PatchNumbers, BasisTyped DEF Altered, Based
    <3> QED
      BY <1>4, <3>1, HunkSays
  <2>3. hunks' \in Seq(Hunk)
    BY <1>2, <1>4 DEF HunksOf
  <2>4. next' \in 1..(MaxText + 1)
    BY <1>3, <1>4, PatchNumbers
  <2> QED
    BY <1>4, <2>1, <2>2, <2>3, <2>4 DEF PatchTypeOK, PatchInv
<1> QED
  BY <1>4, <1>8, <1>9 DEF PatchInv, BetweenHunks, Ends

\* A line of the source that is as the hunk says leaves only lines to add; one that is not
\* shows that the source is another text.
LEMMA SourceLineKeeps ==
  ASSUME PatchInv, SourceLine
  PROVE  PatchInv'
<1> DEFINE line == basis[next]
           body == HunkBody(line, changes[next])
<1>1. status = "body" /\ rest # << >> /\ Head(rest)[1] \in {" ", "-"} /\ UNCHANGED <<basis, changes, source, hunks>>
  BY DEF SourceLine
<1>2. /\ next \in Altered /\ rest = body /\ HunksOf(hunks, next, Len(basis))
      /\ next - 1 <= Len(source) => Reaches(output, next - 1)
  <2>1. ASSUME rest \in Seq(PlusLine)  PROVE FALSE
    <3>1. Head(rest) \in PlusLine
      BY <1>1, <2>1, HeadTailProperties
    <3> QED
      BY <1>1, <3>1 DEF PlusLine
  <2> QED
    BY <1>1, <2>1 DEF PatchInv, InHunk
<1>3. /\ next \in 1..Len(basis) /\ line \in Lines /\ changes[next] \in Changes
      /\ changes[next][1] # "keep"
  BY <1>2, HunkTyped, PatchNumbers, BasisTyped DEF Altered, Based
<1>4. /\ Head(body)[2] = line /\ Tail(body) \in Seq(PlusLine)
      /\ ChangeLine(line, changes[next]) =
           (IF Head(body)[1] = " " THEN <<line>> ELSE << >>) \o Added(Tail(body))
  BY <1>3, HunkSays
<1> HIDE DEF line, body
<1>5. Described' = Described /\ Altered' = Altered /\ (\A i : HunkOf(i)' = HunkOf(i)) /\ Changed' = Changed
  BY <1>1, BasisStays
<1>6. CASE ~(next <= Len(source) /\ source[next] = line)
  <2>1. status' = "mismatch" /\ UNCHANGED <<output, next, rest>>
    BY <1>1, <1>2, <1>4, <1>6 DEF SourceLine
  <2>2. source # basis
    BY <1>3, <1>6, PatchNumbers DEF line
  <2> QED
    BY <1>1, <2>1, <2>2 DEF PatchInv, PatchTypeOK, BetweenHunks, InHunk, Ends
<1>7. CASE next <= Len(source) /\ source[next] = line
  <2> DEFINE stay == IF Head(body)[1] = " " THEN <<line>> ELSE << >>
             more == Added(Tail(body))
             before == Described[next - 1].text
  <2>1. /\ output' = output \o stay /\ next' = next + 1 /\ rest' = Tail(body) /\ status' = "body"
    <3>1. /\ output' = IF Head(rest)[1] = " " THEN Append(output, source[next]) ELSE output
          /\ next' = next + 1 /\ rest' = Tail(rest) /\ UNCHANGED status
      BY <1>2, <1>4, <1>7 DEF SourceLine
    <3>2. output \o << >> = output /\ Append(output, line) = output \o <<line>>
      BY <1>3, PatchNumbers
    <3> QED
      BY <1>1, <1>2, <1>7, <3>1, <3>2
  <2>2. stay \in Seq(Lines) /\ more \in Seq(Lines)
    <3>1. <<line>> \in Seq(Lines) /\ << >> \in Seq(Lines)
      BY <1>3, OneLong, EmptySeq
    <3> QED
      BY <1>4, <3>1, AddedTyped
  <2>3. Reaches(output, next - 1)
    BY <1>2, <1>3, <1>7, PatchNumbers
  <2>4. Described[next].text = before \o (stay \o more) /\ before \in Seq(Lines)
    <3>1. Described[next] = OneMore(Described[next - 1], next)
      BY <1>3, PatchNumbers, DescribedIs
    <3>2. next - 1 \in 0..Len(basis)
      BY <1>3, PatchNumbers
    <3>3. Described[next].text = before \o ChangeLine(basis[next], changes[next])
      <4> DEFINE last == Described[next - 1]
      <4>1. OneMore(last, next).text = last.text \o ChangeLine(basis[next], changes[next])
        BY DEF OneMore
      <4> QED
        BY <3>1, <4>1
    <3> QED
      BY <1>4, <3>2, <3>3, PatchNumbers, DescribedTyped DEF line
  <2> HIDE DEF stay, more, before
  <2>5. Reaches((output \o stay) \o more, next)
    <3>1. (output \o stay) \o more = output \o (stay \o more)
      <4>1. output \in Seq(Lines)
        BY PatchNumbers
      <4> QED
        BY <2>2, <4>1, ConcatAssociative
    <3>2. stay \o more \in Seq(Lines) /\ Len(stay \o more) \in Nat
      BY <2>2
    <3>3. /\ output \o (stay \o more) \in Seq(Lines)
          /\ Len(output \o (stay \o more)) = Len(output) + Len(stay \o more)
          /\ Len(before \o (stay \o more)) = Len(before) + Len(stay \o more)
      BY <2>4, <3>2, PatchNumbers, ConcatProperties
    <3>4. Len(output) = Len(before) /\ (source = basis => output = before)
      BY <2>3 DEF Reaches, before
    <3>5. next \in 0..Len(basis) /\ next <= Len(source)
      BY <1>3, <1>7, PatchNumbers
    <3> QED
      BY <2>4, <3>1, <3>3, <3>4, <3>5 DEF Reaches
  <2>6. InHunk'
    <3>1. next' - 1 = next
      BY <2>1, PatchNumbers
    <3>2. rest' \in Seq(PlusLine) /\ Added(rest)' = more
      BY <1>4, <2>1 DEF more, Added
    <3>3. HunksOf(hunks, next - 1, Len(basis))'
      BY <1>1, <1>2, <1>5, <3>1 DEF HunksOf
    <3>4. Reaches(output \o Added(rest), next - 1)'
      BY <1>1, <1>5, <2>1, <2>5, <3>1, <3>2 DEF Reaches
    <3> QED
      BY <3>2, <3>3, <3>4 DEF InHunk
  <2>7. PatchTypeOK'
    <3>1. output' \in Seq(Lines)
      BY <2>1, <2>2, PatchNumbers, ConcatProperties
    <3>2. rest' \in Seq(DiffLine)
      BY <1>1, <2>1, <1>2, PatchNumbers, HeadTailProperties
    <3>3. next' \in 1..(MaxText + 1)
      BY <1>3, <2>1, PatchNumbers
    <3> QED
      BY <1>1, <2>1, <3>1, <3>2, <3>3 DEF PatchInv, PatchTypeOK
  <2> QED
    BY <2>1, <2>6, <2>7 DEF PatchInv, BetweenHunks, Ends
<1> QED
  BY <1>6, <1>7

\* Lines are added in the order of the hunk.
LEMMA AddedLineKeeps ==
  ASSUME PatchInv, AddedLine
  PROVE  PatchInv'
<1>1. /\ status = "body" /\ rest # << >> /\ Head(rest)[1] = "+"
      /\ output' = Append(output, Head(rest)[2]) /\ rest' = Tail(rest)
      /\ UNCHANGED <<basis, changes, source, hunks, next, status>>
  BY DEF AddedLine
<1>2. rest \in Seq(PlusLine) /\ HunksOf(hunks, next - 1, Len(basis)) /\ Reaches(output \o Added(rest), next - 1)
  <2>1. ASSUME next \in Altered, rest = HunkBody(basis[next], changes[next])  PROVE FALSE
    <3>1. basis[next] \in Lines /\ changes[next] \in Changes /\ changes[next][1] # "keep"
      BY <2>1, HunkTyped, PatchNumbers, BasisTyped DEF Altered, Based
    <3> QED
      BY <1>1, <2>1, <3>1, HunkSays
  <2> QED
    BY <1>1, <2>1 DEF PatchInv, InHunk
<1> DEFINE line == Head(rest)[2]
           more == Added(Tail(rest))
<1>3. line \in Lines /\ Tail(rest) \in Seq(PlusLine)
  <2>1. Head(rest) \in PlusLine /\ Tail(rest) \in Seq(PlusLine)
    BY <1>1, <1>2, HeadTailProperties
  <2> QED
    BY <2>1 DEF PlusLine
<1>4. more \in Seq(Lines) /\ Added(rest) = <<line>> \o more
  <2> DEFINE n == Len(Tail(rest))
  <2>1. /\ n \in Nat /\ DOMAIN Tail(rest) = 1..n /\ Len(rest) = n + 1 /\ DOMAIN rest = 1..(n + 1)
        /\ \A i \in 1..n : Tail(rest)[i] = rest[i + 1] /\ Tail(rest)[i] \in PlusLine
        /\ rest[1] = Head(rest)
    <3>1. Len(Tail(rest)) = Len(rest) - 1 /\ \A i \in 1..Len(Tail(rest)) : Tail(rest)[i] = rest[i + 1]
      BY <1>1, <1>2, HeadTailProperties
    <3>2. /\ n \in Nat /\ DOMAIN Tail(rest) = 1..n /\ Len(rest) \in Nat /\ DOMAIN rest = 1..Len(rest)
          /\ \A i \in 1..n : Tail(rest)[i] \in PlusLine
      BY <1>2, <1>3, LenProperties, ElementOfSeq
    <3> QED
      BY <1>1, <3>1, <3>2
  <2> HIDE DEF n
  <2>2. /\ more \in Seq(Lines) /\ Len(more) = n
        /\ \A i \in 1..n : more[i] = rest[i + 1][2]
    BY <1>3, <2>1, AddedTyped DEF n
  <2>3. /\ Added(rest) \in Seq(Lines) /\ Len(Added(rest)) = n + 1
        /\ \A i \in 1..(n + 1) : Added(rest)[i] = rest[i][2]
    BY <1>2, <2>1, AddedTyped
  <2> HIDE DEF more, line
  <2>4. <<line>> \in Seq(Lines) /\ Len(<<line>>) = 1 /\ <<line>>[1] = line
    BY <1>3, OneLong
  <2>5. /\ <<line>> \o more \in Seq(Lines) /\ Len(<<line>> \o more) = n + 1
        /\ \A i \in 1..(n + 1) : (<<line>> \o more)[i] = IF i <= 1 THEN <<line>>[i] ELSE more[i - 1]
    <3>1. /\ <<line>> \o more \in Seq(Lines) /\ Len(<<line>> \o more) = Len(<<line>>) + Len(more)
          /\ \A i \in 1..(Len(<<line>>) + Len(more)) :
               (<<line>> \o more)[i] = IF i <= Len(<<line>>) THEN <<line>>[i] ELSE more[i - Len(<<line>>)]
      BY <2>2, <2>4, ConcatProperties
    <3> QED
      BY <2>1, <2>2, <2>4, <3>1
  <2>6. \A i \in 1..(n + 1) : Added(rest)[i] = (<<line>> \o more)[i]
    <3> SUFFICES ASSUME NEW i \in 1..(n + 1) PROVE Added(rest)[i] = (<<line>> \o more)[i]
      OBVIOUS
    <3>1. CASE i = 1
      BY <2>1, <2>3, <2>4, <2>5, <3>1 DEF line
    <3>2. CASE i # 1
      <4>1. i - 1 \in 1..n /\ i - 1 + 1 = i /\ ~(i <= 1)
        BY <2>1, <3>2
      <4> QED
        BY <2>2, <2>3, <2>5, <4>1
    <3> QED
      BY <3>1, <3>2
  <2> QED
    BY <2>2, <2>3, <2>5, <2>6, SeqEqual
<1> HIDE DEF line, more
<1>5. output' = output \o <<line>> /\ output' \in Seq(Lines) /\ output' \o more = output \o Added(rest)
  <2>1. output' = output \o <<line>> /\ <<line>> \in Seq(Lines)
    BY <1>1, <1>3, PatchNumbers DEF line
  <2> QED
    BY <1>4, <2>1, PatchNumbers, ConcatAssociative, ConcatProperties
<1>6. Described' = Described /\ Altered' = Altered /\ (\A i : HunkOf(i)' = HunkOf(i))
  BY <1>1, BasisStays
<1>7. InHunk'
  <2>1. rest' \in Seq(PlusLine) /\ Added(rest)' = more
    BY <1>1, <1>3 DEF more, Added
  <2>2. HunksOf(hunks, next - 1, Len(basis))'
    BY <1>1, <1>2, <1>6 DEF HunksOf
  <2>3. Reaches(output \o Added(rest), next - 1)'
    BY <1>1, <1>2, <1>5, <1>6, <2>1 DEF Reaches
  <2> QED
    BY <2>1, <2>2, <2>3 DEF InHunk
<1>8. PatchTypeOK'
  <2>1. rest' \in Seq(DiffLine)
    BY <1>1, PatchNumbers, HeadTailProperties
  <2> QED
    BY <1>1, <1>5, <2>1 DEF PatchInv, PatchTypeOK
<1> QED
  BY <1>1, <1>7, <1>8 DEF PatchInv, BetweenHunks, Ends

\* After the last hunk the source's other lines are put out, none of which is changed.
LEMMA EndHunkKeeps ==
  ASSUME PatchInv, EndHunk
  PROVE  PatchInv'
<1>1. status = "body" /\ rest = << >> /\ UNCHANGED <<basis, changes, source, hunks, rest>>
  BY DEF EndHunk
<1>2. HunksOf(hunks, next - 1, Len(basis)) /\ Reaches(output, next - 1)
  <2>1. ASSUME next \in Altered, rest = HunkBody(basis[next], changes[next])  PROVE FALSE
    <3>1. basis[next] \in Lines /\ changes[next] \in Changes /\ changes[next][1] # "keep"
      BY <2>1, HunkTyped, PatchNumbers, BasisTyped DEF Altered, Based
    <3>2. HunkBody(basis[next], changes[next]) # << >>
      BY <3>1, HunkSays
    <3> QED
      BY <1>1, <2>1, <3>2
  <2>2. HunksOf(hunks, next - 1, Len(basis)) /\ Reaches(output \o Added(rest), next - 1)
    BY <1>1, <2>1 DEF PatchInv, InHunk
  <2>3. Added(rest) = << >> /\ output \o << >> = output
    BY <1>1, PatchNumbers, ConcatEmptySeq DEF Added
  <2> QED
    BY <2>2, <2>3
<1>3. Described' = Described /\ Altered' = Altered /\ (\A i : HunkOf(i)' = HunkOf(i)) /\ Changed' = Changed
  BY <1>1, BasisStays
<1>4. CASE hunks # << >>
  <2>1. status' = "hunk" /\ UNCHANGED <<output, next>>
    BY <1>4 DEF EndHunk
  <2>2. HunksOf(hunks, next - 1, Len(basis))' /\ Reaches(output, next - 1)'
    BY <1>1, <1>2, <1>3, <2>1 DEF HunksOf, Reaches
  <2> QED
    BY <1>1, <2>1, <2>2 DEF PatchInv, PatchTypeOK, BetweenHunks, InHunk, Ends
<1>5. CASE hunks = << >>
  <2> DEFINE N == Len(basis)
             M == Len(source)
             before == Described[next - 1].text
             later == SubSeq(basis, next, N)
             tail == SubSeq(source, next, M)
  <2>1. status' = "done" /\ output' = output \o tail /\ next' = M + 1
    BY <1>5 DEF EndHunk
  <2>2. next - 1 \in 0..N /\ next - 1 <= M /\ N \in (next - 1)..N /\ next - 1 + 1 = next
    BY <1>2, PatchNumbers DEF Reaches
  <2>3. Changed = before \o later /\ before \in Seq(Lines)
    <3>1. \A i \in Altered : ~(next - 1 < i /\ i <= N)
      BY <1>2, <1>5 DEF HunksOf
    <3>2. Described[N].text = before \o later
      BY <2>2, <3>1, PatchNumbers, KeptLines
    <3> QED
      BY <2>2, <3>2, PatchNumbers, DescribedTyped DEF Changed
  <2>4. /\ later \in Seq(Lines) /\ Len(later) = N - (next - 1)
        /\ tail \in Seq(Lines) /\ Len(tail) = M - (next - 1)
    <3>1. (\A i \in next..N : basis[i] \in Lines) /\ \A i \in next..M : source[i] \in Lines
      BY PatchNumbers, BasisTyped DEF Based
    <3>2. /\ later \in Seq(Lines) /\ Len(later) = IF next <= N THEN N - next + 1 ELSE 0
          /\ tail \in Seq(Lines) /\ Len(tail) = IF next <= M THEN M - next + 1 ELSE 0
      BY <3>1, PatchNumbers, SubSeqProperties
    <3> QED
      BY <2>2, <3>2, PatchNumbers
  <2>5. source = basis => tail = later
    OBVIOUS
  <2>6. Len(output) = Len(before) /\ (source = basis => output = before)
    BY <1>2 DEF Reaches
  <2> HIDE DEF before, later, tail
  <2>7. /\ output \o tail \in Seq(Lines) /\ Len(output \o tail) = Len(output) + Len(tail)
        /\ Len(before \o later) = Len(before) + Len(later)
    BY <2>3, <2>4, PatchNumbers, ConcatProperties
  <2>8. Len(output') - M = Len(Changed) - N
    <3>1. Len(before) \in Nat
      BY <2>3, LenProperties
    <3>2. Len(output') = Len(before) + (M - (next - 1)) /\ Len(Changed) = Len(before) + (N - (next - 1))
      BY <2>1, <2>3, <2>4, <2>6, <2>7
    <3>3. M \in Nat /\ N \in Nat /\ next \in Nat
      BY PatchNumbers
    <3> HIDE DEF M, N
    <3> QED
      BY <3>1, <3>2, <3>3
  <2>9. source = basis => output' = Changed
    BY <2>1, <2>3, <2>5, <2>6
  <2>10. PatchTypeOK'
    <3>1. M + 1 \in 1..(MaxText + 1)
      BY PatchNumbers
    <3> QED
      BY <1>1, <2>1, <2>7, <3>1 DEF PatchInv, PatchTypeOK
  <2> QED
    BY <1>1, <1>3, <2>1, <2>8, <2>9, <2>10 DEF PatchInv, BetweenHunks, InHunk, Ends
<1> QED
  BY <1>4, <1>5

LEMMA PatchStart == PatchInit => PatchInv
<1> SUFFICES ASSUME PatchInit PROVE PatchInv
  OBVIOUS
<1>1. Based /\ source \in Sources
  BY DEF PatchInit, Based
<1>2. Len(basis) \in Nat /\ MaxText \in Nat
  BY <1>1, BasisTyped DEF Based
<1>3. Len(source) \in Nat
  <2>1. PICK n \in 0..MaxText : source \in [1..n -> Lines]
    BY <1>1 DEF Sources
  <2>2. Len(source) = n
    BY <1>2, <2>1
  <2> QED
    BY <1>2, <2>2
<1>4. HunksOf(hunks, 0, Len(basis))
  BY <1>1, <1>2, DescribedTyped DEF PatchInit, Diff
<1>5. Reaches(output, 0)
  <2>1. output = << >> /\ Described[0].text = << >>
    BY <1>2, DescribedIs DEF PatchInit, FirstLine
  <2> QED
    BY <1>2, <1>3, <2>1 DEF Reaches
<1>6. PatchTypeOK
  <2>1. hunks \in Seq(Hunk)
    BY <1>4 DEF HunksOf
  <2>2. << >> \in Seq(DiffLine) /\ << >> \in Seq(Lines) /\ 1 \in 1..(MaxText + 1)
    BY <1>2
  <2> QED
    BY <1>1, <2>1, <2>2 DEF PatchTypeOK, PatchInit, Based
<1>7. next - 1 = 0 /\ status \in {"hunk", "empty"}
  BY DEF PatchInit
<1> QED
  BY <1>4, <1>5, <1>6, <1>7 DEF PatchInv, BetweenHunks, InHunk, Ends

LEMMA PatchStep == PatchInv /\ [PatchNext]_patchVars => PatchInv'
<1>1. ASSUME PatchInv, UNCHANGED patchVars  PROVE PatchInv'
  <2>1. UNCHANGED <<basis, changes, source, hunks, rest, next, output, status>>
    BY <1>1 DEF patchVars
  <2>2. Described' = Described /\ Altered' = Altered /\ (\A i : HunkOf(i)' = HunkOf(i)) /\ Changed' = Changed
    BY <2>1, BasisStays
  <2>3. PatchTypeOK'
    BY <1>1, <2>1 DEF PatchInv, PatchTypeOK
  <2>4. BetweenHunks'
    BY <1>1, <2>1, <2>2 DEF PatchInv, BetweenHunks, HunksOf, Reaches
  <2>5. InHunk'
    BY <1>1, <2>1, <2>2 DEF PatchInv, InHunk, HunksOf, Reaches, Added
  <2>6. Ends'
    BY <1>1, <2>1, <2>2 DEF PatchInv, Ends
  <2> QED
    BY <2>3, <2>4, <2>5, <2>6 DEF PatchInv
<1> QED
  BY <1>1, StartHunkKeeps, SourceLineKeeps, AddedLineKeeps, EndHunkKeeps DEF PatchNext

(* A text that is patched never has more lines than it may, and what is read   *)
(* of it stays within it.                                                      *)
THEOREM PatchTypeCorrect == PatchSpec => []PatchTypeOK
BY PatchStart, PatchStep, PTL DEF PatchSpec, PatchInv

(* A unified diff that applies does what it describes, for texts of any length *)
(* and any lines and changes (applyUnifiedDiff): applied to the text it was    *)
(* made of it succeeds and gives the text described, and applied to another it *)
(* fails or changes the number of lines as described.                          *)
THEOREM DiffIsDone == PatchSpec => []PatchAsMeant
<1>1. PatchInv => PatchAsMeant
  BY DEF PatchInv, Ends, PatchAsMeant
<1> QED
  BY PatchStart, PatchStep, <1>1, PTL DEF PatchSpec
=============================================================================

---------------------------- MODULE EditPipeline ----------------------------
(* The edit tools of one session on one file (core/tools/builtins): edit,      *)
(* apply_patch and write_file with their snapshots (core/session/             *)
(* file-snapshots.ts), and "/revert". Every await is a step, so the user's     *)
(* editor, a revert over HTTP or a crash may come in between. What an edit     *)
(* makes of the text is left open (TextPatch has the diffs).                   *)
EXTENDS Sequences, FiniteSets, Integers

CONSTANTS
  Content,       \* what the file may say, besides nothing
  MaxOthers,     \* bound on the writes of others
  MaxSnapshots   \* bound on the snapshots of the session

Missing == "missing"
Empty == ""
\* A name for a file that is not there is no text.
ASSUME EditAssumption == Missing \notin Content /\ MaxOthers \in Nat /\ MaxSnapshots \in Nat

FileTexts == Content \cup {Empty}
Files == FileTexts \cup {Missing}

VARIABLES
  file,       \* the file
  edit,       \* the edit call that runs
  snapshots,  \* the session's snapshots, in the order they were taken
  torn,       \* is there a snapshot file that was never filled?
  revert,     \* the revert that runs
  origin,     \* history: the text before the first edit
  meddled,    \* history: has anybody else written the file since then?
  lost,       \* history: was a text overwritten, as its caller had read it, that no snapshot has?
  others      \* how often others have written

notes == <<origin, meddled, lost, others>>
editVars == <<file, edit, snapshots, torn, revert, notes>>

NoEdit == [pc |-> "idle", before |-> Empty, after |-> Empty]
NoRevert == [pc |-> "idle", todo |-> << >>, read |-> Empty, force |-> FALSE, alone |-> FALSE]
Snapshot == [before : FileTexts, after : FileTexts, time : 0..MaxSnapshots]

EditTypeOK ==
  /\ {file, origin} \subseteq Files
  /\ edit \in [pc : {"idle", "read", "opened", "snapshot", "truncated"},
               before : FileTexts, after : FileTexts]
  /\ snapshots \in Seq(Snapshot) /\ Len(snapshots) <= MaxSnapshots
  /\ revert \in [pc : {"idle", "next", "read", "truncated"}, todo : Seq(DOMAIN snapshots),
                 read : FileTexts, force : BOOLEAN, alone : BOOLEAN]
  /\ others \in 0..MaxOthers
  /\ {torn, meddled, lost} \subseteq BOOLEAN

EditInit ==
  /\ file \in Files
  /\ edit = NoEdit /\ snapshots = << >> /\ torn = FALSE /\ revert = NoRevert
  /\ origin = Missing
  /\ others = 0 /\ meddled = FALSE /\ lost = FALSE

TextOf(f) == IF f = Missing THEN Empty ELSE f

(***************************************************************************)
(* The tools                                                               *)
(***************************************************************************)
\* The call has read the file, passed its checks and computed the new text; a check that
\* fails is an error of the call and changes nothing. assertExpectedSha256 (always in edit, in
\* apply_patch when given a hash, in write_file unless it creates or overwrites) lets pass a
\* text the agent has seen: any.
EditStarts ==
  /\ edit = NoEdit /\ Len(snapshots) < MaxSnapshots
  /\ \E after \in FileTexts : edit' = [pc |-> "read", before |-> TextOf(file), after |-> after]
  /\ revert' = [revert EXCEPT !.alone = FALSE]
  /\ UNCHANGED <<file, snapshots, torn, notes>>

\* edit: the old text, which is not empty, must be in the file.
StartEdit == file \notin {Missing, Empty} /\ EditStarts

\* apply_patch: a file that exists; a diff may add to an empty one.
StartPatch == file # Missing /\ EditStarts

\* write_file creates a file, or replaces the whole text.
StartWrite == EditStarts

(***************************************************************************)
(* commitTextEdit                                                          *)
(***************************************************************************)
Known(text) == \E i \in DOMAIN snapshots : text \in {snapshots[i].before, snapshots[i].after}
Loses(text) == TextOf(text) # Empty /\ ~Known(text)

\* writeFileSnapshot: mkdir, then a writeFile that creates the snapshot's file before it fills it.
OpenSnapshot ==
  /\ edit.pc = "read" /\ edit' = [edit EXCEPT !.pc = "opened"]
  /\ UNCHANGED <<file, snapshots, torn, revert, notes>>

\* createdAt is in milliseconds, two snapshots may have the same.
WriteSnapshot ==
  LET last == IF snapshots = << >> THEN 0 ELSE snapshots[Len(snapshots)].time IN
  /\ edit.pc = "opened"
  /\ \E time \in {last, last + 1} :
       snapshots' = Append(snapshots, [before |-> edit.before, after |-> edit.after, time |-> time])
  /\ edit' = [edit EXCEPT !.pc = "snapshot"]
  /\ origin' = IF snapshots = << >> THEN edit.before ELSE origin
  /\ meddled' = (meddled \/ (TextOf(file) # edit.before))
  /\ UNCHANGED <<file, torn, revert, lost, others>>

\* Either fails, and the edit with it; a file that was opened stays as it is, in the middle of
\* its text.
SnapshotFails ==
  /\ edit.pc \in {"read", "opened"} /\ edit' = NoEdit
  /\ torn' = (torn \/ edit.pc = "opened")
  /\ UNCHANGED <<file, snapshots, revert, notes>>

\* writeFile empties the file, then fills it.
Truncate(expected, forced) ==
  /\ file' = Empty
  /\ lost' = (lost \/ (TextOf(file) = expected /\ ~forced /\ Loses(file)))

EditTruncates ==
  /\ edit.pc = "snapshot" /\ Truncate(edit.before, FALSE)
  /\ edit' = [edit EXCEPT !.pc = "truncated"]
  /\ UNCHANGED <<snapshots, torn, revert, origin, meddled, others>>

\* The audit record and the result follow.
EditFills ==
  /\ edit.pc = "truncated" /\ file' = edit.after
  /\ edit' = NoEdit
  /\ UNCHANGED <<snapshots, torn, revert, notes>>

\* The write may fail, also when the file is empty already; the snapshot stays.
EditFails ==
  /\ edit.pc \in {"snapshot", "truncated"} /\ edit' = NoEdit
  /\ UNCHANGED <<file, snapshots, torn, revert, notes>>

(***************************************************************************)
(* revertSessionSnapshots                                                  *)
(***************************************************************************)
\* Faulty: the oldest first.
RevertOrders_Fault ==
  {o \in [DOMAIN snapshots -> DOMAIN snapshots] :
     \A i, j \in DOMAIN o : i < j => /\ o[i] # o[j]
                                     /\ snapshots[o[i]].time <= snapshots[o[j]].time}

\* The youngest first; those of one millisecond in any order.
RevertOrders ==
  {o \in [DOMAIN snapshots -> DOMAIN snapshots] :
     \A i, j \in DOMAIN o : i < j => /\ o[i] # o[j]
                                     /\ snapshots[o[i]].time >= snapshots[o[j]].time}

\* JSON.parse throws on a snapshot file that is empty or cut short.
Unreadable == torn \/ edit.pc = "opened"

\* A whole revert reads all snapshot files first, and throws if there is one it cannot read;
\* the revert of one snapshot reads only that one's.
StartRevert ==
  /\ revert = NoRevert /\ snapshots # << >>
  /\ \E force \in BOOLEAN :
       \/ /\ ~Unreadable
          /\ \E o \in RevertOrders :
               revert' = [NoRevert EXCEPT !.pc = "next", !.todo = o, !.force = force,
                                          !.alone = (edit = NoEdit)]
       \/ \E i \in DOMAIN snapshots :
            revert' = [NoRevert EXCEPT !.pc = "next", !.todo = <<i>>, !.force = force]
  /\ UNCHANGED <<file, edit, snapshots, torn, notes>>

\* Faulty: the text is not compared.
Skips_Fault(text, i) == FALSE

\* Is the snapshot skipped, given the text that was read? An empty one is never compared.
Skips(text, i) == ~revert.force /\ text # Empty /\ text # snapshots[i].after

RevertReads ==
  /\ revert.pc = "next" /\ revert.todo # << >>
  /\ revert' = IF Skips(TextOf(file), Head(revert.todo))
                 THEN [revert EXCEPT !.todo = Tail(@)]
                 ELSE [revert EXCEPT !.pc = "read", !.read = TextOf(file)]
  /\ UNCHANGED <<file, edit, snapshots, torn, notes>>

RevertTruncates ==
  /\ revert.pc = "read" /\ Truncate(revert.read, revert.force)
  /\ revert' = [revert EXCEPT !.pc = "truncated", !.read = Empty]
  /\ UNCHANGED <<edit, snapshots, torn, origin, meddled, others>>

RevertFills ==
  /\ revert.pc = "truncated" /\ file' = snapshots[Head(revert.todo)].before
  /\ revert' = [revert EXCEPT !.pc = "next", !.todo = Tail(@)]
  /\ UNCHANGED <<edit, snapshots, torn, notes>>

RevertEnds ==
  /\ revert.pc = "next" /\ revert.todo = << >>
  /\ revert' = NoRevert
  /\ UNCHANGED <<file, edit, snapshots, torn, notes>>

\* A read or a write fails, and the snapshots that are left are not reverted.
RevertFails ==
  /\ revert # NoRevert /\ revert' = NoRevert
  /\ UNCHANGED <<file, edit, snapshots, torn, notes>>

(***************************************************************************)
(* The others                                                              *)
(***************************************************************************)
\* The user's editor, a shell command, another session.
OtherWrites ==
  /\ others < MaxOthers /\ others' = others + 1
  /\ file' \in Files \ {file}
  /\ meddled' = (meddled \/ snapshots # << >>)
  /\ UNCHANGED <<edit, snapshots, torn, revert, origin, lost>>

\* The process dies and the session goes on in another.
EditDies ==
  /\ edit # NoEdit \/ revert # NoRevert
  /\ edit' = NoEdit /\ revert' = NoRevert
  /\ torn' = (torn \/ edit.pc = "opened")
  /\ UNCHANGED <<file, snapshots, notes>>

EditNext ==
  \/ StartEdit \/ StartPatch \/ StartWrite \/ OpenSnapshot \/ WriteSnapshot \/ SnapshotFails
  \/ EditTruncates \/ EditFills \/ EditFails
  \/ StartRevert \/ RevertReads \/ RevertTruncates \/ RevertFills \/ RevertEnds \/ RevertFails
  \/ OtherWrites \/ EditDies

EditSpec == EditInit /\ [][EditNext]_editVars

(***************************************************************************)
(* Properties                                                              *)
(***************************************************************************)
SameMillisecond == \E i, j \in DOMAIN snapshots : i # j /\ snapshots[i].time = snapshots[j].time

(* A whole revert that gets to its end gives back the text from before the     *)
(* session's first edit, after any edits, failures, other reverts and crashes, *)
(* if nobody else wrote the file and no two snapshots are of the same          *)
(* millisecond. A crash or a failure in the middle of a write to the file is   *)
(* among them; one in the middle of a write to a snapshot leaves nothing to    *)
(* say, for no whole revert begins after it: it throws on the torn snapshot.   *)
RevertRestores ==
  revert.pc = "next" /\ revert.todo = << >> /\ revert.alone /\ ~meddled /\ ~SameMillisecond
    => TextOf(file) = origin

(* A text that an edit or a revert overwrites as it has read it is in one of   *)
(* the session's snapshots, unless the revert is forced: a revert does not     *)
(* destroy what the user made of the file.                                     *)
NothingLost == ~lost
=============================================================================

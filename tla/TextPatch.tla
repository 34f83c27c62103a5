------------------------------ MODULE TextPatch -----------------------------
(* apply_patch with a unified diff (core/tools/builtins/apply-patch.ts): the   *)
(* loops of applyUnifiedDiff, a line at a time. A text is the sequence of its  *)
(* lines. The diffs are those a diff tool writes of a text, each changed line  *)
(* a hunk; the text they are applied to may be another by then.                *)
EXTENDS Sequences, Integers

CONSTANTS
  Lines,      \* what a line may say
  MaxText     \* bound on the lines of the text that is patched

ASSUME PatchAssumption == MaxText \in Nat

VARIABLES
  basis,    \* the text the diff was made of
  changes,  \* what the diff does to each of its lines
  source,   \* sourceLines: the text it is applied to
  hunks,    \* the hunks left
  rest,     \* the lines left of the hunk that is applied
  next,     \* sourceIndex, from 1
  output,   \* the lines put out
  status    \* "hunk", "body", "done", "mismatch", "empty"

patchVars == <<basis, changes, source, hunks, rest, next, output, status>>

Sources == UNION {[1..n -> Lines] : n \in 0..MaxText}
Changes == {<<"keep">>, <<"delete">>} \cup ({"replace", "add"} \X Lines)
DiffLine == {" ", "-", "+"} \X Lines
Hunk == [start : 1..MaxText, body : Seq(DiffLine)]

PatchTypeOK ==
  /\ {basis, source} \subseteq Sources /\ changes \in [DOMAIN basis -> Changes]
  /\ hunks \in Seq(Hunk) /\ rest \in Seq(DiffLine)
  /\ next \in 1..(MaxText + 1)
  /\ output \in Seq(Lines)
  /\ status \in {"hunk", "body", "done", "mismatch", "empty"}

\* What a change makes of its line, and how the diff says it.
ChangeLine(line, change) ==
  CASE change[1] = "keep" -> <<line>>
    [] change[1] = "delete" -> << >>
    [] change[1] = "replace" -> <<change[2]>>
    [] change[1] = "add" -> <<line, change[2]>>
HunkBody(line, change) ==
  CASE change[1] = "delete" -> << <<"-", line>> >>
    [] change[1] = "replace" -> << <<"-", line>>, <<"+", change[2]>> >>
    [] change[1] = "add" -> << <<" ", line>>, <<"+", change[2]>> >>
\* What the changes of the first n lines make of the text, and the diff that says so: a hunk
\* for each line that is not kept.
Described[n \in 0..Len(basis)] ==
  IF n = 0 THEN [text |-> << >>, hunks |-> << >>]
  ELSE LET before == Described[n - 1] IN
       [text |-> before.text \o ChangeLine(basis[n], changes[n]),
        hunks |-> IF changes[n][1] = "keep" THEN before.hunks
                  ELSE Append(before.hunks, [start |-> n, body |-> HunkBody(basis[n], changes[n])])]
Changed == Described[Len(basis)].text
Diff == Described[Len(basis)].hunks

PatchInit ==
  /\ basis \in Sources /\ changes \in [DOMAIN basis -> Changes]
  /\ source \in Sources
  /\ hunks = Diff /\ rest = << >>
  /\ next = 1 /\ output = << >>
  /\ status = IF hunks = << >> THEN "empty" ELSE "hunk"

\* Faulty: the line a hunk starts at is put out before it.
StartHunk_Fault ==
  /\ status = "hunk" /\ hunks # << >>
  /\ LET start == Head(hunks).start IN
     /\ output' = output \o SubSeq(source, next, IF start > Len(source) THEN Len(source) ELSE start)
     /\ next' = IF start > next THEN start ELSE next
  /\ rest' = Head(hunks).body /\ hunks' = Tail(hunks)
  /\ status' = "body"
  /\ UNCHANGED <<basis, changes, source>>

\* The lines before a hunk are put out. (Where the text is too short for that the code puts
\* out empty lines; the hunk's first line, one of the source, then fails the call.)
StartHunk ==
  /\ status = "hunk" /\ hunks # << >>
  /\ LET start == Head(hunks).start
         last == IF start > Len(source) THEN Len(source) ELSE start - 1
     IN
     /\ output' = output \o SubSeq(source, next, last)
     /\ next' = IF start > next THEN start ELSE next
  /\ rest' = Head(hunks).body /\ hunks' = Tail(hunks)
  /\ status' = "body"
  /\ UNCHANGED <<basis, changes, source>>

\* A line of the source, kept or removed: it must be the one the diff names.
SourceLine ==
  /\ status = "body" /\ rest # << >> /\ Head(rest)[1] \in {" ", "-"}
  /\ IF next <= Len(source) /\ source[next] = Head(rest)[2]
       THEN /\ output' = IF Head(rest)[1] = " " THEN Append(output, source[next]) ELSE output
            /\ next' = next + 1 /\ rest' = Tail(rest)
            /\ UNCHANGED status
       ELSE status' = "mismatch" /\ UNCHANGED <<output, next, rest>>
  /\ UNCHANGED <<basis, changes, source, hunks>>

AddedLine ==
  /\ status = "body" /\ rest # << >> /\ Head(rest)[1] = "+"
  /\ output' = Append(output, Head(rest)[2]) /\ rest' = Tail(rest)
  /\ UNCHANGED <<basis, changes, source, hunks, next, status>>

\* After the hunk comes another, or the rest of the source.
EndHunk ==
  /\ status = "body" /\ rest = << >>
  /\ IF hunks # << >>
       THEN status' = "hunk" /\ UNCHANGED <<output, next>>
       ELSE /\ status' = "done"
            /\ output' = output \o SubSeq(source, next, Len(source))
            /\ next' = Len(source) + 1
  /\ UNCHANGED <<basis, changes, source, hunks, rest>>

PatchNext == StartHunk \/ SourceLine \/ AddedLine \/ EndHunk

PatchSpec == PatchInit /\ [][PatchNext]_patchVars

(* A diff applied to the text it was made of gives the text it describes, and  *)
(* applied to any other text it fails unless the lines it names are there: it  *)
(* then changes the length of that text by what it adds less what it removes.  *)
PatchAsMeant ==
  /\ source = basis /\ status \in {"done", "mismatch"} => status = "done" /\ output = Changed
  /\ status = "done" => Len(output) - Len(source) = Len(Changed) - Len(basis)
=============================================================================

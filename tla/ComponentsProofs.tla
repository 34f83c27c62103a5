------------------------- MODULE ComponentsProofs --------------------------
(* The terminal UI, and the components together. On a terminal a permission is *)
(* allowed by a line typed after it was asked for, however many requests there *)
(* are and however much is typed; Enter acts on what the screen shows,         *)
(* whatever the commands, the models, the transcript and the size of the       *)
(* terminal; and what the commands on models and keys leave in the store       *)
(* starts again with the model and the key that are in use. Last, what is      *)
(* proved of each component holds when they are run together.                  *)
EXTENDS MCComponents, RuntimeProofs, WorkspaceFilesProofs

\* The map of the requests is total: approval changes only by EXCEPT and by whole functions.
ApprovalsTyped == approval \in [Approvals -> {"idle", "pending", "allowed", "denied"}]

\* Whose question is on the terminal is known: what is answered is one of the questions.
ActiveTyped == active \in Questions \cup {Nobody}

InputInv == ApprovalsTyped /\ ActiveTyped /\ ConsentSeen

(* An answer on a terminal keeps the invariant, because the line that gives it *)
(* is typed now: it has shown the user every request that is pending           *)
(* (onKeypress answers the active question and nothing from the queue).        *)
LEMMA AnswerKeeps ==
  ASSUME InputInv, NEW q \in Questions, NEW text \in Texts,
         Answer(q, [text |-> text, shown |-> Asked]), UNCHANGED tty
  PROVE  (ApprovalsTyped /\ ConsentSeen)'
<1> DEFINE l == [text |-> text, shown |-> Asked]
<1>0. l.text = text /\ l.shown = Asked
  OBVIOUS
<1>1. CASE q = Loop /\ AnswerLoop(l)
  BY <1>1 DEF AnswerLoop, InputInv, ApprovalsTyped, ConsentSeen
<1>2. CASE q # Loop /\ AnswerPermission(q, l)
  <2>1. q \in Approvals
    BY <1>2 DEF Questions
  <2>2. CASE text = "yes"
    <3>1. approval' = Decided(approval, q, "allowed")
      BY <1>0, <1>2, <2>2 DEF AnswerPermission
    <3>2. informed' = IF q \in Pending THEN informed \cup {q} ELSE informed
      BY <1>0, <1>2, <2>1, <2>2 DEF AnswerPermission, Asked, Pending
    <3> QED
      BY <2>1, <3>1, <3>2 DEF InputInv, ApprovalsTyped, ConsentSeen, Decided, Pending
  <2>3. CASE text # "yes"
    <3>1. informed' = informed
      BY <1>0, <1>2, <2>3 DEF AnswerPermission
    <3>2. approval' = AllDenied(approval) \/ approval' = Decided(approval, q, "denied")
      BY <1>0, <1>2, <2>3 DEF AnswerPermission
    <3> QED
      BY <2>1, <3>1, <3>2 DEF InputInv, ApprovalsTyped, ConsentSeen, Decided, AllDenied
  <2> QED
    BY <2>2, <2>3
<1> QED
  BY <1>1, <1>2 DEF Answer

(* On a terminal a line of the queue is never an answer (question() takes one  *)
(* from it on a pipe only), so a request that is made is pending or denied.    *)
LEMMA RequestKeeps ==
  ASSUME InputInv, NEW a \in Approvals, RequestPermission(a)
  PROVE  (ApprovalsTyped /\ ConsentSeen)'
<1>1. CASE tty
  <2>1. \/ approval' = [approval EXCEPT ![a] = "pending"]
        \/ approval' = [[approval EXCEPT ![a] = "pending"] EXCEPT ![a] = "denied"]
    BY <1>1 DEF RequestPermission, TakesLine
  <2>2. UNCHANGED <<tty, informed>>
    BY <1>1 DEF RequestPermission, TakesLine
  <2> QED
    BY <2>1, <2>2 DEF InputInv, ApprovalsTyped, ConsentSeen
<1>2. CASE ~tty
  <2>1. tty' = tty
    BY DEF RequestPermission
  <2>2. \E d \in {"pending", "allowed", "denied"} :
          approval' = [[approval EXCEPT ![a] = "pending"] EXCEPT ![a] = d]
    BY DEF RequestPermission, InputInv, ApprovalsTyped
  <2> QED
    BY <1>2, <2>1, <2>2 DEF InputInv, ApprovalsTyped, ConsentSeen
<1> QED
  BY <1>1, <1>2

(* Every line typed keeps the invariant: on a terminal it answers the active   *)
(* question, aborts the run, or is queued; on a pipe nothing is promised.      *)
LEMMA TypeLineKeeps ==
  ASSUME InputInv, TypeLine
  PROVE  (ApprovalsTyped /\ ConsentSeen)'
<1>1. PICK text \in Texts :
        LET input == [text |-> text, shown |-> Asked] IN TypeLineTty(input) \/ TypeLinePipe(input)
  BY DEF TypeLine
<1> DEFINE l == [text |-> text, shown |-> Asked]
<1>2. CASE TypeLineTty(l)
  <2>1. CASE active # Nobody /\ Answer(active, l) /\ UNCHANGED tty
    BY <2>1, AnswerKeeps DEF InputInv, ActiveTyped
  <2>2. CASE BackgroundAbort
    BY <2>2 DEF BackgroundAbort, AllDenied, InputInv, ApprovalsTyped, ConsentSeen
  <2>3. CASE UNCHANGED <<tty, approval, informed>>
    BY <2>3 DEF InputInv, ApprovalsTyped, ConsentSeen
  <2> QED
    BY <1>2, <2>1, <2>2, <2>3 DEF TypeLineTty
<1>3. CASE TypeLinePipe(l)
  <2>1. ~tty /\ tty' = tty
    BY <1>3 DEF TypeLinePipe, BackgroundAbort
  <2>2. approval' \in [Approvals -> {"idle", "pending", "allowed", "denied"}]
    BY <1>3 DEF TypeLinePipe, BackgroundAbort, AllDenied, Answer, AnswerLoop,
                AnswerPermission, Decided, InputInv, ApprovalsTyped
  <2> QED
    BY <2>1, <2>2 DEF InputInv, ApprovalsTyped, ConsentSeen
<1> QED
  BY <1>1, <1>2, <1>3

(* What each step makes of the active question: it stays, is replaced by one   *)
(* (QuestionTty), or is answered or dropped.                                   *)
LEMMA ActiveStaysTyped ==
  ASSUME ActiveTyped, TuiNext
  PROVE  ActiveTyped'
<1>1. ASSUME NEW q \in Questions, QuestionTty(q)  PROVE ActiveTyped'
  BY <1>1 DEF QuestionTty, ActiveTyped
<1>2. CASE LoopAsks
  BY <1>1, <1>2 DEF LoopAsks, QuestionWaits, TakesLine, AfterEnd, inputVars, Questions, ActiveTyped
<1>3. ASSUME NEW a \in Approvals, RequestPermission(a)  PROVE ActiveTyped'
  BY <1>1, <1>3
     DEF RequestPermission, QuestionWaits, TakesLine, AfterEnd, inputVars, Questions, ActiveTyped
<1>4. ASSUME NEW a \in Approvals, PermissionExpires(a)  PROVE ActiveTyped'
  BY <1>4 DEF PermissionExpires, inputVars, ActiveTyped
<1>5. CASE StartRun \/ RunEnds
  BY <1>5 DEF StartRun, RunEnds, ActiveTyped
<1>6. CASE TypeLine
  <2>1. active' = Nobody \/ active' = active
    BY <1>6 DEF TypeLine, TypeLineTty, TypeLinePipe, BackgroundAbort, inputVars
  <2> QED
    BY <2>1 DEF ActiveTyped
<1>7. CASE EndInput \/ InterruptRun
  BY <1>7 DEF EndInput, Finish, InterruptRun, BackgroundAbort, inputVars, ActiveTyped
<1> QED
  BY <1>2, <1>3, <1>4, <1>5, <1>6, <1>7 DEF TuiNext

LEMMA InputStart == TuiInit => InputInv
  BY DEF TuiInit, InputInv, ApprovalsTyped, ActiveTyped, ConsentSeen

(* One step per action: only an answer and a request touch who is allowed      *)
(* what, the others deny at most (a timer, an abort, the end of the input).    *)
LEMMA InputStep == InputInv /\ [TuiNext]_tuiVars => InputInv'
<1> SUFFICES ASSUME InputInv, [TuiNext]_tuiVars  PROVE InputInv'
  OBVIOUS
<1>1. CASE UNCHANGED tuiVars
  BY <1>1 DEF tuiVars, inputVars, InputInv, ApprovalsTyped, ActiveTyped, ConsentSeen
<1>2. CASE TuiNext
  <2>1. ActiveTyped'
    BY <1>2, ActiveStaysTyped DEF InputInv
  <2>2. CASE LoopAsks \/ StartRun \/ RunEnds
    <3>1. UNCHANGED <<tty, approval, informed>>
      BY <2>2 DEF LoopAsks, AnswerLoop, StartRun, RunEnds
    <3> QED
      BY <2>1, <3>1 DEF InputInv, ApprovalsTyped, ConsentSeen
  <2>3. ASSUME NEW a \in Approvals, RequestPermission(a)  PROVE InputInv'
    BY <2>1, <2>3, RequestKeeps DEF InputInv
  <2>4. ASSUME NEW a \in Approvals, PermissionExpires(a)  PROVE InputInv'
    BY <2>1, <2>4 DEF PermissionExpires, InputInv, ApprovalsTyped, ConsentSeen
  <2>5. CASE TypeLine
    BY <2>1, <2>5, TypeLineKeeps DEF InputInv
  <2>6. CASE EndInput
    BY <2>1, <2>6 DEF EndInput, Finish, InputInv, ApprovalsTyped, ConsentSeen
  <2>7. CASE InterruptRun
    BY <2>1, <2>7
       DEF InterruptRun, BackgroundAbort, AllDenied, InputInv, ApprovalsTyped, ConsentSeen
  <2> QED
    BY <1>2, <2>2, <2>3, <2>4, <2>5, <2>6, <2>7 DEF TuiNext
<1> QED
  BY <1>1, <1>2

(* However requests, timers, aborts, keys and the end of the input are ordered *)
(* (adapters/tui/controller.ts), nothing on a terminal is allowed by a line    *)
(* typed before it was asked for.                                              *)
THEOREM ConsentIsSeen == TuiSpec => []ConsentSeen
<1>1. InputInv => ConsentSeen
  BY DEF InputInv
<1> QED
  BY InputStart, InputStep, <1>1, PTL DEF TuiSpec

\* Who waits, and what was typed: with ApprovalsTyped and ActiveTyped, the types of the input.
QueuesTyped ==
  /\ tty \in BOOLEAN /\ closed \in BOOLEAN /\ listening \in BOOLEAN /\ runAborted \in BOOLEAN
  /\ waiters \in Seq(Questions) /\ lines \in Seq(Line)
  /\ loop \in {"ready", "asking", "preparing", "running", "over"}
  /\ informed \subseteq Approvals /\ typed \in 0..MaxLines

\* A question asked puts its owner, and nothing else, into the queue, and takes a line from the other.
LEMMA QuestionTypes ==
  ASSUME QueuesTyped, NEW q \in Questions
  PROVE  /\ QuestionTty(q) \/ QuestionWaits(q) \/ TakesLine \/ AfterEnd =>
              waiters' \in Seq(Questions) /\ lines' \in Seq(Line) /\ UNCHANGED <<closed, listening>>
         /\ TakesLine => Head(lines) \in Line
<1>1. QuestionTty(q) \/ AfterEnd => UNCHANGED <<waiters, lines, closed, listening>>
  BY DEF QuestionTty, AfterEnd, inputVars
<1>2. QuestionWaits(q) => waiters' = Append(waiters, q) /\ UNCHANGED <<lines, closed, listening>>
  BY DEF QuestionWaits
<1>3. Append(waiters, q) \in Seq(Questions)
  BY AppendProperties DEF QueuesTyped
<1>4. TakesLine => lines # << >> /\ lines' = Tail(lines) /\ UNCHANGED <<waiters, closed, listening>>
  BY DEF TakesLine
<1>5. lines # << >> => Head(lines) \in Line /\ Tail(lines) \in Seq(Line)
  BY HeadTailProperties DEF QueuesTyped
<1> QED
  BY <1>1, <1>2, <1>3, <1>4, <1>5 DEF QueuesTyped

\* What an answer changes beside the map of the requests.
LEMMA AnswerTypes ==
  ASSUME QueuesTyped, NEW q \in Questions, NEW l, Answer(q, l)
  PROVE  /\ loop' \in {"ready", "asking", "preparing", "running", "over"}
         /\ runAborted' \in BOOLEAN /\ informed' \subseteq Approvals
<1>1. CASE AnswerLoop(l)
  BY <1>1 DEF AnswerLoop, QueuesTyped
<1>2. CASE q # Loop /\ AnswerPermission(q, l)
  <2>1. q \in Approvals
    BY <1>2 DEF Questions
  <2>2. loop' = loop /\ informed' \in {informed, informed \cup {q}}
    BY <1>2 DEF AnswerPermission
  <2>3. runAborted' = (runAborted \/ (l.text = "/abort" /\ q \in Pending))
    BY <1>2 DEF AnswerPermission
  <2>4. runAborted' \in BOOLEAN
    BY <2>3
  <2> QED
    BY <2>1, <2>2, <2>4 DEF QueuesTyped
<1> QED
  BY <1>1, <1>2 DEF Answer

\* A line answers the active question or the first that waits, aborts, or is queued.
LEMMA LineTypes ==
  ASSUME InputInv, QueuesTyped, TypeLine
  PROVE  QueuesTyped'
<1>1. PICK text \in Texts :
        LET input == [text |-> text, shown |-> Asked] IN TypeLineTty(input) \/ TypeLinePipe(input)
  BY DEF TypeLine
<1> DEFINE l == [text |-> text, shown |-> Asked]
<1>2. l \in Line
  BY DEF Line, Asked
<1> HIDE DEF l
<1>3. typed' \in 0..MaxLines
  BY InputAssumption DEF TypeLine, QueuesTyped
<1>4. Append(lines, l) \in Seq(Line)
  BY <1>2, AppendProperties DEF QueuesTyped
<1>5. waiters # << >> => Head(waiters) \in Questions /\ Tail(waiters) \in Seq(Questions)
  BY HeadTailProperties DEF QueuesTyped
<1>6. CASE BackgroundAbort
  BY <1>3, <1>6 DEF BackgroundAbort, inputVars, QueuesTyped
<1>7. CASE /\ lines' \in {lines, Append(lines, l)}
           /\ UNCHANGED <<tty, waiters, closed, listening, loop, runAborted, informed>>
  BY <1>3, <1>4, <1>7 DEF QueuesTyped
<1>8. ASSUME NEW q \in Questions, Answer(q, l), waiters' \in Seq(Questions),
             UNCHANGED <<tty, lines, closed, listening>>
      PROVE  QueuesTyped'
  BY <1>3, <1>8, AnswerTypes DEF QueuesTyped
<1>9. CASE TypeLineTty(l)
  <2>1. CASE active # Nobody /\ Answer(active, l) /\ UNCHANGED <<tty, waiters, lines, closed, listening>>
    BY <1>8, <2>1 DEF InputInv, ActiveTyped, QueuesTyped
  <2> QED
    BY <1>6, <1>7, <1>9, <2>1 DEF TypeLineTty
<1>10. CASE TypeLinePipe(l)
  <2>1. CASE /\ waiters # << >> /\ waiters' = Tail(waiters) /\ Answer(Head(waiters), l)
             /\ UNCHANGED <<tty, lines, closed, listening>>
    BY <1>5, <1>8, <2>1
  <2> QED
    BY <1>6, <1>7, <1>10, <2>1 DEF TypeLinePipe
<1> QED
  BY <1>1, <1>9, <1>10 DEF l

LEMMA QueuesStayTyped ==
  ASSUME InputInv, QueuesTyped, [TuiNext]_tuiVars
  PROVE  QueuesTyped'
<1>1. CASE UNCHANGED tuiVars
  BY <1>1 DEF tuiVars, inputVars, QueuesTyped
<1>2. CASE LoopAsks
  <2>1. CASE (QuestionTty(Loop) \/ QuestionWaits(Loop)) /\ loop' = "asking" /\ UNCHANGED <<runAborted, informed>>
    BY <1>2, <2>1, QuestionTypes DEF LoopAsks, Questions, QueuesTyped
  <2>2. CASE TakesLine /\ AnswerLoop(Head(lines))
    BY <1>2, <2>2, QuestionTypes DEF LoopAsks, AnswerLoop, Questions, QueuesTyped
  <2>3. CASE AfterEnd /\ loop' = "over" /\ UNCHANGED <<runAborted, informed>>
    BY <1>2, <2>3, QuestionTypes DEF LoopAsks, Questions, QueuesTyped
  <2> QED
    BY <1>2, <2>1, <2>2, <2>3 DEF LoopAsks
<1>3. CASE StartRun
  <2> DEFINE S == {i \in DOMAIN lines : lines[i].text # "/abort"}
  <2>1. PickAt(lines, S) \in Seq(Line)
    <3>1. lines \in Seq(Line) /\ S \in SUBSET DOMAIN lines
      BY DEF QueuesTyped
    <3> HIDE DEF S
    <3> QED
      BY <3>1, PickedTyped
  <2>2. lines' = PickAt(lines, S) /\ runAborted' \in BOOLEAN
    BY <1>3 DEF StartRun
  <2> QED
    BY <1>3, <2>1, <2>2 DEF StartRun, QueuesTyped
<1>4. CASE RunEnds
  BY <1>4 DEF RunEnds, QueuesTyped
<1>5. ASSUME NEW a \in Approvals, RequestPermission(a)  PROVE QueuesTyped'
  <2>1. waiters' \in Seq(Questions) /\ lines' \in Seq(Line) /\ UNCHANGED <<closed, listening>>
    BY <1>5, QuestionTypes DEF RequestPermission, Questions
  <2>2. UNCHANGED <<tty, loop, typed, runAborted, informed>>
    BY <1>5 DEF RequestPermission
  <2> QED
    BY <2>1, <2>2 DEF QueuesTyped
<1>6. ASSUME NEW a \in Approvals, PermissionExpires(a)  PROVE QueuesTyped'
  BY <1>6 DEF PermissionExpires, inputVars, QueuesTyped
<1>7. CASE TypeLine
  BY <1>7, LineTypes
<1>8. CASE EndInput
  <2>1. << >> \in Seq(Questions)
    OBVIOUS
  <2> QED
    BY <1>8, <2>1 DEF EndInput, Finish, QueuesTyped
<1>9. CASE InterruptRun
  BY <1>9 DEF InterruptRun, BackgroundAbort, inputVars, QueuesTyped
<1> QED
  BY <1>1, <1>2, <1>3, <1>4, <1>5, <1>6, <1>7, <1>8, <1>9 DEF TuiNext

LEMMA QueuesStart == TuiInit => QueuesTyped
<1> SUFFICES ASSUME TuiInit  PROVE QueuesTyped
  OBVIOUS
<1>1. waiters \in Seq(Questions) /\ lines \in Seq(Line)
  BY DEF TuiInit
<1>2. typed \in 0..MaxLines
  BY InputAssumption DEF TuiInit
<1> QED
  BY <1>1, <1>2 DEF TuiInit, QueuesTyped

(* What the terminal UI keeps of its input has its types, for any requests and *)
(* any number of lines: who is answered is the loop or a request that was      *)
(* asked (adapters/tui/controller.ts, question and finish).                    *)
THEOREM InputTypeCorrect == TuiSpec => []TuiTypeOK
<1>1. InputInv /\ QueuesTyped => TuiTypeOK
  BY DEF InputInv, ApprovalsTyped, ActiveTyped, QueuesTyped, TuiTypeOK
<1> QED
  BY InputStart, InputStep, QueuesStart, QueuesStayTyped, <1>1, PTL DEF TuiSpec

(***************************************************************************)
(* The keyboard                                                            *)
(***************************************************************************)
\* A row of the menu, or of the picker's list, is selected whenever there is one.
MenuFits == selected \in Nat /\ (Len(Menu) > 0 => selected < Len(Menu))

\* In copy mode the cursor is a line of the transcript, not above the view, and not below it
\* unless the terminal was made smaller.
ViewFollows ==
  /\ body \in Heights
  /\ mode = "copy" => /\ line \in 0..(Transcript - 1)
                      /\ top \in 0..line
                      /\ ~shrunk => line < top + body

EditorInv == MenuFits /\ ViewFollows

\* The menu and the picker list some of the commands and of the models, in their order.
LEMMA MenuTyped ==
  ASSUME NEW text
  PROVE  Suggestions(text) \in Seq(Seq(Chars)) /\ Filtered(text) \in Seq(Seq(Chars))
<1> DEFINE S == {h \in DOMAIN Hints : IsPrefix(TrimStart(text), Hints[h])}
           contains(name) == \E i \in 0..Len(name) : IsPrefix(Trim(text), SubSeq(name, i + 1, Len(name)))
           F == {m \in DOMAIN Catalog : contains(Catalog[m])}
<1>1. Suggestions(text) \in {<< >>, PickAt(Hints, S)} /\ Filtered(text) \in {Catalog, PickAt(Catalog, F)}
  BY DEF Suggestions, Filtered
<1>2. S \in SUBSET DOMAIN Hints /\ F \in SUBSET DOMAIN Catalog
  OBVIOUS
<1> HIDE DEF S, F
<1>3. PickAt(Hints, S) \in Seq(Seq(Chars)) /\ PickAt(Catalog, F) \in Seq(Seq(Chars))
  BY <1>2, PickedTyped, EditorAssumption
<1>4. << >> \in Seq(Seq(Chars)) /\ Catalog \in Seq(Seq(Chars))
  BY EditorAssumption
<1> QED
  BY <1>1, <1>3, <1>4, Zenon

\* What is in the list at first, and that its length is a number.
LEMMA MenuLengths ==
  /\ \A text : Len(Suggestions(text)) \in Nat /\ Len(Filtered(text)) \in Nat
  /\ Suggestions(<< >>) = << >>
  /\ Filtered(<< >>) = Catalog
<1>1. Inked(<< >>) = {}
  BY DEF Inked
<1>2. Suggestions(<< >>) = << >> /\ Filtered(<< >>) = Catalog
  BY <1>1 DEF Suggestions, Filtered, TrimStart, Trim
<1>3. \A text : Len(Suggestions(text)) \in Nat /\ Len(Filtered(text)) \in Nat
  BY MenuTyped, LenProperties
<1> QED
  BY <1>2, <1>3

\* Whatever the list, its first row is in it.
LEMMA FirstRowFits ==
  ASSUME selected' = 0
  PROVE  MenuFits'
<1>1. Len(Menu') \in Nat
  BY MenuLengths DEF Menu
<1> QED
  BY <1>1 DEF MenuFits

(* Every edit of the line selects the first row again (selectedIndex = 0 in    *)
(* onKeypress); only the arrows select another, modulo the length of the list. *)
LEMMA EditKeyKeeps ==
  ASSUME MenuFits, EditKey
  PROVE  MenuFits'
<1>1. CASE \/ Insert \/ Backspace \/ DeleteChar \/ KillToEnd \/ KillToStart \/ KillWord
           \/ AcceptSuggestion \/ NavigateHistory \/ Enter
  <2>1. selected' = 0
    BY <1>1 DEF Insert, Backspace, DeleteChar, KillToEnd, KillToStart, KillWord, Edited,
                AcceptSuggestion, NavigateHistory, Show, Enter
  <2> QED
    BY <2>1, FirstRowFits
<1>2. CASE MoveCursor
  BY <1>2 DEF MoveCursor, EditKey, MenuFits, Menu
<1>3. CASE MoveSuggestion
  <2> DEFINE n == Len(Suggestions(value))
  <2>1. n > 0 /\ n \in Nat
    BY <1>3, MenuLengths DEF MoveSuggestion
  <2>2. selected' \in 0..(n - 1)
    <3>1. PICK delta \in {-1, 1} : selected' = (selected + delta + n) % n
      BY <1>3 DEF MoveSuggestion
    <3>2. selected + delta + n \in Int
      BY <2>1 DEF MenuFits
    <3> HIDE DEF n
    <3> QED
      BY <2>1, <3>1, <3>2
  <2>3. Len(Menu') = n
    BY <1>3 DEF MoveSuggestion, EditKey, Menu
  <2> QED
    BY <2>1, <2>2, <2>3 DEF MenuFits
<1> QED
  BY <1>1, <1>2, <1>3 DEF EditKey

(* The picker opens on the whole catalogue (an empty query filters nothing) and *)
(* closes on an empty line; a key that changes the query selects the first row. *)
LEMMA PickerKeeps ==
  ASSUME MenuFits, OpenPicker \/ PickerQuery \/ PickerMove \/ ClosePicker
  PROVE  MenuFits'
<1>1. CASE OpenPicker
  <2>1. Menu' = Catalog
    BY <1>1, MenuLengths DEF OpenPicker, Menu
  <2>2. Len(Catalog) \in Nat
    BY MenuLengths
  <2>3. selected' = 0 \/ selected' \in 0..(Len(Catalog) - 1)
    BY <1>1 DEF OpenPicker
  <2> QED
    BY <2>1, <2>2, <2>3 DEF MenuFits
<1>2. CASE PickerQuery \/ ClosePicker
  BY <1>2, FirstRowFits DEF PickerQuery, ClosePicker
<1>3. CASE PickerMove
  <2> DEFINE n == Len(Filtered(query))
  <2>1. n > 0 /\ n \in Nat
    BY <1>3, MenuLengths DEF PickerMove
  <2>2. selected' \in 0..(n - 1)
    <3>1. PICK delta \in {-1, 1} : selected' = (selected + delta + n) % n
      BY <1>3 DEF PickerMove
    <3>2. selected + delta + n \in Int
      BY <2>1 DEF MenuFits
    <3> HIDE DEF n
    <3> QED
      BY <2>1, <3>1, <3>2
  <2>3. Len(Menu') = n
    BY <1>3 DEF PickerMove, Menu
  <2> QED
    BY <2>1, <2>2, <2>3 DEF MenuFits
<1> QED
  BY <1>1, <1>2, <1>3

(* Cursor and view move by rules of their own (onCopyModeKeypress), and stay    *)
(* together for every length of the transcript and every height.               *)
LEMMA CopyKeyKeeps ==
  ASSUME ViewFollows, CopyKey
  PROVE  ViewFollows'
<1>1. /\ mode = "copy" /\ UNCHANGED <<mode, body, shrunk>>
      /\ Transcript \in Nat /\ body \in Nat \ {0}
  BY EditorAssumption DEF CopyKey, ViewFollows
<1>2. line \in 0..(Transcript - 1) /\ top \in 0..line /\ (~shrunk => line < top + body)
  BY <1>1 DEF ViewFollows
<1>3. /\ Bottom \in 0..(Transcript - 1) /\ Transcript - 1 < Bottom + body
      /\ Bottom >= Transcript - body
  BY <1>1, <1>2 DEF Bottom, Greater
<1>4. SUFFICES /\ line' \in 0..(Transcript - 1) /\ top' \in 0..line'
               /\ ~shrunk => line' < top' + body
  BY <1>1 DEF ViewFollows
<1>5. CASE CopyUp
  BY <1>1, <1>2, <1>5 DEF CopyUp, Lesser, Greater
<1>6. CASE CopyDown
  BY <1>1, <1>2, <1>6 DEF CopyDown, Lesser
<1>7. CASE CopyPageUp
  BY <1>1, <1>2, <1>7 DEF CopyPageUp, Greater
<1>8. CASE CopyPageDown
  BY <1>1, <1>2, <1>3, <1>8 DEF CopyPageDown, Lesser
<1>9. CASE CopyEnds
  BY <1>1, <1>2, <1>3, <1>9 DEF CopyEnds
<1>10. CASE ToggleSelection /\ UNCHANGED <<line, top>>
  BY <1>2, <1>10
<1> QED
  BY <1>5, <1>6, <1>7, <1>8, <1>9, <1>10 DEF CopyKey

\* What fits on a screen fits on a taller one.
LEMMA Taller ==
  ASSUME NEW i \in Int, NEW first \in Int, NEW b \in Int, NEW c \in Int, i < first + b, c >= b
  PROVE  i < first + c
  OBVIOUS

LEMMA EditorStart == EditorInit => EditorInv
<1> SUFFICES ASSUME EditorInit  PROVE EditorInv
  OBVIOUS
<1>1. MenuFits
  BY MenuLengths DEF EditorInit, MenuFits, Menu
<1>2. ViewFollows
  BY DEF EditorInit, ViewFollows
<1> QED
  BY <1>1, <1>2 DEF EditorInv

LEMMA EditorStep == EditorInv /\ [EditorNext]_editorVars => EditorInv'
<1> SUFFICES ASSUME MenuFits, ViewFollows, [EditorNext]_editorVars  PROVE MenuFits' /\ ViewFollows'
  BY DEF EditorInv
<1>1. CASE EditKey
  <2>1. ViewFollows'
    BY <1>1 DEF EditKey, ViewFollows
  <2> QED
    BY <1>1, <2>1, EditKeyKeeps
<1>2. CASE OpenPicker \/ PickerQuery \/ PickerMove \/ ClosePicker
  <2>1. ViewFollows'
    BY <1>2 DEF OpenPicker, PickerQuery, PickerMove, ClosePicker, ViewFollows, copying
  <2> QED
    BY <1>2, <2>1, PickerKeeps
<1>3. CASE EnterCopyMode
  <2>1. MenuFits'
    BY <1>3 DEF EnterCopyMode, editor, MenuFits, Menu
  <2>2. body' = body /\ body \in Nat \ {0} /\ Transcript \in Nat \ {0}
    BY <1>3, EditorAssumption DEF EnterCopyMode, ViewFollows
  <2>3. line' = Transcript - 1 /\ top' = Bottom
    BY <1>3 DEF EnterCopyMode
  <2>4. Bottom \in 0..(Transcript - 1) /\ Transcript - 1 < Bottom + body
    BY <2>2 DEF Bottom, Greater
  <2> QED
    BY <2>1, <2>2, <2>3, <2>4 DEF ViewFollows
<1>4. CASE CopyKey
  <2>1. MenuFits'
    BY <1>4 DEF CopyKey, editor, MenuFits, Menu
  <2> QED
    BY <1>4, <2>1, CopyKeyKeeps
<1>5. CASE LeaveCopyMode
  BY <1>5 DEF LeaveCopyMode, editor, MenuFits, Menu, ViewFollows
<1>6. CASE Resize
  <2>1. MenuFits'
    BY <1>6 DEF Resize, editor, MenuFits, Menu
  <2>2. body' \in Heights /\ body' \in Nat /\ body \in Nat
    BY <1>6, EditorAssumption DEF Resize, ViewFollows
  <2>3. mode' = mode /\ line' = line /\ top' = top /\ mode = "copy"
    BY <1>6 DEF Resize, copying
  <2>4. shrunk' = (shrunk \/ body' < body)
    BY <1>6 DEF Resize
  <2>5. ASSUME ~shrunk'  PROVE ~shrunk /\ ~(body' < body)
    BY <2>4, <2>5, Zenon
  <2>6. line \in 0..(Transcript - 1) /\ top \in 0..line /\ (~shrunk => line < top + body)
    BY <2>3 DEF ViewFollows
  <2>7. ASSUME ~shrunk'  PROVE line' < top' + body'
    <3>1. line < top + body
      BY <2>5, <2>6, <2>7
    <3>2. body' >= body
      BY <2>2, <2>5, <2>7
    <3>3. line \in Int /\ top \in Int
      BY <2>6, EditorAssumption
    <3>4. body \in Int /\ body' \in Int
      BY <2>2
    <3>5. line < top + body'
      BY <3>1, <3>2, <3>3, <3>4, Taller
    <3>6. line' = line /\ top' = top
      BY <2>3
    <3> QED
      BY <3>5, <3>6, Zenon
  <2> QED
    BY <2>1, <2>2, <2>3, <2>6, <2>7 DEF ViewFollows
<1>7. CASE UNCHANGED editorVars
  BY <1>7 DEF editorVars, editor, copying, MenuFits, Menu, ViewFollows
<1> QED
  BY <1>1, <1>2, <1>3, <1>4, <1>5, <1>6, <1>7 DEF EditorNext

(* Whatever is typed, accepted, recalled, filtered and scrolled, Enter acts on *)
(* a row or a line that is on the screen (adapters/tui/controller.ts).         *)
THEOREM EnterActsOnTheShown == EditorSpec => []EnterActsOnShown
<1>1. EditorInv => EnterActsOnShown
  <2> SUFFICES ASSUME MenuFits, ViewFollows  PROVE EnterActsOnShown
    BY DEF EditorInv
  <2>1. ASSUME mode = "copy", ~shrunk  PROVE line \in OnScreen
    <3>1. Transcript \in Nat /\ body \in Nat \ {0}
      BY EditorAssumption DEF ViewFollows
    <3>2. line \in 0..(Transcript - 1) /\ top \in 0..line /\ line < top + body
      BY <2>1 DEF ViewFollows
    <3> QED
      BY <3>1, <3>2 DEF OnScreen, Offset, Bottom, Lesser, Greater
  <2> QED
    BY <2>1 DEF MenuFits, EnterActsOnShown
<1> QED
  BY EditorStart, EditorStep, <1>1, PTL DEF EditorSpec

\* The line, its past and the query are text, and the cursor is a place of the line.
LineTyped ==
  /\ value \in Seq(Chars) /\ cursor \in 0..Len(value) /\ query \in Seq(Chars)
  /\ history \in Seq(Seq(Chars)) /\ recalled \in -1..(Len(history) - 1) /\ draft \in Seq(Chars)

\* Copy mode is entered when there is a line to copy.
CopyTyped ==
  /\ mode \in {"edit", "picker", "copy"} /\ shrunk \in BOOLEAN
  /\ line \in 0..Transcript /\ top \in 0..Transcript /\ selection \in -1..Transcript

\* What is before and after a place of the line.
LEMMA HalvesTyped ==
  ASSUME LineTyped, NEW n \in 0..Len(value)
  PROVE  /\ Before(n) \in Seq(Chars) /\ Len(Before(n)) = n
         /\ After(n) \in Seq(Chars) /\ Len(After(n)) = Len(value) - n
         /\ Before(n) \o After(n) \in Seq(Chars)
<1>1. Len(value) \in Nat /\ \A i \in 1..Len(value) : value[i] \in Chars
  BY LenProperties, ElementOfSeq DEF LineTyped
<1>2. Before(n) \in Seq(Chars) /\ Len(Before(n)) = n
  <2>1. \A i \in 1..n : value[i] \in Chars
    BY <1>1
  <2>2. SubSeq(value, 1, n) \in Seq(Chars) /\ Len(SubSeq(value, 1, n)) = IF 1 <= n THEN n - 1 + 1 ELSE 0
    BY <2>1, SubSeqProperties
  <2> QED
    BY <2>2 DEF Before
<1>3. After(n) \in Seq(Chars) /\ Len(After(n)) = Len(value) - n
  <2>1. \A i \in (n + 1)..Len(value) : value[i] \in Chars
    BY <1>1
  <2>2. /\ SubSeq(value, n + 1, Len(value)) \in Seq(Chars)
        /\ Len(SubSeq(value, n + 1, Len(value))) =
             IF n + 1 <= Len(value) THEN Len(value) - (n + 1) + 1 ELSE 0
    BY <1>1, <2>1, SubSeqProperties
  <2> QED
    BY <1>1, <2>2 DEF After
<1> QED
  BY <1>2, <1>3, ConcatProperties

(* The word before the cursor starts somewhere before it: the stretch that is  *)
(* empty qualifies, so there is a longest one.                                 *)
LEMMA WordStartTyped ==
  ASSUME LineTyped
  PROVE  WordStart \in 0..cursor
<1> DEFINE stretch(p) == \A i, j \in (p + 1)..cursor : i < j /\ value[i] = Space => value[j] = Space
           P == {p \in 0..cursor : stretch(p)}
<1>1. cursor \in Nat
  BY LenProperties DEF LineTyped
<1>2. cursor \in P
  BY <1>1
<1>3. PICK p \in P : \A q \in P : ~(q < p)
  <2>1. P \in SUBSET Nat /\ P # {}
    BY <1>1, <1>2
  <2>2. IsWellFoundedOn(OpToRel(<, Nat), Nat)
    BY NatLessThanWellFounded
  <2> HIDE DEF P
  <2>3. \E p \in P : \A q \in P : ~(<<q, p>> \in OpToRel(<, Nat))
    BY <2>1, <2>2, WFMin
  <2> QED
    BY <2>1, <2>3 DEF OpToRel
<1>4. p \in 0..cursor /\ stretch(p)
  OBVIOUS
<1>5. p > 0 => ~stretch(p - 1)
  <2> SUFFICES ASSUME p > 0, stretch(p - 1)  PROVE FALSE
    OBVIOUS
  <2>1. p - 1 \in P
    BY <1>1, <1>4
  <2> HIDE DEF P, stretch
  <2> QED
    BY <1>1, <1>3, <1>4, <2>1
<1> HIDE DEF P
<1>6. \E n \in 0..cursor : stretch(n) /\ (n > 0 => ~stretch(n - 1))
  BY <1>4, <1>5
<1>7. WordStart = CHOOSE n \in 0..cursor : stretch(n) /\ (n > 0 => ~stretch(n - 1))
  BY DEF WordStart
<1> HIDE DEF stretch
<1> QED
  BY <1>6, <1>7

\* An index is a place, less one.
LEMMA PlaceOfIndex ==
  \A n \in Nat : \A i \in 0..(n - 1) : i + 1 \in 1..n
OBVIOUS

(* Every key leaves a text in the line and the cursor in it: what is cut is    *)
(* before or after a place of the line, and what is shown is shown to its end. *)
LEMMA EditKeyTypes ==
  ASSUME LineTyped, MenuFits, EditKey
  PROVE  LineTyped'
<1>0. /\ Len(value) \in Nat /\ Len(history) \in Nat /\ cursor \in 0..Len(value) /\ query' = query
      /\ cursor \in Nat
  BY LenProperties DEF LineTyped, EditKey
<1>1. ASSUME NEW text \in Seq(Chars), NEW n \in 0..Len(text), Edited(text, n)  PROVE LineTyped'
  <2>1. -1 \in -1..(Len(history) - 1)
    BY <1>0
  <2> QED
    BY <1>0, <1>1, <2>1 DEF Edited, LineTyped
<1>2. CASE Insert
  <2>1. PICK c \in Chars : Edited(Before(cursor) \o <<c>> \o After(cursor), cursor + 1)
    BY <1>2 DEF Insert
  <2>2. <<c>> \in Seq(Chars) /\ Len(<<c>>) = 1
    OBVIOUS
  <2>3. /\ Before(cursor) \in Seq(Chars) /\ Len(Before(cursor)) = cursor
        /\ After(cursor) \in Seq(Chars) /\ Len(After(cursor)) = Len(value) - cursor
    BY <1>0, HalvesTyped
  <2> DEFINE first == Before(cursor) \o <<c>>
             text == first \o After(cursor)
  <2>4. first \in Seq(Chars) /\ Len(first) = cursor + 1
    BY <2>2, <2>3, ConcatProperties
  <2> HIDE DEF first
  <2>5. text \in Seq(Chars) /\ Len(text) = (cursor + 1) + (Len(value) - cursor)
    <3>1. text \in Seq(Chars) /\ Len(text) = Len(first) + Len(After(cursor))
      BY <2>3, <2>4, ConcatProperties
    <3> QED
      BY <2>3, <2>4, <3>1
  <2>6. cursor + 1 \in 0..Len(text)
    BY <1>0, <2>5
  <2>7. Edited(text, cursor + 1)
    BY <2>1 DEF first
  <2> HIDE DEF text
  <2> QED
    BY <1>1, <2>5, <2>6, <2>7
<1>3. CASE Backspace
  <2>1. cursor - 1 \in 0..Len(value) /\ Edited(Before(cursor - 1) \o After(cursor), cursor - 1)
    BY <1>0, <1>3 DEF Backspace
  <2>2. /\ Before(cursor - 1) \in Seq(Chars) /\ Len(Before(cursor - 1)) = cursor - 1
        /\ After(cursor) \in Seq(Chars) /\ Len(After(cursor)) = Len(value) - cursor
    BY <1>0, <2>1, HalvesTyped
  <2> DEFINE text == Before(cursor - 1) \o After(cursor)
  <2>3. text \in Seq(Chars) /\ Len(text) = (cursor - 1) + (Len(value) - cursor)
    BY <2>2, ConcatProperties
  <2>4. cursor - 1 \in 0..Len(text)
    BY <1>0, <2>1, <2>3
  <2> HIDE DEF text
  <2> QED
    BY <1>1, <2>1, <2>3, <2>4 DEF text
<1>4. CASE DeleteChar
  <2>1. cursor + 1 \in 0..Len(value) /\ Edited(Before(cursor) \o After(cursor + 1), cursor)
    BY <1>0, <1>4 DEF DeleteChar
  <2>2. /\ Before(cursor) \in Seq(Chars) /\ Len(Before(cursor)) = cursor
        /\ After(cursor + 1) \in Seq(Chars) /\ Len(After(cursor + 1)) = Len(value) - (cursor + 1)
    BY <1>0, <2>1, HalvesTyped
  <2> DEFINE text == Before(cursor) \o After(cursor + 1)
  <2>3. text \in Seq(Chars) /\ Len(text) = cursor + (Len(value) - (cursor + 1))
    BY <2>2, ConcatProperties
  <2>4. cursor \in 0..Len(text)
    BY <1>0, <2>1, <2>3
  <2> HIDE DEF text
  <2> QED
    BY <1>1, <2>1, <2>3, <2>4 DEF text
<1>5. CASE KillToEnd
  <2>1. Before(cursor) \in Seq(Chars) /\ Len(Before(cursor)) = cursor /\ cursor \in 0..cursor
    BY <1>0, HalvesTyped
  <2> QED
    BY <1>1, <1>5, <2>1 DEF KillToEnd
<1>6. CASE KillToStart
  <2>1. After(cursor) \in Seq(Chars) /\ 0 \in 0..Len(After(cursor))
    BY <1>0, HalvesTyped
  <2> QED
    BY <1>1, <1>6, <2>1 DEF KillToStart
<1>7. CASE KillWord
  <2>1. WordStart \in 0..cursor /\ WordStart \in 0..Len(value)
    BY <1>0, WordStartTyped
  <2>2. /\ Before(WordStart) \in Seq(Chars) /\ Len(Before(WordStart)) = WordStart
        /\ After(cursor) \in Seq(Chars) /\ Len(After(cursor)) = Len(value) - cursor
    BY <1>0, <2>1, HalvesTyped
  <2> DEFINE text == Before(WordStart) \o After(cursor)
  <2>3. text \in Seq(Chars) /\ Len(text) = WordStart + (Len(value) - cursor)
    BY <2>2, ConcatProperties
  <2>4. WordStart \in 0..Len(text)
    BY <1>0, <2>1, <2>3
  <2> HIDE DEF text
  <2> QED
    BY <1>1, <1>7, <2>3, <2>4 DEF KillWord, text
<1>8. CASE MoveCursor
  <2>1. WordStart \in 0..Len(value)
    BY <1>0, WordStartTyped
  <2>2. cursor' \in 0..Len(value)
    BY <1>0, <1>8, <2>1 DEF MoveCursor
  <2> QED
    BY <1>0, <1>8, <2>2 DEF MoveCursor, past, LineTyped
<1>9. ASSUME NEW text \in Seq(Chars), Show(text)
      PROVE  value' \in Seq(Chars) /\ cursor' \in 0..Len(value')
  <2>1. Len(text) \in Nat
    BY LenProperties
  <2> QED
    BY <1>9, <2>1 DEF Show
<1>10. CASE AcceptSuggestion
  <2>1. Suggestions(value)[selected + 1] \in Seq(Chars)
    <3>1. /\ Suggestions(value) \in Seq(Seq(Chars)) /\ Len(Suggestions(value)) \in Nat
          /\ selected \in Nat /\ selected < Len(Suggestions(value))
      BY <1>10, MenuTyped, LenProperties DEF AcceptSuggestion, MenuFits
    <3>2. selected + 1 \in 1..Len(Suggestions(value))
      BY <3>1
    <3> QED
      BY <3>1, <3>2, ElementOfSeq
  <2>2. Show(Suggestions(value)[selected + 1])
    BY <1>10 DEF AcceptSuggestion, Show
  <2> QED
    BY <1>0, <1>9, <1>10, <2>1, <2>2 DEF AcceptSuggestion, past, LineTyped
<1>11. CASE MoveSuggestion
  BY <1>0, <1>11 DEF MoveSuggestion, past, LineTyped
<1>12. CASE NavigateHistory
  <2>1. history' = history
    BY <1>12 DEF NavigateHistory
  <2>2. ASSUME recalled' \in 0..(Len(history) - 1), Show(history[recalled' + 1]), draft' \in {value, draft}
        PROVE  LineTyped'
    <3>1. recalled' + 1 \in 1..Len(history) /\ recalled' \in -1..(Len(history) - 1)
      <4>1. recalled' \in 0..(Len(history) - 1)
        BY <2>2
      <4>2. Len(history) \in Nat
        BY <1>0
      <4>3. recalled' + 1 \in 1..Len(history)
        BY <4>1, <4>2, PlaceOfIndex
      <4>4. recalled' \in -1..(Len(history) - 1)
        BY <4>1, <4>2
      <4> QED
        BY <4>3, <4>4
    <3>2. history[recalled' + 1] \in Seq(Chars)
      BY <3>1, ElementOfSeq DEF LineTyped
    <3> QED
      BY <1>0, <1>9, <2>1, <2>2, <3>1, <3>2 DEF LineTyped
  <2>3. CASE recalled = -1 /\ draft' = value /\ recalled' = Len(history) - 1 /\ Show(history[recalled' + 1])
    <3>1. Len(history) > 0
      BY <1>0, <1>12, EmptySeq DEF NavigateHistory, LineTyped
    <3> QED
      BY <1>0, <2>2, <2>3, <3>1
  <2>4. CASE /\ recalled' \in {recalled - 1, recalled + 1} \cap 0..(Len(history) - 1)
             /\ Show(history[recalled' + 1]) /\ UNCHANGED draft
    BY <2>2, <2>4
  <2>5. CASE recalled' = -1 /\ Show(draft) /\ UNCHANGED draft
    <3>1. -1 \in -1..(Len(history) - 1)
      BY <1>0
    <3> QED
      BY <1>0, <1>9, <2>1, <2>5, <3>1 DEF LineTyped
  <2> QED
    BY <1>12, <2>3, <2>4, <2>5 DEF NavigateHistory
<1>13. CASE Enter
  <2>1. CASE AcceptSuggestion
    BY <1>10, <2>1
  <2>2. CASE /\ value' = << >> /\ cursor' = 0 /\ recalled' = -1 /\ draft' = << >>
             /\ history' = history \/ history' = Append(history, value)
    <3>1. history' \in Seq(Seq(Chars)) /\ Len(history') \in Nat
      <4>1. Append(history, value) \in Seq(Seq(Chars))
        BY AppendProperties DEF LineTyped
      <4>2. history' \in Seq(Seq(Chars))
        BY <2>2, <4>1 DEF LineTyped
      <4> QED
        BY <4>2, LenProperties
    <3>2. << >> \in Seq(Chars) /\ Len(<< >>) = 0 /\ -1 \in -1..(Len(history') - 1)
      BY <3>1
    <3> QED
      BY <1>0, <2>2, <3>1, <3>2 DEF LineTyped
  <2> QED
    BY <1>13, <2>1, <2>2 DEF Enter
<1> QED
  BY <1>2, <1>3, <1>4, <1>5, <1>6, <1>7, <1>8, <1>10, <1>11, <1>12, <1>13 DEF EditKey

\* The view of copy mode stays among the lines of the transcript.
LEMMA CopyTypes ==
  ASSUME CopyTyped, ViewFollows, CopyKey
  PROVE  CopyTyped'
<1>1. /\ mode = "copy" /\ UNCHANGED <<mode, shrunk>> /\ Transcript \in Nat
      /\ line \in 0..(Transcript - 1)
  BY EditorAssumption DEF CopyKey, ViewFollows
<1>2. line' \in 0..(Transcript - 1) /\ top' \in 0..line'
  BY <1>1, CopyKeyKeeps DEF ViewFollows
<1>3. selection' \in {selection, line, -1}
  BY DEF CopyKey, ToggleSelection
<1> QED
  BY <1>1, <1>2, <1>3 DEF CopyTyped

LEMMA EditorTypes ==
  ASSUME EditorInv, LineTyped, CopyTyped, [EditorNext]_editorVars
  PROVE  LineTyped' /\ CopyTyped'
<1>0. MenuFits /\ ViewFollows /\ Transcript \in Nat /\ body \in Nat
  BY EditorAssumption DEF EditorInv, ViewFollows
<1>1. CASE UNCHANGED editorVars
  BY <1>1 DEF editorVars, editor, past, copying, LineTyped, CopyTyped
<1>2. CASE EditKey
  <2>1. CopyTyped'
    BY <1>2 DEF EditKey, copying, CopyTyped
  <2> QED
    BY <1>0, <1>2, <2>1, EditKeyTypes
<1>3. CASE OpenPicker \/ PickerMove \/ ClosePicker
  <2>1. << >> \in Seq(Chars)
    OBVIOUS
  <2> QED
    BY <1>3, <2>1 DEF OpenPicker, PickerMove, ClosePicker, past, copying, LineTyped, CopyTyped
<1>4. CASE PickerQuery
  <2>1. query' \in Seq(Chars)
    <3>1. CASE \E c \in Chars : query' = Append(query, c)
      BY <3>1, AppendProperties DEF LineTyped
    <3>2. CASE query' = Front(query)
      <4>1. Len(query) - 1 \in Int /\ \A i \in 1..(Len(query) - 1) : query[i] \in Chars
        BY LenProperties, ElementOfSeq DEF LineTyped
      <4> QED
        BY <3>2, <4>1, SubSeqProperties DEF Front
    <3> QED
      BY <1>4, <3>1, <3>2 DEF PickerQuery
  <2> QED
    BY <1>4, <2>1 DEF PickerQuery, past, copying, LineTyped, CopyTyped
<1>5. CASE EnterCopyMode
  <2>1. Transcript - 1 \in 0..Transcript /\ Bottom \in 0..Transcript /\ -1 \in -1..Transcript
    BY <1>0, <1>5 DEF EnterCopyMode, Bottom, Greater
  <2> QED
    BY <1>5, <2>1 DEF EnterCopyMode, editor, past, LineTyped, CopyTyped
<1>6. CASE CopyKey
  <2>1. LineTyped'
    BY <1>6 DEF CopyKey, editor, past, LineTyped
  <2> QED
    BY <1>0, <1>6, <2>1, CopyTypes
<1>7. CASE LeaveCopyMode
  <2>1. 0 \in 0..Transcript /\ -1 \in -1..Transcript
    BY <1>0
  <2> QED
    BY <1>7, <2>1 DEF LeaveCopyMode, editor, past, LineTyped, CopyTyped
<1>8. CASE Resize
  <2>1. shrunk' \in BOOLEAN
    BY <1>8 DEF Resize
  <2> QED
    BY <1>8, <2>1 DEF Resize, editor, past, copying, LineTyped, CopyTyped
<1> QED
  BY <1>1, <1>2, <1>3, <1>4, <1>5, <1>6, <1>7, <1>8 DEF EditorNext

LEMMA EditorTypesStart == EditorInit => LineTyped /\ CopyTyped
<1> SUFFICES ASSUME EditorInit  PROVE LineTyped /\ CopyTyped
  OBVIOUS
<1>1. /\ value \in Seq(Chars) /\ query \in Seq(Chars) /\ draft \in Seq(Chars)
      /\ history \in Seq(Seq(Chars)) /\ Len(value) = 0 /\ Len(history) = 0
  BY DEF EditorInit
<1>2. 0 \in 0..0 /\ -1 \in -1..(0 - 1) /\ 0 \in 0..Transcript /\ -1 \in -1..Transcript
  BY EditorAssumption
<1> QED
  BY <1>1, <1>2 DEF EditorInit, LineTyped, CopyTyped

(* Whatever keys are pressed, the cursor is a place of the line, the recalled  *)
(* entry one of the history, and the view of copy mode within the transcript,  *)
(* for any commands, models, and lengths (TuiLineInput).                       *)
THEOREM EditorTypeCorrect == EditorSpec => []EditorTypeOK
<1>1. EditorInv /\ LineTyped /\ CopyTyped => EditorTypeOK
  BY DEF EditorInv, MenuFits, ViewFollows, LineTyped, CopyTyped, EditorTypeOK
<1> QED
  BY EditorStart, EditorStep, EditorTypesStart, EditorTypes, <1>1, PTL DEF EditorSpec

(***************************************************************************)
(* Models, providers and keys: the invariant                               *)
(***************************************************************************)
(* Whoever is between reading and writing the list of models has read what is   *)
(* stored, unless another was, too.                                             *)
ListIsFresh ==
  kind = "file" /\ ~overlap =>
    /\ tui.at \in {"upsert", "remove"} => tui.read = models /\ cli.at = "idle"
    /\ cli.at \in {"upsert", "remove"} => cli.read = models

Section(p) == p \in DOMAIN base.custom \cup (saved \cap Customs)
Connecting(p) == tui.at \in {"keyed", "upsert", "upserted"} /\ tui.m.provider = p
StoredModel == IF activeModel = NoModel THEN base.model ELSE activeModel
Stored == Effective(NoKey)

\* The key a restart finds for a provider, when no alias without a section has one.
KeyStored(p) ==
  IF Section(p) THEN (IF BaseKey(p) # NoKey THEN BaseKey(p) ELSE secrets[p])
  ELSE IF p \in Aliases \cup {Shared}
         THEN (IF base.shared # NoKey THEN base.shared ELSE secrets[Shared])
         ELSE NoKey

\* A command that runs has its model.
CommandsNamed ==
  /\ tui.at \in {"keyed", "upsert", "upserted", "remove"} => tui.m \in Models
  /\ cli.at \in {"upsert", "remove"} => cli.m \in CliModels

\* "/connect" has a key, which it has stored; the section follows.
ConnectKeyed ==
  tui.at \in {"keyed", "upsert", "upserted"} =>
    /\ tui.k \in Keys /\ secrets[tui.m.provider] = tui.k
    /\ tui.at # "keyed" => tui.m.provider \in saved

\* A section that was saved has a key, and an alias without one has none.
SavedKeyed ==
  /\ \A p \in saved : secrets[p] # NoKey
  /\ \A a \in Aliases \ saved : secrets[a] = NoKey \/ (tui.at = "keyed" /\ tui.m.provider = a)

\* Sections and keys in memory are those a restart would find, but for the one that "/connect"
\* is at, and for what the file itself says.
InStep ==
  tui.at # "down" =>
    /\ \A p \in Customs : ~Connecting(p) =>
         /\ Has(cfg, p) <=> Section(p)
         /\ Has(cfg, p) /\ BaseKey(p) = NoKey => cfg.custom[p] = secrets[p]
    /\ ~Connecting(Shared) /\ base.shared = NoKey => cfg.shared = secrets[Shared]

\* A restart finds a key for the model that is stored.
Startable == HasAdapter(Stored, StoredModel)

SameModel == "switch" \notin excused /\ tui.at # "down" => cfg.model = StoredModel

\* The file's own model has a key in the file.
BaseStarts == HasAdapter(base, base.model)

SettingsInv ==
  /\ SettingsTypeOK /\ CommandsNamed /\ ListIsFresh /\ ModelsKept
  /\ SameModel /\ BaseStarts
  /\ "key" \notin excused => ConnectKeyed /\ SavedKeyed /\ InStep /\ Startable

(***************************************************************************)
(* Lemmas on the settings                                                  *)
(***************************************************************************)
\* A configuration, taken apart.
LEMMA ConfigTyped ==
  ASSUME NEW c
  PROVE  c \in Config <=>
           /\ c = [model |-> c.model, shared |-> c.shared, custom |-> c.custom]
           /\ c.model \in AllModels /\ c.shared \in MaybeKey
           /\ DOMAIN c.custom \subseteq Customs /\ c.custom \in [DOMAIN c.custom -> MaybeKey]
BY DEF Config

LEMMA BaseTyped ==
  ASSUME SettingsTypeOK
  PROVE  base \in Config
BY SettingsAssumption DEF SettingsTypeOK

LEMMA ProvidersTyped ==
  /\ Shared \notin Customs /\ Aliases \subseteq Customs /\ Customs \subseteq Providers
  /\ Shared \in Providers /\ NoKey \notin Keys /\ NoKey \in MaybeKey /\ NoModel \notin AllModels
  /\ \A m \in Models : m.provider \in Providers /\ m \in AllModels
  /\ \A p \in Providers : p \in Customs \/ p = Shared
  /\ Mock \in AllModels
BY SettingsAssumption DEF Customs, Providers, AllModels, MaybeKey

\* What a restart makes of what is stored.
LEMMA EffectiveTyped ==
  ASSUME SettingsTypeOK, NEW k \in MaybeKey
  PROVE  LET c == Effective(k) IN
         /\ c \in Config /\ c.model = StoredModel
         /\ c.shared = IF base.shared # NoKey THEN base.shared
                       ELSE IF secrets[Shared] # NoKey THEN secrets[Shared] ELSE k
         /\ \A p : Has(c, p) <=> Section(p)
         /\ \A p : Section(p) => c.custom[p] = IF BaseKey(p) # NoKey THEN BaseKey(p) ELSE secrets[p]
<1> DEFINE D == DOMAIN base.custom \cup (saved \cap Customs)
           f == [p \in D |-> IF BaseKey(p) # NoKey THEN BaseKey(p) ELSE secrets[p]]
           s == IF base.shared # NoKey THEN base.shared
                ELSE IF secrets[Shared] # NoKey THEN secrets[Shared] ELSE k
<1>1. /\ base.model \in AllModels /\ base.shared \in MaybeKey /\ DOMAIN base.custom \subseteq Customs
      /\ base.custom \in [DOMAIN base.custom -> MaybeKey]
  BY BaseTyped, ConfigTyped
<1>2. StoredModel \in AllModels /\ s \in MaybeKey
  BY <1>1, ProvidersTyped DEF StoredModel, SettingsTypeOK
<1>3. D \subseteq Customs /\ D \subseteq Providers
  BY <1>1, ProvidersTyped
<1>4. \A p \in D : (IF BaseKey(p) # NoKey THEN BaseKey(p) ELSE secrets[p]) \in MaybeKey
  BY <1>1, <1>3, ProvidersTyped DEF BaseKey, SettingsTypeOK
<1>5. Effective(k) = [model |-> StoredModel, shared |-> s, custom |-> f]
  BY DEF Effective, StoredModel
<1>6. DOMAIN f = D /\ f \in [D -> MaybeKey]
  BY <1>4
<1>7. \A p : p \in D <=> Section(p)
  BY DEF Section
<1>8. \A p \in D : f[p] = IF BaseKey(p) # NoKey THEN BaseKey(p) ELSE secrets[p]
  OBVIOUS
<1> HIDE DEF f, D, s
<1>9. Effective(k) \in Config
  BY <1>2, <1>3, <1>5, <1>6, ConfigTyped
<1> QED BY <1>5, <1>6, <1>7, <1>8, <1>9 DEF Has, s

\* Which models a configuration has an adapter for.
LEMMA AdapterFor ==
  ASSUME NEW c, NEW m
  PROVE  HasAdapter(c, m) <=> m = Mock \/ (m \in Models /\ ApiKey(c, m.provider) # NoKey)
BY DEF HasAdapter

\* Which models a restart has an adapter for, before and after a step.
LEMMA StoredAdapter ==
  SettingsTypeOK => \A m \in AllModels :
    HasAdapter(Stored, m) <=> m = Mock \/ (m \in Models /\ KeyStored(m.provider) # NoKey)
<1> SUFFICES ASSUME SettingsTypeOK, NEW m \in AllModels
             PROVE  HasAdapter(Stored, m) <=>
                      m = Mock \/ (m \in Models /\ KeyStored(m.provider) # NoKey)
  OBVIOUS
<1>1. ASSUME NEW p \in Providers PROVE ApiKey(Stored, p) = KeyStored(p)
  BY EffectiveTyped, ProvidersTyped DEF ApiKey, UsesShared, Stored, KeyStored
<1> QED BY <1>1, AdapterFor, ProvidersTyped

LEMMA StoredAdapterNext ==
  (SettingsTypeOK => \A m \in AllModels :
     HasAdapter(Stored, m) <=> m = Mock \/ (m \in Models /\ KeyStored(m.provider) # NoKey))'
BY StoredAdapter, PTL

\* The file's own model can be started with whatever was stored.
LEMMA BaseModelStarts ==
  SettingsTypeOK /\ SavedKeyed /\ BaseStarts => HasAdapter(Stored, base.model)
<1> SUFFICES ASSUME SettingsTypeOK, SavedKeyed, BaseStarts, base.model # Mock
             PROVE  KeyStored(base.model.provider) # NoKey /\ base.model \in Models
  BY BaseTyped, ConfigTyped, StoredAdapter
<1> DEFINE p == base.model.provider
<1>1. base.model \in Models /\ ApiKey(base, p) # NoKey /\ p \in Providers
  BY AdapterFor, ProvidersTyped DEF BaseStarts
<1> HIDE DEF p
<1>2. p \in saved => secrets[p] # NoKey
  BY DEF SavedKeyed
<1> QED BY <1>1, <1>2 DEF KeyStored, Section, BaseKey, ApiKey, UsesShared, Has, SettingsTypeOK, p

LEMMA BaseModelStartsNext ==
  (SettingsTypeOK /\ SavedKeyed /\ BaseStarts => HasAdapter(Stored, base.model))'
BY BaseModelStarts, PTL

\* Between commands, a restart has an adapter for what there is one for in memory.
LEMMA MemoryIsStored ==
  SettingsTypeOK /\ SavedKeyed /\ InStep /\ tui.at \in {"idle", "remove"} =>
    \A m \in AllModels : HasAdapter(cfg, m) => HasAdapter(Stored, m)
<1> SUFFICES ASSUME SettingsTypeOK, SavedKeyed, InStep, tui.at \in {"idle", "remove"},
                    NEW m \in Models, ApiKey(cfg, m.provider) # NoKey
             PROVE  KeyStored(m.provider) # NoKey
  BY AdapterFor, StoredAdapter, ProvidersTyped
<1> DEFINE p == m.provider
<1>1. p \in Providers
  BY ProvidersTyped
<1>2. /\ \A q \in Customs : /\ Has(cfg, q) <=> Section(q)
                            /\ Has(cfg, q) /\ BaseKey(q) = NoKey => cfg.custom[q] = secrets[q]
      /\ base.shared = NoKey => cfg.shared = secrets[Shared]
  BY DEF InStep, Connecting
<1>3. ~Has(cfg, Shared) /\ ~Section(Shared)
  BY BaseTyped, ConfigTyped, ProvidersTyped DEF Has, Section, SettingsTypeOK
<1> HIDE DEF p
<1>4. Has(cfg, p) <=> Section(p)
  BY <1>1, <1>2, <1>3, ProvidersTyped
<1>5. ApiKey(cfg, p) # NoKey
  BY DEF p
<1>6. CASE Has(cfg, p)
  BY <1>1, <1>2, <1>3, <1>4, <1>5, <1>6, ProvidersTyped DEF ApiKey, KeyStored, p
<1>7. CASE ~Has(cfg, p)
  BY <1>1, <1>2, <1>3, <1>4, <1>5, <1>7, ProvidersTyped DEF ApiKey, UsesShared, KeyStored, p
<1> QED BY <1>6, <1>7

LEMMA MemoryIsStoredNext ==
  (SettingsTypeOK /\ SavedKeyed /\ InStep /\ tui.at \in {"idle", "remove"} =>
     \A m \in AllModels : HasAdapter(cfg, m) => HasAdapter(Stored, m))'
BY MemoryIsStored, PTL

\* Keys and sections that come to the store take no adapter away.
LEMMA StoredGrows ==
  ASSUME SettingsTypeOK, SettingsTypeOK', SavedKeyed', UNCHANGED <<kind, base>>,
         saved \subseteq saved', \A p \in Providers : secrets[p] # NoKey => secrets'[p] # NoKey,
         NEW m \in AllModels, HasAdapter(Stored, m)
  PROVE  HasAdapter(Stored', m)
<1> SUFFICES ASSUME m \in Models, KeyStored(m.provider) # NoKey
             PROVE  KeyStored(m.provider)' # NoKey
  BY StoredAdapter, StoredAdapterNext
<1> DEFINE p == m.provider
<1>1. p \in Providers /\ Shared \in Providers
  BY ProvidersTyped
<1>2. p \in saved' => secrets'[p] # NoKey
  BY DEF SavedKeyed
<1> QED BY <1>1, <1>2 DEF KeyStored, Section, BaseKey

LEMMA WithKeyChanges ==
  ASSUME NEW c \in Config, NEW p \in Providers, NEW k \in MaybeKey
  PROVE  LET d == WithKey(c, p, k) IN
         /\ d \in Config /\ d.model = c.model
         /\ d.shared = IF UsesShared(c, p) THEN k ELSE c.shared
         /\ \A q : Has(d, q) <=> Has(c, q)
         /\ \A q : Has(c, q) => d.custom[q] = IF q = p THEN k ELSE c.custom[q]
<1> DEFINE d == WithKey(c, p, k)
<1>1. /\ c = [model |-> c.model, shared |-> c.shared, custom |-> c.custom]
      /\ c.model \in AllModels /\ c.shared \in MaybeKey
      /\ DOMAIN c.custom \subseteq Customs /\ c.custom \in [DOMAIN c.custom -> MaybeKey]
  BY ConfigTyped
<1>2. CASE Has(c, p)
  <2> DEFINE f == [c.custom EXCEPT ![p] = k]
  <2>1. d = [model |-> c.model, shared |-> c.shared, custom |-> f]
    BY <1>1, <1>2 DEF WithKey
  <2>2. DOMAIN f = DOMAIN c.custom /\ f \in [DOMAIN c.custom -> MaybeKey]
    BY <1>1
  <2>3. \A q \in DOMAIN c.custom : f[q] = IF q = p THEN k ELSE c.custom[q]
    BY <1>1
  <2> HIDE DEF f, d
  <2>4. d \in Config
    BY <1>1, <2>1, <2>2, ConfigTyped
  <2>5. ~UsesShared(c, p)
    BY <1>2 DEF UsesShared
  <2> QED BY <2>1, <2>2, <2>3, <2>4, <2>5 DEF Has, d
<1>3. CASE ~Has(c, p) /\ UsesShared(c, p)
  <2>1. d = [model |-> c.model, shared |-> k, custom |-> c.custom]
    BY <1>1, <1>3 DEF WithKey
  <2> HIDE DEF d
  <2>2. d \in Config
    BY <1>1, <2>1, ConfigTyped
  <2> QED BY <1>3, <2>1, <2>2 DEF Has, d
<1>4. CASE ~Has(c, p) /\ ~UsesShared(c, p)
  <2>1. d = c
    BY <1>4 DEF WithKey
  <2> HIDE DEF d
  <2> QED BY <1>4, <2>1 DEF Has, d
<1> QED BY <1>2, <1>3, <1>4

LEMMA WithConnectionChanges ==
  ASSUME NEW c \in Config, NEW p \in Providers, NEW k \in MaybeKey
  PROVE  LET d == WithConnection(c, p, k) IN
         /\ d \in Config /\ d.model = c.model
         /\ d.shared = IF p = Shared THEN k ELSE c.shared
         /\ \A q : Has(d, q) <=> Has(c, q) \/ (q = p /\ p # Shared)
         /\ \A q : Has(d, q) => d.custom[q] = IF q = p THEN k ELSE c.custom[q]
<1> DEFINE d == WithConnection(c, p, k)
<1>1. /\ c = [model |-> c.model, shared |-> c.shared, custom |-> c.custom]
      /\ c.model \in AllModels /\ c.shared \in MaybeKey
      /\ DOMAIN c.custom \subseteq Customs /\ c.custom \in [DOMAIN c.custom -> MaybeKey]
  BY ConfigTyped
<1>2. CASE p = Shared
  <2>1. d = [model |-> c.model, shared |-> k, custom |-> c.custom]
    BY <1>1, <1>2 DEF WithConnection
  <2>2. p \notin DOMAIN c.custom
    BY <1>1, <1>2, ProvidersTyped
  <2> HIDE DEF d
  <2>3. d \in Config
    BY <1>1, <2>1, ConfigTyped
  <2> QED BY <1>2, <2>1, <2>2, <2>3 DEF Has, d
<1>3. CASE p # Shared
  <2> DEFINE D == DOMAIN c.custom \cup {p}
             f == [q \in D |-> IF q = p THEN k ELSE c.custom[q]]
  <2>1. d = [model |-> c.model, shared |-> c.shared, custom |-> f]
    BY <1>1, <1>3 DEF WithConnection
  <2>2. D \subseteq Customs
    BY <1>1, <1>3, ProvidersTyped
  <2>3. DOMAIN f = D /\ f \in [D -> MaybeKey]
    BY <1>1
  <2>4. \A q \in D : f[q] = IF q = p THEN k ELSE c.custom[q]
    OBVIOUS
  <2>5. \A q : q \in D <=> q \in DOMAIN c.custom \/ q = p
    OBVIOUS
  <2> HIDE DEF f, d, D
  <2>6. d \in Config
    BY <1>1, <2>1, <2>2, <2>3, ConfigTyped
  <2> QED BY <1>3, <2>1, <2>3, <2>4, <2>5, <2>6 DEF Has, d
<1> QED BY <1>2, <1>3

\* What switchModel does, for a configuration that will be the one in memory.
LEMMA SwitchChanges ==
  ASSUME NEW c \in Config, NEW m \in AllModels, SwitchModel(c, m)
  PROVE  /\ cfg' \in Config /\ cfg'.model = m /\ cfg'.shared = c.shared /\ cfg'.custom = c.custom
         /\ IF HasAdapter(c, m) THEN activeModel' = m /\ excused' = excused \ {"switch"}
            ELSE activeModel' = activeModel /\ excused' = excused \cup {"switch"}
<1>1. /\ c = [model |-> c.model, shared |-> c.shared, custom |-> c.custom]
      /\ c.model \in AllModels /\ c.shared \in MaybeKey
      /\ DOMAIN c.custom \subseteq Customs /\ c.custom \in [DOMAIN c.custom -> MaybeKey]
  BY ConfigTyped
<1>2. cfg' = [model |-> m, shared |-> c.shared, custom |-> c.custom]
  BY <1>1 DEF SwitchModel
<1>3. cfg' \in Config
  BY <1>1, <1>2, ConfigTyped
<1> QED BY <1>2, <1>3 DEF SwitchModel

LEMMA RestartTyped ==
  ASSUME SettingsTypeOK, NEW c \in Effectives
  PROVE  c \in Config /\ \E k \in MaybeKey : c = Effective(k) /\ (LegacyKeys = {} => k = NoKey)
<1>1. LegacyKeys \subseteq MaybeKey
  BY ProvidersTyped DEF LegacyKeys, SettingsTypeOK
<1>2. PICK k \in IF LegacyKeys = {} THEN {NoKey} ELSE LegacyKeys : c = Effective(k)
  BY DEF Effectives
<1>3. k \in MaybeKey
  BY <1>1, <1>2, ProvidersTyped
<1> QED BY <1>2, <1>3, EffectiveTyped

(***************************************************************************)
(* Every step keeps the types                                              *)
(***************************************************************************)
LEMMA SettingsTypeStep ==
  ASSUME SettingsTypeOK, CommandsNamed, [SettingsNext]_settingsVars
  PROVE  SettingsTypeOK' /\ CommandsNamed'
<1> USE ProvidersTyped DEF Excuses
<1> DEFINE ListTyped == SUBSET (Models \cup CliModels)
           TuiTyped == [at : {"idle", "keyed", "upsert", "upserted", "remove", "down"},
                        m : Models \cup {NoModel}, k : MaybeKey, read : ListTyped]
           CliTyped == [at : {"idle", "upsert", "remove"}, m : CliModels \cup {NoModel},
                        k : {NoKey}, read : ListTyped]
<1>a. /\ kind \in {"file", "sqlite"} /\ base \in Bases /\ cfg \in Config
      /\ secrets \in [Providers -> MaybeKey] /\ saved \subseteq Providers
      /\ models \in ListTyped /\ activeModel \in AllModels \cup {NoModel}
      /\ tui \in TuiTyped /\ cli \in CliTyped
      /\ wanted \in ListTyped /\ overlap \in BOOLEAN /\ excused \subseteq Excuses
  BY DEF SettingsTypeOK
<1>n. /\ NoCommand \in TuiTyped /\ NoCommand \in CliTyped /\ NoCommand.at = "idle"
      /\ [NoCommand EXCEPT !.at = "down"] \in TuiTyped
      /\ [NoCommand EXCEPT !.at = "down"].at = "down"
  BY DEF NoCommand
<1>t. /\ tui.read \in ListTyped /\ cli.read \in ListTyped /\ tui.k \in MaybeKey
      /\ tui.m \in Models \cup {NoModel} /\ cli.m \in CliModels \cup {NoModel}
  BY <1>a
<1>1. ASSUME NEW m \in AllModels, Switch(m) PROVE SettingsTypeOK' /\ CommandsNamed'
  <2>1. /\ cfg' \in Config /\ activeModel' \in AllModels \cup {NoModel}
        /\ excused' \subseteq Excuses
    BY <1>a, <1>1, SwitchChanges DEF Switch
  <2> QED BY <1>a, <1>1, <2>1 DEF Switch, SettingsTypeOK, CommandsNamed
<1>2. ASSUME NEW p \in Providers, NEW k \in MaybeKey, SetKey(p, k)
      PROVE  SettingsTypeOK' /\ CommandsNamed'
  <2>1. cfg' \in Config
    BY <1>a, <1>2, WithKeyChanges DEF SetKey
  <2> QED BY <1>a, <1>2, <2>1 DEF SetKey, SettingsTypeOK, CommandsNamed
<1>3. ASSUME NEW p \in Providers, NEW k \in MaybeKey, CliSetKey(p, k)
      PROVE  SettingsTypeOK' /\ CommandsNamed'
  BY <1>a, <1>3 DEF CliSetKey, SettingsTypeOK, CommandsNamed
<1>4. ASSUME NEW m \in Models, NEW k \in MaybeKey, Connect(m, k)
      PROVE  SettingsTypeOK' /\ CommandsNamed'
  <2>1. m.provider \in Providers
    OBVIOUS
  <2>2. ApiKey(cfg, m.provider) \in MaybeKey
    BY <1>a, ConfigTyped DEF ApiKey, Has
  <2>3. PICK key \in MaybeKey :
          /\ secrets' = [secrets EXCEPT ![m.provider] = key]
          /\ tui' = [at |-> "keyed", m |-> m, k |-> key, read |-> {}]
    BY <1>a, <1>4, <2>1, <2>2 DEF Connect
  <2>4. secrets' \in [Providers -> MaybeKey] /\ tui' \in TuiTyped /\ tui'.m \in Models
    BY <1>a, <2>1, <2>3
  <2> QED BY <1>a, <1>4, <2>4 DEF Connect, SettingsTypeOK, CommandsNamed
<1>5. CASE ConnectSaves
  <2>1. tui.m \in Models /\ tui.m.provider \in Providers
    BY <1>5 DEF ConnectSaves, ReadModels, CommandsNamed
  <2>2. tui' \in TuiTyped /\ tui'.m = tui.m
    BY <1>a, <1>5 DEF ConnectSaves
  <2>3. overlap' \in BOOLEAN
    BY <1>5 DEF ConnectSaves, ReadModels
  <2> QED BY <1>a, <1>5, <2>1, <2>2, <2>3 DEF ConnectSaves, SettingsTypeOK, CommandsNamed
<1>6. CASE ConnectUpserts
  <2>1. tui.m \in Models
    BY <1>6 DEF ConnectUpserts, CommandsNamed
  <2>2. tui' \in TuiTyped /\ tui'.m = tui.m
    BY <1>a, <1>6 DEF ConnectUpserts
  <2>3. models' \in ListTyped /\ wanted' \in ListTyped
    BY <1>a, <1>t, <1>6, <2>1 DEF ConnectUpserts, Upserted
  <2> QED BY <1>a, <1>6, <2>1, <2>2, <2>3 DEF ConnectUpserts, SettingsTypeOK, CommandsNamed
<1>7. CASE ConnectApplies
  <2>1. tui.m \in Models /\ tui.m.provider \in Providers
    BY <1>7 DEF ConnectApplies, CommandsNamed
  <2>2. WithConnection(cfg, tui.m.provider, tui.k) \in Config
    BY <1>a, <1>t, <2>1, WithConnectionChanges
  <2>3. /\ cfg' \in Config /\ activeModel' \in AllModels \cup {NoModel}
        /\ excused' \subseteq Excuses
    BY <1>a, <1>7, <2>1, <2>2, SwitchChanges DEF ConnectApplies
  <2> QED BY <1>a, <1>n, <1>7, <2>3 DEF ConnectApplies, SettingsTypeOK, CommandsNamed
<1>8. ASSUME NEW m \in Models, RemoveModel(m) PROVE SettingsTypeOK' /\ CommandsNamed'
  <2>1. tui' \in TuiTyped /\ tui'.m = m
    BY <1>a, <1>8 DEF RemoveModel
  <2>2. overlap' \in BOOLEAN
    BY <1>8 DEF RemoveModel, ReadModels
  <2> QED BY <1>a, <1>8, <2>1, <2>2 DEF RemoveModel, stored, SettingsTypeOK, CommandsNamed
<1>9. CASE RemoveEnds
  <2>1. /\ models' \in ListTyped /\ wanted' \in ListTyped
        /\ UNCHANGED <<kind, base, secrets, saved, cli, overlap>>
    BY <1>a, <1>t, <1>9 DEF RemoveEnds, Deleted
  <2>2. /\ cfg' \in Config /\ activeModel' \in AllModels \cup {NoModel}
        /\ excused' \subseteq Excuses
        /\ tui' = NoCommand \/ tui' = [NoCommand EXCEPT !.at = "down"]
    <3>1. CASE cfg.model # tui.m
      BY <1>a, <1>9, <3>1 DEF RemoveEnds
    <3>2. CASE cfg.model = tui.m
      <4>1. PICK r \in AllModels :
              IF HasAdapter(cfg, r)
                THEN SwitchModel(cfg, r) /\ tui' = NoCommand
                ELSE /\ tui' = [NoCommand EXCEPT !.at = "down"]
                     /\ activeModel' = (IF activeModel = tui.m THEN NoModel ELSE activeModel)
                     /\ UNCHANGED <<cfg, excused>>
        BY <1>9, <3>2 DEF RemoveEnds, Replacements
      <4> QED BY <1>a, <4>1, SwitchChanges
    <3> QED BY <3>1, <3>2
  <2> QED BY <1>a, <1>n, <2>1, <2>2 DEF SettingsTypeOK, CommandsNamed
<1>10. ASSUME NEW m \in CliModels, NEW then \in {"upsert", "remove"}, CliReads(then, m)
       PROVE  SettingsTypeOK' /\ CommandsNamed'
  <2>1. cli' \in CliTyped /\ cli'.m = m
    BY <1>a, <1>10 DEF CliReads
  <2>2. overlap' \in BOOLEAN
    BY <1>10 DEF CliReads, ReadModels
  <2> QED BY <1>a, <1>10, <2>1, <2>2 DEF CliReads, stored, SettingsTypeOK, CommandsNamed
<1>11. CASE CliWrites
  <2>1. cli.m \in CliModels
    BY <1>11 DEF CliWrites, CommandsNamed
  <2>2. models' \in ListTyped /\ wanted' \in ListTyped
    BY <1>a, <1>t, <1>11, <2>1 DEF CliWrites, Upserted, Deleted
  <2>3. activeModel' \in AllModels \cup {NoModel} /\ excused' \subseteq Excuses
    BY <1>a, <1>11 DEF CliWrites
  <2> QED BY <1>a, <1>n, <1>11, <2>2, <2>3 DEF CliWrites, SettingsTypeOK, CommandsNamed
<1>12. CASE Restart
  <2>1. /\ cfg' \in Config
        /\ tui' = NoCommand \/ tui' = [NoCommand EXCEPT !.at = "down"]
    BY <1>a, <1>12, RestartTyped DEF Restart
  <2>2. excused' \subseteq Excuses /\ wanted' \in ListTyped
    BY <1>a, <1>12 DEF Restart
  <2> QED BY <1>a, <1>n, <1>12, <2>1, <2>2 DEF Restart, stored, SettingsTypeOK, CommandsNamed
<1>13. CASE UNCHANGED settingsVars
  BY <1>a, <1>13 DEF settingsVars, stored, SettingsTypeOK, CommandsNamed
<1> QED BY <1>1, <1>2, <1>3, <1>4, <1>5, <1>6, <1>7, <1>8, <1>9, <1>10, <1>11, <1>12, <1>13
        DEF SettingsNext

(***************************************************************************)
(* The list of models                                                      *)
(***************************************************************************)
LEMMA ListStep ==
  ASSUME SettingsTypeOK, ListIsFresh, ModelsKept, [SettingsNext]_settingsVars
  PROVE  ListIsFresh' /\ ModelsKept'
<1> USE DEF ListIsFresh, ModelsKept
<1>k. kind \in {"file", "sqlite"}
  BY DEF SettingsTypeOK
<1>n. NoCommand.at = "idle" /\ [NoCommand EXCEPT !.at = "down"].at = "down"
  BY DEF NoCommand
<1>1. ASSUME UNCHANGED <<kind, models, wanted, overlap, cli>>,
             tui'.at \in {"upsert", "remove"} => tui'.at = tui.at /\ tui'.read = tui.read
      PROVE  ListIsFresh' /\ ModelsKept'
  BY <1>1
<1>2. ASSUME NEW m \in Models, NEW k \in MaybeKey, Connect(m, k)
      PROVE  ListIsFresh' /\ ModelsKept'
  <2>1. tui'.at = "keyed"
    BY <1>2 DEF Connect
  <2> QED BY <1>1, <1>2, <2>1 DEF Connect
<1>3. CASE ConnectSaves
  <2>1. tui'.at = "upsert" /\ tui'.read = models
    BY <1>3 DEF ConnectSaves, SettingsTypeOK
  <2> QED BY <1>k, <1>3, <2>1 DEF ConnectSaves, ReadModels, SettingsTypeOK
<1>4. CASE ConnectUpserts
  <2>1. tui'.at = "upserted"
    BY <1>4 DEF ConnectUpserts, SettingsTypeOK
  <2> QED BY <1>k, <1>4, <2>1 DEF ConnectUpserts, Upserted
<1>5. ASSUME NEW m \in Models, RemoveModel(m) PROVE ListIsFresh' /\ ModelsKept'
  <2>1. tui'.at = "remove" /\ tui'.read = models
    BY <1>5 DEF RemoveModel
  <2> QED BY <1>k, <1>5, <2>1 DEF RemoveModel, ReadModels, stored, SettingsTypeOK
<1>6. CASE RemoveEnds
  <2>1. tui'.at \in {"idle", "down"}
    BY <1>n, <1>6 DEF RemoveEnds
  <2> QED BY <1>k, <1>6, <2>1 DEF RemoveEnds, Deleted
<1>7. ASSUME NEW m \in CliModels, NEW then \in {"upsert", "remove"}, CliReads(then, m)
      PROVE  ListIsFresh' /\ ModelsKept'
  <2>1. cli'.at = then /\ cli'.read = models
    BY <1>7 DEF CliReads
  <2> QED BY <1>k, <1>7, <2>1 DEF CliReads, ReadModels, stored, SettingsTypeOK
<1>8. CASE CliWrites
  <2>1. cli'.at = "idle"
    BY <1>n, <1>8 DEF CliWrites
  <2> QED BY <1>k, <1>8, <2>1 DEF CliWrites, Upserted, Deleted
<1>9. CASE Restart
  <2>1. tui'.at \in {"idle", "down"}
    BY <1>n, <1>9 DEF Restart
  <2> QED BY <1>9, <2>1 DEF Restart, stored
<1>10. ASSUME \/ \E m \in AllModels : Switch(m)
              \/ \E p \in Providers, k \in MaybeKey : SetKey(p, k) \/ CliSetKey(p, k)
              \/ UNCHANGED settingsVars
       PROVE  ListIsFresh' /\ ModelsKept'
  BY <1>1, <1>10 DEF Switch, SetKey, CliSetKey, settingsVars, stored
<1>11. CASE ConnectApplies
  BY <1>1, <1>n, <1>11 DEF ConnectApplies
<1> QED BY <1>2, <1>3, <1>4, <1>5, <1>6, <1>7, <1>8, <1>9, <1>10, <1>11 DEF SettingsNext

(***************************************************************************)
(* The model                                                               *)
(***************************************************************************)
LEMMA SameModelStep ==
  ASSUME SettingsTypeOK, CommandsNamed, SameModel, [SettingsNext]_settingsVars
  PROVE  SameModel'
<1> USE ProvidersTyped
<1>n. NoCommand.at = "idle" /\ [NoCommand EXCEPT !.at = "down"].at = "down"
  BY DEF NoCommand
<1>c. cfg \in Config
  BY DEF SettingsTypeOK
<1>1. ASSUME NEW c \in Config, NEW m \in AllModels, SwitchModel(c, m)
      PROVE  SameModel'
  BY <1>1, SwitchChanges DEF SameModel, StoredModel
<1>2. ASSUME NEW m \in AllModels, Switch(m) PROVE SameModel'
  BY <1>c, <1>1, <1>2 DEF Switch
<1>3. ASSUME NEW p \in Providers, NEW k \in MaybeKey, SetKey(p, k) PROVE SameModel'
  <2>1. cfg'.model = cfg.model
    BY <1>c, <1>3, WithKeyChanges DEF SetKey
  <2> QED BY <1>3, <2>1 DEF SetKey, SameModel, StoredModel
<1>4. CASE ConnectApplies
  <2>1. tui.m \in Models /\ tui.k \in MaybeKey
    BY <1>4 DEF ConnectApplies, CommandsNamed, SettingsTypeOK
  <2>2. WithConnection(cfg, tui.m.provider, tui.k) \in Config
    BY <1>c, <2>1, WithConnectionChanges
  <2> QED BY <1>1, <1>4, <2>1, <2>2 DEF ConnectApplies
<1>5. CASE RemoveEnds
  <2>1. CASE cfg.model # tui.m
    BY <1>5, <2>1 DEF RemoveEnds, SameModel, StoredModel
  <2>2. CASE cfg.model = tui.m
    BY <1>c, <1>n, <1>1, <1>5, <2>2 DEF RemoveEnds, Replacements, SameModel
  <2> QED BY <2>1, <2>2
<1>6. CASE CliWrites
  BY <1>6 DEF CliWrites, SameModel, StoredModel
<1>7. CASE Restart
  <2>1. PICK c \in Effectives :
          /\ IF HasAdapter(c, c.model) THEN cfg' = c /\ tui' = NoCommand
             ELSE tui' = [NoCommand EXCEPT !.at = "down"] /\ UNCHANGED cfg
          /\ UNCHANGED <<base, activeModel>>
    BY <1>7 DEF Restart, stored
  <2>2. c.model = StoredModel
    BY RestartTyped, EffectiveTyped
  <2> QED BY <1>n, <2>1, <2>2 DEF SameModel, StoredModel
<1>8. ASSUME UNCHANGED <<base, cfg, activeModel>>, excused \subseteq excused',
             tui'.at # "down" => tui.at # "down"
      PROVE  SameModel'
  BY <1>8 DEF SameModel, StoredModel
<1>9. ASSUME \/ \E p \in Providers, k \in MaybeKey : CliSetKey(p, k)
             \/ \E m \in Models, k \in MaybeKey : Connect(m, k)
             \/ ConnectSaves \/ ConnectUpserts
             \/ \E m \in Models : RemoveModel(m)
             \/ \E m \in CliModels : CliReads("upsert", m) \/ CliReads("remove", m)
             \/ UNCHANGED settingsVars
      PROVE  SameModel'
  BY <1>8, <1>9 DEF CliSetKey, Connect, ConnectSaves, ConnectUpserts, RemoveModel, CliReads,
                    ReadModels, settingsVars, stored
<1> QED BY <1>2, <1>3, <1>4, <1>5, <1>6, <1>7, <1>9 DEF SettingsNext

(***************************************************************************)
(* The keys                                                                *)
(***************************************************************************)
\* What is between the steps of "/connect" depends on its state only.
LEMMA KeyStep ==
  ASSUME SettingsTypeOK, SettingsTypeOK', CommandsNamed, BaseStarts, [SettingsNext]_settingsVars,
         "key" \notin excused', ConnectKeyed, SavedKeyed, InStep, Startable
  PROVE  ConnectKeyed' /\ SavedKeyed' /\ InStep' /\ Startable'
<1> USE ProvidersTyped
<1>n. NoCommand.at = "idle" /\ [NoCommand EXCEPT !.at = "down"].at = "down"
  BY DEF NoCommand
<1>c. /\ cfg \in Config /\ secrets \in [Providers -> MaybeKey]
      /\ StoredModel \in AllModels /\ base.model \in AllModels
  BY BaseTyped, ConfigTyped DEF SettingsTypeOK, StoredModel
<1>s. ~Has(cfg, Shared)
  BY <1>c, ConfigTyped DEF Has
\* Steps that leave keys, sections and the commands of the terminal UI as they are.
<1>1. ASSUME UNCHANGED <<kind, base, secrets, saved>>,
             cfg'.custom = cfg.custom, cfg'.shared = cfg.shared,
             \/ UNCHANGED tui
             \/ {tui.at, tui'.at} \subseteq {"idle", "remove"}
             \/ tui.at = "remove" /\ tui'.at = "down"
             \/ /\ tui.at = "upsert" /\ tui'.at = "upserted"
                /\ tui'.m = tui.m /\ tui'.k = tui.k
      PROVE  ConnectKeyed' /\ SavedKeyed' /\ InStep'
  BY <1>1 DEF ConnectKeyed, SavedKeyed, InStep, Connecting, Has, Section, BaseKey
\* Steps that leave the model in the store as it is.
<1>2. ASSUME UNCHANGED <<kind, base, activeModel>>, saved \subseteq saved', SavedKeyed',
             \A p \in Providers : secrets[p] # NoKey => secrets'[p] # NoKey
      PROVE  Startable'
  <2>1. HasAdapter(Stored', StoredModel)
    BY <1>c, <1>2, StoredGrows DEF Startable
  <2>2. StoredModel' = StoredModel
    BY <1>2 DEF StoredModel
  <2> QED BY <2>1, <2>2 DEF Startable
\* Steps that put the file's own model in its place.
<1>3. ASSUME UNCHANGED base, SavedKeyed', activeModel' = NoModel
      PROVE  Startable'
  <2>1. HasAdapter(Stored, base.model)'
    BY <1>3, BaseModelStartsNext DEF BaseStarts
  <2>2. StoredModel' = base.model'
    BY <1>3 DEF StoredModel
  <2> QED BY <2>1, <2>2 DEF Startable
\* Steps that switch the model.
<1>4. ASSUME NEW c \in Config, NEW m \in AllModels, SwitchModel(c, m), UNCHANGED <<kind, base>>,
             SavedKeyed', InStep', tui'.at = "idle", saved \subseteq saved',
             \A p \in Providers : secrets[p] # NoKey => secrets'[p] # NoKey
      PROVE  Startable'
  <2>1. CASE HasAdapter(c, m)
    <3>1. activeModel' = m /\ cfg'.custom = c.custom /\ cfg'.shared = c.shared
      BY <1>4, <2>1, SwitchChanges
    <3>2. HasAdapter(cfg', m)
      BY <2>1, <3>1 DEF HasAdapter, ApiKey, UsesShared, Has
    <3>3. HasAdapter(Stored', m)
      BY <1>4, <3>2, MemoryIsStoredNext
    <3> QED BY <3>1, <3>3 DEF Startable, StoredModel
  <2>2. CASE ~HasAdapter(c, m)
    BY <1>2, <1>4, <2>2, SwitchChanges
  <2> QED BY <2>1, <2>2
<1>5. ASSUME NEW m \in AllModels, Switch(m) PROVE ConnectKeyed' /\ SavedKeyed' /\ InStep' /\ Startable'
  <2>1. /\ UNCHANGED <<kind, base, secrets, saved, tui>> /\ tui.at = "idle" /\ SwitchModel(cfg, m)
        /\ cfg'.custom = cfg.custom /\ cfg'.shared = cfg.shared
    BY <1>c, <1>5, SwitchChanges DEF Switch
  <2>2. ConnectKeyed' /\ SavedKeyed' /\ InStep'
    BY <1>1, <2>1
  <2> QED BY <1>c, <1>4, <2>1, <2>2
<1>6. ASSUME NEW p \in Providers, NEW k \in MaybeKey, SetKey(p, k)
      PROVE  ConnectKeyed' /\ SavedKeyed' /\ InStep' /\ Startable'
  <2>1. k # NoKey /\ p \notin Aliases
    BY <1>6 DEF SetKey
  <2>2. /\ UNCHANGED <<kind, base, saved, tui, activeModel>> /\ tui.at = "idle"
        /\ \A q \in Providers : secrets'[q] = IF q = p THEN k ELSE secrets[q]
        /\ cfg' = WithKey(cfg, p, k)
    BY <1>c, <1>6 DEF SetKey
  <2>3. /\ cfg'.shared = IF UsesShared(cfg, p) THEN k ELSE cfg.shared
        /\ \A q : Has(cfg', q) <=> Has(cfg, q)
        /\ \A q : Has(cfg, q) => cfg'.custom[q] = IF q = p THEN k ELSE cfg.custom[q]
    <3> DEFINE d == WithKey(cfg, p, k)
    <3>1. /\ d.shared = IF UsesShared(cfg, p) THEN k ELSE cfg.shared
          /\ \A q : Has(d, q) <=> Has(cfg, q)
          /\ \A q : Has(cfg, q) => d.custom[q] = IF q = p THEN k ELSE cfg.custom[q]
      BY <1>c, WithKeyChanges
    <3>2. cfg' = d
      BY <2>2
    <3> HIDE DEF d
    <3> QED BY <3>1, <3>2
  <2>4. UsesShared(cfg, p) <=> p = Shared
    BY <1>s, <2>1 DEF UsesShared
  <2>5. ConnectKeyed' /\ SavedKeyed'
    BY <2>1, <2>2 DEF ConnectKeyed, SavedKeyed, SettingsTypeOK
  <2>6. InStep'
    BY <2>2, <2>3, <2>4 DEF InStep, Connecting, Section, BaseKey
  <2> QED BY <1>2, <2>1, <2>2, <2>5, <2>6
<1>7. ASSUME NEW m \in Models, NEW k \in MaybeKey, Connect(m, k)
      PROVE  ConnectKeyed' /\ SavedKeyed' /\ InStep' /\ Startable'
  <2>1. ApiKey(cfg, m.provider) \in MaybeKey /\ m.provider \in Providers
    BY <1>c, ConfigTyped DEF ApiKey, Has
  <2>2. PICK key \in Keys :
          /\ secrets' = [secrets EXCEPT ![m.provider] = key]
          /\ tui' = [at |-> "keyed", m |-> m, k |-> key, read |-> {}]
    BY <1>c, <1>7, <2>1 DEF Connect, MaybeKey
  <2>3. /\ UNCHANGED <<kind, base, cfg, saved, activeModel>> /\ tui.at = "idle"
        /\ tui'.at = "keyed" /\ tui'.m = m /\ tui'.k = key /\ key # NoKey
        /\ \A q \in Providers : secrets'[q] = IF q = m.provider THEN key ELSE secrets[q]
    BY <1>c, <1>7, <2>2 DEF Connect
  <2>4. ConnectKeyed' /\ SavedKeyed'
    BY <2>1, <2>3 DEF ConnectKeyed, SavedKeyed, SettingsTypeOK
  <2>5. InStep'
    BY <2>1, <2>3 DEF InStep, Connecting, Section, BaseKey
  <2> QED BY <1>2, <2>3, <2>4, <2>5
<1>8. CASE ConnectSaves
  <2>1. /\ UNCHANGED <<kind, base, cfg, secrets, activeModel>> /\ tui.at = "keyed"
        /\ saved' = saved \cup {tui.m.provider}
        /\ tui'.at = "upsert" /\ tui'.m = tui.m /\ tui'.k = tui.k
    BY <1>8 DEF ConnectSaves, ReadModels, SettingsTypeOK
  <2>2. ConnectKeyed' /\ SavedKeyed'
    BY <2>1 DEF ConnectKeyed, SavedKeyed
  <2>3. InStep'
    BY <2>1 DEF InStep, Connecting, Section, BaseKey
  <2> QED BY <1>2, <2>1, <2>2, <2>3
<1>9. CASE ConnectUpserts
  <2>1. /\ UNCHANGED <<kind, base, cfg, secrets, saved, activeModel>> /\ tui.at = "upsert"
        /\ tui'.at = "upserted" /\ tui'.m = tui.m /\ tui'.k = tui.k
    BY <1>9 DEF ConnectUpserts, SettingsTypeOK
  <2>2. ConnectKeyed' /\ SavedKeyed' /\ InStep'
    BY <1>1, <2>1
  <2> QED BY <1>2, <2>1, <2>2
<1>10. CASE ConnectApplies
  <2> DEFINE p == tui.m.provider
             c == WithConnection(cfg, p, tui.k)
  <2>1. /\ tui.m \in Models /\ p \in Providers /\ tui.k \in MaybeKey /\ tui.k # NoKey
        /\ p \in saved /\ secrets[p] = tui.k
    BY <1>10 DEF ConnectApplies, CommandsNamed, ConnectKeyed, MaybeKey
  <2>2. /\ c \in Config /\ c.shared = (IF p = Shared THEN tui.k ELSE cfg.shared)
        /\ \A q : Has(c, q) <=> Has(cfg, q) \/ (q = p /\ p # Shared)
        /\ \A q : Has(c, q) => c.custom[q] = IF q = p THEN tui.k ELSE cfg.custom[q]
    <3> HIDE DEF p
    <3> QED BY <1>c, <2>1, WithConnectionChanges
  <2>3. /\ UNCHANGED <<kind, base, secrets, saved>> /\ SwitchModel(c, tui.m) /\ tui'.at = "idle"
        /\ tui.at = "upserted"
    BY <1>n, <1>10 DEF ConnectApplies
  <2>4. \A q : Connecting(q) <=> q = p
    BY <2>3 DEF Connecting
  <2> HIDE DEF p, c
  <2>5. cfg'.custom = c.custom /\ cfg'.shared = c.shared
    BY <2>1, <2>2, <2>3, SwitchChanges
  <2>6. ConnectKeyed'
    BY <2>3 DEF ConnectKeyed
  <2>7. SavedKeyed'
    BY <2>3 DEF SavedKeyed
  <2>8. InStep'
    <3>1. ASSUME NEW q \in Customs
          PROVE  /\ Has(cfg', q) <=> Section(q)
                 /\ Has(cfg', q) /\ BaseKey(q) = NoKey => cfg'.custom[q] = secrets[q]
      <4>1. CASE q = p
        BY <2>1, <2>2, <2>5, <3>1, <4>1 DEF Has, Section
      <4>2. CASE q # p
        BY <2>2, <2>3, <2>4, <2>5, <3>1, <4>2 DEF Has, InStep
      <4> QED BY <4>1, <4>2
    <3>2. base.shared = NoKey => cfg'.shared = secrets[Shared]
      BY <2>1, <2>2, <2>3, <2>4, <2>5 DEF InStep
    <3> QED BY <2>3, <3>1, <3>2 DEF InStep, Section, BaseKey
  <2> QED BY <1>4, <2>1, <2>2, <2>3, <2>6, <2>7, <2>8
<1>11. ASSUME NEW m \in Models, RemoveModel(m)
       PROVE  ConnectKeyed' /\ SavedKeyed' /\ InStep' /\ Startable'
  <2>1. /\ UNCHANGED <<kind, base, cfg, secrets, saved, activeModel>> /\ tui.at = "idle"
        /\ tui'.at = "remove"
    BY <1>11 DEF RemoveModel, ReadModels, stored
  <2>2. ConnectKeyed' /\ SavedKeyed' /\ InStep'
    BY <1>1, <2>1
  <2> QED BY <1>2, <2>1, <2>2
<1>12. CASE RemoveEnds
  <2>1. UNCHANGED <<kind, base, secrets, saved>> /\ tui.at = "remove"
    BY <1>12 DEF RemoveEnds
  <2>2. ASSUME UNCHANGED cfg, tui'.at \in {"idle", "down"},
               activeModel' = IF activeModel = tui.m THEN NoModel ELSE activeModel
        PROVE  ConnectKeyed' /\ SavedKeyed' /\ InStep' /\ Startable'
    <3>1. ConnectKeyed' /\ SavedKeyed' /\ InStep'
      BY <1>1, <2>1, <2>2
    <3> QED BY <1>2, <1>3, <2>1, <2>2, <3>1
  <2>3. ASSUME NEW r \in AllModels, SwitchModel(cfg, r), tui' = NoCommand
        PROVE  ConnectKeyed' /\ SavedKeyed' /\ InStep' /\ Startable'
    <3>1. ConnectKeyed' /\ SavedKeyed' /\ InStep'
      BY <1>c, <1>n, <1>1, <2>1, <2>3, SwitchChanges
    <3> QED BY <1>c, <1>n, <1>4, <2>1, <2>3, <3>1
  <2> QED BY <1>n, <1>12, <2>2, <2>3 DEF RemoveEnds, Replacements
<1>13. CASE CliWrites
  <2>1. /\ UNCHANGED <<kind, base, cfg, secrets, saved, tui>>
        /\ activeModel' \in {NoModel, activeModel}
    BY <1>13 DEF CliWrites
  <2>2. ConnectKeyed' /\ SavedKeyed' /\ InStep'
    BY <1>1, <2>1
  <2> QED BY <1>2, <1>3, <2>1, <2>2
<1>14. CASE Restart
  <2>1. PICK c \in Effectives :
          /\ IF HasAdapter(c, c.model) THEN cfg' = c /\ tui' = NoCommand
             ELSE tui' = [NoCommand EXCEPT !.at = "down"] /\ UNCHANGED cfg
          /\ UNCHANGED <<kind, base, secrets, saved, activeModel>>
          /\ ~(tui.at = "keyed" /\ tui.m.provider \in Aliases)
    BY <1>14 DEF Restart, stored
  <2>2. tui'.at \in {"idle", "down"}
    BY <1>n, <2>1
  <2>3. \A a \in Aliases \ saved : secrets[a] = NoKey
    BY <2>1 DEF SavedKeyed
  <2>4. ConnectKeyed' /\ SavedKeyed'
    BY <2>1, <2>2, <2>3 DEF ConnectKeyed, SavedKeyed
  <2>5. c = Stored
    <3>1. LegacyKeys = {}
      BY <2>3 DEF LegacyKeys
    <3> QED BY <3>1, RestartTyped DEF Stored
  <2>6. InStep'
    <3> SUFFICES ASSUME tui'.at # "down", cfg' = Stored
                 PROVE  InStep'
      BY <1>n, <2>1, <2>5 DEF InStep
    <3>1. /\ \A p : Has(Stored, p) <=> Section(p)
          /\ \A p : Section(p) => Stored.custom[p] =
                                    IF BaseKey(p) # NoKey THEN BaseKey(p) ELSE secrets[p]
          /\ base.shared = NoKey => Stored.shared = secrets[Shared]
      BY EffectiveTyped DEF Stored
    <3> QED BY <2>1, <3>1 DEF InStep, Section, BaseKey, Has
  <2> QED BY <1>2, <2>1, <2>4, <2>6
<1>15. ASSUME \/ \E m \in CliModels : CliReads("upsert", m) \/ CliReads("remove", m)
              \/ UNCHANGED settingsVars
       PROVE  ConnectKeyed' /\ SavedKeyed' /\ InStep' /\ Startable'
  <2>1. UNCHANGED <<kind, base, cfg, secrets, saved, activeModel, tui>>
    BY <1>15 DEF CliReads, settingsVars, stored
  <2>2. ConnectKeyed' /\ SavedKeyed' /\ InStep'
    BY <1>1, <2>1
  <2> QED BY <1>2, <2>1, <2>2
<1>16. ~\E p \in Providers, k \in MaybeKey : CliSetKey(p, k)
  BY DEF CliSetKey
<1> QED BY <1>5, <1>6, <1>7, <1>8, <1>9, <1>10, <1>11, <1>12, <1>13, <1>14, <1>15, <1>16
        DEF SettingsNext

(***************************************************************************)
(* The theorems                                                            *)
(***************************************************************************)
LEMMA SettingsInitInv == SettingsInit => SettingsInv
<1> SUFFICES ASSUME SettingsInit PROVE SettingsInv
  OBVIOUS
<1> USE ProvidersTyped
<1>1. base \in Config /\ base.model \in AllModels
  BY SettingsAssumption, ConfigTyped DEF SettingsInit
<1>2. SettingsTypeOK
  BY <1>1 DEF SettingsInit, SettingsTypeOK, NoCommand
<1>3. tui.at = "idle" /\ cli.at = "idle" /\ cfg = base /\ activeModel = NoModel
  BY DEF SettingsInit, NoCommand
<1>4. CommandsNamed /\ ListIsFresh /\ ModelsKept /\ SameModel /\ BaseStarts /\ ConnectKeyed
  BY <1>3 DEF SettingsInit, CommandsNamed, ListIsFresh, ModelsKept, SameModel, StoredModel,
              BaseStarts, ConnectKeyed
<1>5. SavedKeyed
  BY DEF SettingsInit, SavedKeyed
<1>6. InStep
  <2>1. ASSUME NEW p \in Customs, Has(base, p), BaseKey(p) = NoKey PROVE base.custom[p] = NoKey
    BY <2>1 DEF SettingsInit, BaseKey, Has
  <2> QED BY <1>1, <1>3, <2>1 DEF SettingsInit, InStep, Section, Has
<1>7. Startable
  BY <1>2, <1>3, <1>4, <1>5, BaseModelStarts DEF Startable, StoredModel
<1> QED BY <1>2, <1>4, <1>5, <1>6, <1>7 DEF SettingsInv

THEOREM SettingsInductive == SettingsSpec => []SettingsInv
<1>1. SettingsInv /\ [SettingsNext]_settingsVars => SettingsInv'
  <2> SUFFICES ASSUME SettingsInv, [SettingsNext]_settingsVars PROVE SettingsInv'
    OBVIOUS
  <2>1. /\ SettingsTypeOK /\ CommandsNamed /\ ListIsFresh /\ ModelsKept /\ SameModel /\ BaseStarts
        /\ "key" \notin excused => ConnectKeyed /\ SavedKeyed /\ InStep /\ Startable
    BY DEF SettingsInv
  <2>2. base' = base /\ ("key" \in excused => "key" \in excused')
    BY DEF SettingsNext, Switch, SwitchModel, SetKey, CliSetKey, Connect, ConnectSaves,
           ConnectUpserts, ConnectApplies, RemoveModel, RemoveEnds, CliReads, CliWrites, Restart,
           settingsVars
  <2>3. SettingsTypeOK' /\ CommandsNamed' /\ ListIsFresh' /\ ModelsKept' /\ SameModel'
    BY <2>1, SettingsTypeStep, ListStep, SameModelStep
  <2>4. "key" \notin excused' => ConnectKeyed' /\ SavedKeyed' /\ InStep' /\ Startable'
    BY <2>1, <2>2, <2>3, KeyStep
  <2> QED BY <2>1, <2>2, <2>3, <2>4 DEF SettingsInv, BaseStarts
<1> QED BY <1>1, SettingsInitInv, PTL DEF SettingsSpec

(* What the settings, the commands on them and the configuration keep has its  *)
(* type, for any providers, keys, models and configuration files.              *)
THEOREM SettingsTypeCorrect == SettingsSpec => []SettingsTypeOK
<1>1. SettingsInv => SettingsTypeOK
  BY DEF SettingsInv
<1> QED BY <1>1, SettingsInductive, PTL

(* The list of custom models is what was added and not removed, for any models *)
(* and any number of commands, in SQLite always and in a file as long as no    *)
(* two processes change it at the same time (runtime-state.ts).                *)
THEOREM ListIsKept == SettingsSpec => []ModelsKept
<1>1. SettingsInv => ModelsKept
  BY DEF SettingsInv
<1> QED BY <1>1, SettingsInductive, PTL

(* What the terminal UI is connected to it is connected to after a restart,    *)
(* and after a crash anywhere in "/connect" it starts again, for any           *)
(* providers, aliases, keys, models and configuration files (createRuntime,    *)
(* applyOverrides, switchModel).                                               *)
THEOREM ConnectionSurvives == SettingsSpec => []RestartKeepsConnection
<1> USE ProvidersTyped
<1>1. SettingsInv => RestartStarts
  <2> SUFFICES ASSUME SettingsInv, excused = {}, NEW c \in Effectives
               PROVE  HasAdapter(c, c.model)
    BY DEF RestartStarts
  <2>1. SettingsTypeOK /\ Startable
    BY DEF SettingsInv
  <2>2. PICK k \in MaybeKey : c = Effective(k)
    BY <2>1, RestartTyped
  <2>3. c.model = StoredModel
    BY <2>1, <2>2, EffectiveTyped
  <2>4. ASSUME NEW p \in Providers, ApiKey(Stored, p) # NoKey PROVE ApiKey(c, p) # NoKey
    BY <2>1, <2>2, <2>4, EffectiveTyped DEF ApiKey, UsesShared, Stored
  <2> QED BY <2>1, <2>3, <2>4, AdapterFor DEF Startable
<1>2. SettingsInv => ConnectionKept
  <2> SUFFICES ASSUME SettingsInv, tui.at = "idle", excused = {}, cfg.model # Mock,
                      NEW c \in Effectives
               PROVE  LET p == cfg.model.provider IN
                      /\ c.model = cfg.model
                      /\ (IF Has(c, p) THEN BaseKey(p) ELSE base.shared) = NoKey =>
                           ApiKey(c, p) = ApiKey(cfg, p)
    BY DEF ConnectionKept
  <2> DEFINE p == cfg.model.provider
  <2>1. SettingsTypeOK /\ SavedKeyed /\ InStep /\ cfg.model = StoredModel
    BY DEF SettingsInv, SameModel
  <2>2. p \in Providers
    BY <2>1, ConfigTyped DEF SettingsTypeOK, AllModels
  <2>3. LegacyKeys = {}
    BY <2>1 DEF SavedKeyed, LegacyKeys
  <2>4. c = Effective(NoKey)
    BY <2>1, <2>3, RestartTyped
  <2>5. /\ c.model = StoredModel
        /\ base.shared = NoKey => c.shared = secrets[Shared]
        /\ \A q : Has(c, q) <=> Section(q)
        /\ \A q : Section(q) => c.custom[q] = IF BaseKey(q) # NoKey THEN BaseKey(q) ELSE secrets[q]
    BY <2>1, <2>4, EffectiveTyped
  <2>6. /\ \A q \in Customs : /\ Has(cfg, q) <=> Section(q)
                              /\ Has(cfg, q) /\ BaseKey(q) = NoKey => cfg.custom[q] = secrets[q]
        /\ base.shared = NoKey => cfg.shared = secrets[Shared]
    BY <2>1 DEF InStep, Connecting
  <2>7. ~Has(cfg, Shared) /\ ~Section(Shared)
    BY <2>1, BaseTyped, ConfigTyped DEF Has, Section, SettingsTypeOK
  <2> HIDE DEF p
  <2>8. (IF Has(c, p) THEN BaseKey(p) ELSE base.shared) = NoKey => ApiKey(c, p) = ApiKey(cfg, p)
    BY <2>2, <2>5, <2>6, <2>7 DEF ApiKey, UsesShared
  <2> QED BY <2>1, <2>5, <2>8 DEF p
<1> QED BY <1>1, <1>2, SettingsInductive, PTL DEF RestartKeepsConnection

(***************************************************************************)
(* The components together                                                 *)
(***************************************************************************)
(* What the run of the components does is, to each of them, what it does by    *)
(* itself: a part that moves takes its own step, and the others stay.          *)
LEMMA PartsStart ==
  Init => /\ part \in Movers /\ TuiInit /\ EditorInit /\ PatchInit /\ EditInit /\ SkillInit
          /\ SettingsInit /\ CallInit /\ LifeInit /\ FileStoreInit
BY DEF Init

LEMMA PartsStep ==
  [Next]_vars => /\ [TuiNext]_tuiVars /\ [EditorNext]_editorVars
                 /\ [PatchNext]_patchVars /\ [EditNext]_editVars /\ [SkillNext]_skillVars
                 /\ [FileStoreNext]_fileStoreVars
                 /\ [SettingsNext]_settingsVars /\ [CallNext]_callVars /\ [LifeNext]_lifeVars
                 /\ part' = part
BY DEF Next, vars, screenVars, fileVars, restVars

(* Whichever component moves, its variables keep their types: none of the      *)
(* components rests on what only the small instance gives it.                  *)
THEOREM ComponentsTypeCorrect == Spec => []TypeOK
<1>1. Spec => /\ TuiSpec /\ EditorSpec /\ PatchSpec /\ EditSpec /\ SkillSpec
              /\ SettingsSpec /\ CallSpec /\ LifeSpec /\ FileStoreSpec
  BY PartsStart, PartsStep, PTL
     DEF Spec, TuiSpec, EditorSpec, PatchSpec, EditSpec, SkillSpec, SettingsSpec, CallSpec, LifeSpec,
         FileStoreSpec
<1>2. /\ TuiTypeOK /\ EditorTypeOK /\ PatchTypeOK /\ EditTypeOK /\ SkillTypeOK
      /\ SettingsTypeOK /\ CallTypeOK /\ LifeTypeOK /\ FileStoreTypeOK
      => (part \in Movers => TypeOK)
  BY DEF TypeOK
<1>3. Spec => [](part \in Movers)
  <2>1. part \in Movers /\ part' = part => (part \in Movers)'
    OBVIOUS
  <2> QED
    BY <2>1, PartsStart, PartsStep, PTL DEF Spec
<1> QED
  BY <1>1, <1>2, <1>3, InputTypeCorrect, EditorTypeCorrect, PatchTypeCorrect, EditTypeCorrect, SkillTypeCorrect,
     SettingsTypeCorrect, CallTypeCorrect, LifeTypeCorrect, FileStoreTypeCorrect, PTL
=============================================================================

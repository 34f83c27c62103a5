----------------------------- MODULE TuiEditor ------------------------------
(* The keyboard of the terminal UI (adapters/tui/controller.ts, TuiLineInput):  *)
(* the line editor with its menu of slash commands and its history, the model  *)
(* picker, and copy mode. Indexes start at 0, as in the code.                  *)
EXTENDS Integers, Sequences, SequencesExt, Ordering

CONSTANTS
  Chars,       \* what can be typed, "/" and " " among it
  MaxLength,   \* bound on the length of a line
  MaxHistory,  \* bound on the lines remembered
  Hints,       \* what the slash commands insert, in the order of slashCommandHints
  Catalog,     \* the names of the models, in the order of listModelCatalog
  Transcript,  \* how many lines copy mode shows
  Heights      \* how many of them fit on the screen, before and after a resize

\* The terminal has room for eight lines or more (bodyHeight).
ASSUME EditorAssumption ==
  /\ Transcript \in Nat /\ Heights \subseteq Nat \ {0}
  /\ Hints \in Seq(Seq(Chars)) /\ Catalog \in Seq(Seq(Chars))

Slash == "/"
Space == " "

VARIABLES
  mode,      \* who gets the keys: the editor, the picker or copy mode
  value, cursor, selected,     \* the active question; selected also serves the picker
  history, recalled, draft,          \* history, historyIndex (-1: none), historySavedValue
  query,                       \* of the picker
  line, top, selection, body,  \* of copy mode: cursor, viewOffset, selectionStart, bodyHeight
  shrunk                       \* history: did the screen shrink in copy mode?

editor == <<value, cursor, selected>>
past == <<history, recalled, draft>>
copying == <<line, top, selection>>
editorVars == <<mode, editor, past, query, copying, body, shrunk>>

(***************************************************************************)
(* What the menu and the picker list                                       *)
(***************************************************************************)
\* Where a text has something other than spaces, and the text without those around it.
Inked(text) == {i \in DOMAIN text : text[i] # Space}
TrimStart(text) == IF Inked(text) = {} THEN << >> ELSE SubSeq(text, Min(Inked(text)), Len(text))
Trim(text) == IF Inked(text) = {} THEN << >> ELSE SubSeq(text, Min(Inked(text)), Max(Inked(text)))

\* suggestSlashCommands: those that start with what was typed, argument or not. The seven
\* that fit are all there are here; the menu and the keys cut the list alike.
Suggestions(text) ==
  IF TrimStart(text) = << >> \/ Head(TrimStart(text)) # Slash THEN << >>
  ELSE PickAt(Hints, {h \in DOMAIN Hints : IsPrefix(TrimStart(text), Hints[h])})

\* filterModelCatalog: the names that contain the query.
Filtered(text) ==
  IF Trim(text) = << >> THEN Catalog
  ELSE LET contains(name) ==
             \E i \in 0..Len(name) : IsPrefix(Trim(text), SubSeq(name, i + 1, Len(name)))
       IN PickAt(Catalog, {m \in DOMAIN Catalog : contains(Catalog[m])})

Menu == IF mode = "picker" THEN Filtered(query) ELSE Suggestions(value)

EditorTypeOK ==
  /\ mode \in {"edit", "picker", "copy"}
  /\ value \in Seq(Chars) /\ cursor \in 0..Len(value) /\ selected \in Nat
  /\ history \in Seq(Seq(Chars)) /\ recalled \in -1..(Len(history) - 1) /\ draft \in Seq(Chars)
  /\ query \in Seq(Chars)
  /\ line \in 0..Transcript /\ top \in 0..Transcript /\ selection \in -1..Transcript
  /\ body \in Heights /\ shrunk \in BOOLEAN

EditorInit ==
  /\ mode = "edit"
  /\ value = << >> /\ cursor = 0 /\ selected = 0
  /\ history = << >> /\ recalled = -1 /\ draft = << >>
  /\ query = << >>
  /\ line = 0 /\ top = 0 /\ selection = -1
  /\ body \in Heights /\ shrunk = FALSE

(***************************************************************************)
(* The line editor                                                         *)
(***************************************************************************)
Before(n) == SubSeq(value, 1, n)
After(n) == SubSeq(value, n + 1, Len(value))

\* Every edit closes the menu's selection and leaves the history.
Edited(text, position) ==
  /\ value' = text /\ cursor' = position /\ selected' = 0 /\ recalled' = -1
  /\ UNCHANGED <<history, draft>>

Insert ==
  /\ Len(value) < MaxLength
  /\ \E c \in Chars : Edited(Before(cursor) \o <<c>> \o After(cursor), cursor + 1)

Backspace == cursor > 0 /\ Edited(Before(cursor - 1) \o After(cursor), cursor - 1)

DeleteChar == cursor < Len(value) /\ Edited(Before(cursor) \o After(cursor + 1), cursor)

KillToEnd == Edited(Before(cursor), cursor)

\* Faulty: the cursor stays where it was.
KillToStart_Fault == Edited(After(cursor), cursor)

KillToStart == Edited(After(cursor), 0)

\* Where the word before the cursor starts: over the spaces, then over what is no space.
WordStart ==
  LET stretch(p) == \A i, j \in (p + 1)..cursor : i < j /\ value[i] = Space => value[j] = Space
  IN CHOOSE p \in 0..cursor : stretch(p) /\ (p > 0 => ~stretch(p - 1))

KillWord == cursor > 0 /\ Edited(Before(WordStart) \o After(cursor), WordStart)

MoveCursor ==
  /\ cursor' \in {0, Len(value), WordStart} \cup ({cursor - 1, cursor + 1} \cap 0..Len(value))
  /\ UNCHANGED <<value, selected, past>>

\* Tab: the history index stays.
AcceptSuggestion ==
  /\ selected < Len(Suggestions(value))
  /\ LET insert == Suggestions(value)[selected + 1] IN
       value' = insert /\ cursor' = Len(insert) /\ selected' = 0
  /\ UNCHANGED past

\* Up and down with a menu.
MoveSuggestion ==
  LET n == Len(Suggestions(value)) IN
  /\ n > 0
  /\ \E delta \in {-1, 1} : selected' = (selected + delta + n) % n
  /\ UNCHANGED <<value, cursor, past>>

Show(text) == value' = text /\ cursor' = Len(text) /\ selected' = 0

\* Up and down without one.
NavigateHistory ==
  /\ Suggestions(value) = << >> /\ history # << >>
  /\ \/ /\ recalled = -1 /\ draft' = value
        /\ recalled' = Len(history) - 1 /\ Show(history[recalled' + 1])
     \/ /\ recalled # -1 /\ recalled' \in {recalled - 1, recalled + 1} \cap 0..(Len(history) - 1)
        /\ Show(history[recalled' + 1]) /\ UNCHANGED draft
     \/ /\ recalled # -1 /\ recalled + 1 = Len(history)
        /\ recalled' = -1 /\ Show(draft) /\ UNCHANGED draft
  /\ UNCHANGED history

\* Enter completes a suggestion, or resolves the question; the next one starts empty.
Completes ==
  /\ selected < Len(Suggestions(value))
  /\ LET insert == Suggestions(value)[selected + 1] IN
       ~(Trim(value) = Trim(insert) /\ Last(insert) # Space)

Enter ==
  \/ Completes /\ AcceptSuggestion
  \/ /\ ~Completes
     /\ value' = << >> /\ cursor' = 0 /\ selected' = 0
     /\ recalled' = -1 /\ draft' = << >>
     /\ history' = IF Inked(value) # {} /\ (history = << >> \/ Last(history) # value)
                     THEN Append(history, value) ELSE history
     /\ Len(history') <= MaxHistory

EditKey ==
  /\ mode = "edit"
  /\ \/ Insert \/ Backspace \/ DeleteChar \/ KillToEnd \/ KillToStart \/ KillWord
     \/ MoveCursor \/ AcceptSuggestion \/ MoveSuggestion \/ NavigateHistory \/ Enter
  /\ UNCHANGED <<mode, query, copying, body, shrunk>>

(***************************************************************************)
(* The model picker                                                        *)
(***************************************************************************)
\* questionModelPicker, after "/models": the active model is selected, or else the first.
OpenPicker ==
  /\ mode = "edit" /\ value = << >>
  /\ mode' = "picker" /\ query' = << >>
  /\ selected' \in {0} \cup 0..(Len(Catalog) - 1)
  /\ UNCHANGED <<value, cursor, past, copying, body, shrunk>>

\* Faulty: the row stays selected when the list changes.
PickerQuery_Fault ==
  /\ mode = "picker"
  /\ \/ Len(query) < MaxLength /\ \E c \in Chars : query' = Append(query, c)
     \/ query # << >> /\ query' = Front(query)
  /\ UNCHANGED <<mode, editor, past, copying, body, shrunk>>

PickerQuery ==
  /\ mode = "picker"
  /\ \/ Len(query) < MaxLength /\ \E c \in Chars : query' = Append(query, c)
     \/ query # << >> /\ query' = Front(query)
  /\ selected' = 0
  /\ UNCHANGED <<mode, value, cursor, past, copying, body, shrunk>>

PickerMove ==
  LET n == Len(Filtered(query)) IN
  /\ mode = "picker" /\ n > 0
  /\ \E delta \in {-1, 1} : selected' = (selected + delta + n) % n
  /\ UNCHANGED <<mode, value, cursor, past, query, copying, body, shrunk>>

\* Enter, Escape or Ctrl-C; the next question is a new one.
ClosePicker ==
  /\ mode = "picker" /\ mode' = "edit" /\ selected' = 0 /\ query' = << >>
  /\ UNCHANGED <<value, cursor, past, copying, body, shrunk>>

(***************************************************************************)
(* Copy mode                                                               *)
(***************************************************************************)
Lesser(a, b) == IF a < b THEN a ELSE b
Greater(a, b) == IF a > b THEN a ELSE b

Bottom == Greater(0, Transcript - body)

\* enterCopyMode: at the last line.
EnterCopyMode ==
  /\ mode = "edit" /\ value = << >> /\ Transcript > 0
  /\ mode' = "copy" /\ line' = Transcript - 1 /\ top' = Bottom /\ selection' = -1
  /\ UNCHANGED <<editor, past, query, body, shrunk>>

CopyUp == line' = Greater(0, line - 1) /\ top' = Lesser(top, line')

CopyDown ==
  /\ line' = Lesser(Transcript - 1, line + 1)
  /\ top' = IF line' >= top + body THEN line' - body + 1 ELSE top

CopyPageUp == line' = Greater(0, line - body) /\ top' = Greater(0, top - body)

CopyPageDown == line' = Lesser(Transcript - 1, line + body) /\ top' = Lesser(Bottom, top + body)

CopyEnds == \/ line' = 0 /\ top' = 0
            \/ line' = Transcript - 1 /\ top' = Bottom

ToggleSelection == selection' = IF selection = -1 THEN line ELSE -1

CopyKey ==
  /\ mode = "copy"
  /\ \/ (CopyUp \/ CopyDown \/ CopyPageUp \/ CopyPageDown \/ CopyEnds) /\ UNCHANGED selection
     \/ ToggleSelection /\ UNCHANGED <<line, top>>
  /\ UNCHANGED <<mode, editor, past, query, body, shrunk>>

\* Enter, Escape, "y" or "q".
LeaveCopyMode ==
  /\ mode = "copy" /\ mode' = "edit"
  /\ line' = 0 /\ top' = 0 /\ selection' = -1 /\ shrunk' = FALSE
  /\ UNCHANGED <<editor, past, query, body>>

\* The screen is drawn again, at the same offset.
Resize ==
  /\ mode = "copy"
  /\ body' \in Heights \ {body}
  /\ shrunk' = (shrunk \/ body' < body)
  /\ UNCHANGED <<mode, editor, past, query, copying>>

EditorNext ==
  \/ EditKey
  \/ OpenPicker \/ PickerQuery \/ PickerMove \/ ClosePicker
  \/ EnterCopyMode \/ CopyKey \/ LeaveCopyMode \/ Resize

EditorSpec == EditorInit /\ [][EditorNext]_editorVars

\* renderCopyModeScreen: where the view begins, and the lines in it.
Offset == Lesser(Greater(0, top), Bottom)
OnScreen == Offset..(Offset + body - 1)

(* Enter acts on something the screen shows: a row that is in the menu or in   *)
(* the picker's list, and in copy mode lines within the view, unless the       *)
(* terminal was made smaller meanwhile, after which the cursor may be below it. *)
EnterActsOnShown ==
  /\ mode # "copy" /\ Len(Menu) > 0 => selected < Len(Menu)
  /\ mode = "copy" /\ ~shrunk => line \in OnScreen
=============================================================================

--------------------------- MODULE FileSessionStore --------------------------
(* FileSessionStore (core/session/file-session-store.ts): one document with an *)
(* array of sessions and one array of the messages of all of them, written by  *)
(* the processes that share it. Every call that writes is one updateJsonFile,  *)
(* a single step here (AtomicJsonFile is about those), and every call that     *)
(* reads reads the file again. A message's place in the array stands for its   *)
(* id, and sessions are kept by theirs.                                        *)
EXTENDS Naturals, Sequences, Ordering

CONSTANTS
  Sessions, NoSession, Statuses, Modes, Bodies,
  Keeps,        \* values of keepLastMessages
  MaxMessages   \* bound on the messages of the document

ASSUME FileStoreAssumption ==
  Keeps \subseteq Nat /\ MaxMessages \in Nat /\ "idle" \in Statuses

VARIABLES
  sessions,   \* data.sessions by id
  messages,   \* data.messages
  used        \* ids createId has returned: it never returns one twice

fileStoreVars == <<sessions, messages, used>>

Live == DOMAIN sessions

FileStoreTypeOK ==
  /\ used \subseteq Sessions /\ Live \subseteq used
  /\ sessions \in [Live -> [status : Statuses, mode : Modes, removed : 0..MaxMessages,
                            parent : Sessions \cup {NoSession}]]
  /\ messages \in Seq([session : Sessions, body : Bodies]) /\ Len(messages) <= MaxMessages

FileStoreInit == sessions = << >> /\ messages = << >> /\ used = {}

\* data.messages.filter
PlacesOf(s) == {i \in DOMAIN messages : messages[i].session = s}
At(places) == PickAt(messages, places)
Of(s) == At(PlacesOf(s))

\* What its messages say, without whose they are.
Said(s) == LET mine == Of(s) IN [i \in DOMAIN mine |-> mine[i].body]

\* findSession throws and nothing is written; data.sessions.map replaces the one.
Replace(s, session) == s \in Live /\ sessions' = [sessions EXCEPT ![s] = session]

InsertSession(s, session) ==
  /\ s \notin used
  /\ used' = used \cup {s}
  /\ sessions' = [x \in Live \cup {s} |-> IF x = s THEN session ELSE sessions[x]]

CreateSession(s, mode) ==
  /\ InsertSession(s, [status |-> "idle", mode |-> mode, removed |-> 0, parent |-> NoSession])
  /\ UNCHANGED messages

UpdateStatus(s, status) ==
  Replace(s, [sessions[s] EXCEPT !.status = status]) /\ UNCHANGED <<messages, used>>

UpdateSession(s, mode) ==
  Replace(s, [sessions[s] EXCEPT !.mode = mode]) /\ UNCHANGED <<messages, used>>

\* The copies go to the end, in the order of the source's messages.
ForkSession(s, fork, mode) ==
  /\ s \in Live /\ Len(messages) + Len(Of(s)) <= MaxMessages
  /\ InsertSession(fork, [sessions[s] EXCEPT !.status = "idle", !.mode = mode, !.parent = s])
  /\ messages' = messages \o [i \in DOMAIN Of(s) |-> [Of(s)[i] EXCEPT !.session = fork]]

\* messages.slice(-keep), by the messages' ids.
Kept(s, keep) == {i \in PlacesOf(s) : Cardinality({j \in PlacesOf(s) : i < j}) < keep}

\* Faulty: only what is kept of the session stays in the array.
CompactSession_Fault(s, keep) ==
  /\ Replace(s, [sessions[s] EXCEPT !.removed = Len(Of(s)) - Len(At(Kept(s, keep)))])
  /\ messages' = At(Kept(s, keep))
  /\ UNCHANGED used

CompactSession(s, keep) ==
  /\ Replace(s, [sessions[s] EXCEPT !.removed = Len(Of(s)) - Len(At(Kept(s, keep)))])
  /\ messages' = At((DOMAIN messages \ PlacesOf(s)) \cup Kept(s, keep))
  /\ UNCHANGED used

AddMessage(s, body) ==
  /\ s \in Live /\ Len(messages) < MaxMessages
  /\ messages' = Append(messages, [session |-> s, body |-> body])
  /\ UNCHANGED <<sessions, used>>

ClearMessages(s) ==
  /\ s \in Live
  /\ messages' = At(DOMAIN messages \ PlacesOf(s))
  /\ UNCHANGED <<sessions, used>>

DeleteSession(s) ==
  /\ s \in Live
  /\ sessions' = [x \in Live \ {s} |-> sessions[x]]
  /\ messages' = At(DOMAIN messages \ PlacesOf(s))
  /\ UNCHANGED used

FileStoreNext ==
  \E s \in Sessions :
    \/ \E mode \in Modes : CreateSession(s, mode) \/ UpdateSession(s, mode)
    \/ \E fork \in Sessions, mode \in Modes : ForkSession(s, fork, mode)
    \/ \E status \in Statuses : UpdateStatus(s, status)
    \/ \E keep \in Keeps : CompactSession(s, keep)
    \/ \E body \in Bodies : AddMessage(s, body)
    \/ ClearMessages(s) \/ DeleteSession(s)

FileStoreSpec == FileStoreInit /\ [][FileStoreNext]_fileStoreVars

(* Every call does to the one document what the store in memory does to its    *)
(* two maps: a compaction, a clearing, a fork or a deletion of one session     *)
(* leaves the messages of every other, and their order, as they were.          *)
Store == INSTANCE SessionStore WITH messages <- [s \in Live |-> Said(s)]

FileImplementsStore == Store!Init /\ [][Store!Next(Keeps)]_(Store!storeVars)
=============================================================================

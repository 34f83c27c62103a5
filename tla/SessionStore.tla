---------------------------- MODULE SessionStore ----------------------------
(***************************************************************************)
(* What a session store promises its callers: InMemorySessionStore         *)
(* (src/core/session/session-store.ts), where every call is one step.      *)
(* Time stamps, titles and models are left out. SqliteSessionStore         *)
(* implements it.                                                          *)
(*                                                                         *)
(* A call on a session that is not there throws NotFoundError and changes  *)
(* nothing, so every action has the session's existence as its guard.      *)
(***************************************************************************)
EXTENDS Naturals, Sequences

CONSTANTS
  Sessions,   \* session ids
  NoSession,  \* no parent
  Statuses,   \* of a run; "idle" among them
  Modes,      \* "build" among them
  Bodies      \* what a message says

VARIABLES
  sessions,   \* Map from id to session
  messages,   \* Map from id to its messages
  used        \* ids createId has returned: it never returns one twice

storeVars == <<sessions, messages, used>>

Live == DOMAIN sessions

SessionRecord == [status : Statuses, mode : Modes, removed : Nat,
                  parent : Sessions \cup {NoSession}]

Init == sessions = <<>> /\ messages = <<>> /\ used = {}

\* Both maps get the new id.
Insert(s, session, list) ==
  /\ s \notin used
  /\ used' = used \cup {s}
  /\ sessions' = [x \in Live \cup {s} |-> IF x = s THEN session ELSE sessions[x]]
  /\ messages' = [x \in Live \cup {s} |-> IF x = s THEN list ELSE messages[x]]

CreateSession(s, mode) ==
  Insert(s, [status |-> "idle", mode |-> mode, removed |-> 0, parent |-> NoSession], <<>>)

\* input.mode ?? source.mode: the given mode may be the source's own.
ForkSession(s, fork, mode) ==
  /\ s \in Live
  /\ Insert(fork, [sessions[s] EXCEPT !.status = "idle", !.mode = mode, !.parent = s], messages[s])

UpdateStatus(s, status) ==
  /\ s \in Live
  /\ sessions' = [sessions EXCEPT ![s].status = status]
  /\ UNCHANGED <<messages, used>>

\* {...current, ...patch}; the patch is a mode, or a title or a model alike.
UpdateSession(s, mode) ==
  /\ s \in Live
  /\ sessions' = [sessions EXCEPT ![s].mode = mode]
  /\ UNCHANGED <<messages, used>>

\* slice(-keep): the last of a list, all of it when it is shorter.
LastOf(list, keep) ==
  SubSeq(list, IF keep < Len(list) THEN Len(list) - keep + 1 ELSE 1, Len(list))

CompactSession(s, keep) ==
  /\ s \in Live
  /\ LET kept == LastOf(messages[s], keep)
     IN  /\ messages' = [messages EXCEPT ![s] = kept]
         /\ sessions' = [sessions EXCEPT ![s].removed = Len(messages[s]) - Len(kept)]
  /\ UNCHANGED used

AddMessage(s, body) ==
  /\ s \in Live
  /\ messages' = [messages EXCEPT ![s] = Append(@, body)]
  /\ UNCHANGED <<sessions, used>>

ClearMessages(s) ==
  /\ s \in Live
  /\ messages' = [messages EXCEPT ![s] = <<>>]
  /\ UNCHANGED <<sessions, used>>

DeleteSession(s) ==
  /\ s \in Live
  /\ sessions' = [x \in Live \ {s} |-> sessions[x]]
  /\ messages' = [x \in Live \ {s} |-> messages[x]]
  /\ UNCHANGED used

Next(Keeps) ==
  \E s \in Sessions :
    \/ \E mode \in Modes : CreateSession(s, mode) \/ UpdateSession(s, mode)
    \/ \E fork \in Sessions, mode \in Modes : ForkSession(s, fork, mode)
    \/ \E status \in Statuses : UpdateStatus(s, status)
    \/ \E keep \in Keeps : CompactSession(s, keep)
    \/ \E body \in Bodies : AddMessage(s, body)
    \/ ClearMessages(s)
    \/ DeleteSession(s)

Spec(Keeps) == Init /\ [][Next(Keeps)]_storeVars
=============================================================================

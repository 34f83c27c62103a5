------------------------- MODULE SqliteSessionStore -------------------------
(***************************************************************************)
(* SqliteSessionStore (src/adapters/sqlite/sqlite-session-store.ts): the   *)
(* tables sessions and messages, written by the processes that opened the  *)
(* database.                                                               *)
(*                                                                         *)
(* better-sqlite3 is synchronous, so a process is in one call at a time;   *)
(* other processes' statements run between any two of its statements, and  *)
(* a transaction is one step or none. An action is one statement or one    *)
(* transaction, with the code around it.                                   *)
(*                                                                         *)
(* A definition Name_Fault is a faulty variant of Name that nothing uses:  *)
(* put in its place it must break a property, see README.md.               *)
(***************************************************************************)
EXTENDS Naturals, FiniteSets, Sequences

CONSTANTS
  Procs,        \* processes that opened the database
  Sessions,     \* bound: the session ids that are ever used
  NoSession,    \* no parent
  Statuses, Modes, Bodies,
  Keeps,        \* values of keepLastMessages
  MaxMessages,  \* bound: rows of messages
  MaxNow,       \* bound: the readings of the clock are 0..MaxNow
  MaxCalls      \* bound: the calls of all processes

ASSUME StoreAssumption ==
  /\ NoSession \notin Sessions
  /\ "idle" \in Statuses
  /\ Keeps \subseteq Nat /\ MaxMessages \in Nat
  /\ MaxNow \in Nat /\ MaxCalls \in Nat

VARIABLES
  sessions,  \* the rows of sessions by id
  messages,  \* the rows of messages
  used,      \* ids createId has returned: it never returns one twice
  now,       \* the clock; it is taken never to go back
  job,       \* the call each process is in
  calls,     \* how many calls began
  wanted,    \* history: the status last set on each session
  stale      \* history: a call finished on a row that had changed since it was read, or
             \* stored a message under an earlier time than one that was there

tableVars == <<sessions, messages, used>>
historyVars == <<wanted, stale>>
sqlVars == <<tableVars, now, job, calls, historyVars>>

Live == DOMAIN sessions

SessionRow == [status : Statuses, mode : Modes, removed : Nat,
               parent : Sessions \cup {NoSession}]
MessageRow == [row : Nat, session : Sessions, body : Bodies, at : 0..MaxNow]

Idle == [op |-> "idle"]
Calls == {"updateSession", "forkSession", "addMessage", "clearMessages", "deleteSession"}
Job == [op : Calls \cup {"deleteRow"}, session : Sessions, row : SessionRow, at : 0..MaxNow]

TypeOK ==
  /\ used \subseteq Sessions
  /\ Live \subseteq used
  /\ sessions \in [Live -> SessionRow]
  /\ messages \subseteq MessageRow
  /\ \A m, n \in messages : m.row = n.row => m = n
  /\ now \in 0..MaxNow
  /\ job \in [Procs -> Job \cup {Idle}]
  /\ calls \in 0..MaxCalls
  /\ wanted \in [Live -> Statuses]
  /\ stale \in BOOLEAN

Init ==
  /\ sessions = <<>> /\ messages = {} /\ used = {}
  /\ now = 0
  /\ job = [p \in Procs |-> Idle]
  /\ calls = 0
  /\ wanted = <<>>
  /\ stale = FALSE

-----------------------------------------------------------------------------
(* Queries. *)

RowsOf(s) == {m \in messages : m.session = s}

\* ORDER BY created_at ASC: rows of the same millisecond come by rowid, the order
\* in which the index on session_id yields them.
Before(m, n) == m.at < n.at \/ (m.at = n.at /\ m.row < n.row)
Place(m) == Cardinality({n \in RowsOf(m.session) : Before(n, m)})

\* listMessages
Listing(s) ==
  [i \in 1..Cardinality(RowsOf(s)) |-> (CHOOSE m \in RowsOf(s) : Place(m) = i - 1).body]

\* The rowid of an insertion is above every rowid there is.
LastRow_Count == Cardinality(messages)
LastRow == IF messages = {} THEN 0
           ELSE (CHOOSE m \in messages : \A n \in messages : n.row <= m.row).row

-----------------------------------------------------------------------------
(* Calls of one statement, or of one transaction. *)

Begin(p) ==
  /\ job[p] = Idle /\ calls < MaxCalls
  /\ calls' = calls + 1

InsertSession(s, row) ==
  /\ s \notin used
  /\ used' = used \cup {s}
  /\ sessions' = [x \in Live \cup {s} |-> IF x = s THEN row ELSE sessions[x]]
  /\ wanted' = [x \in Live \cup {s} |-> IF x = s THEN row.status ELSE wanted[x]]

CreateSession(p, s, mode) ==
  /\ Begin(p)
  /\ InsertSession(s, [status |-> "idle", mode |-> mode, removed |-> 0, parent |-> NoSession])
  /\ UNCHANGED <<messages, now, job, stale>>

UpdateStatus(p, s, status) ==
  /\ Begin(p) /\ s \in Live
  /\ sessions' = [sessions EXCEPT ![s].status = status]
  /\ wanted' = [wanted EXCEPT ![s] = status]
  /\ UNCHANGED <<messages, used, now, job, stale>>

\* messages.slice(0, length - keep): a negative end counts from the end.
RemovedOf(n, keep) ==
  IF keep = 0 THEN n
  ELSE IF keep <= n THEN n - keep
  ELSE IF keep <= 2 * n THEN 2 * n - keep ELSE 0

\* The transaction of compactSession, its updateSession included.
CompactSession(p, s, keep) ==
  /\ Begin(p) /\ s \in Live
  /\ LET count == RemovedOf(Cardinality(RowsOf(s)), keep)
     IN  /\ messages' = {m \in messages : m.session # s \/ Place(m) >= count}
         /\ sessions' = [sessions EXCEPT ![s].removed = count]
  /\ UNCHANGED <<used, now, job, historyVars>>

-----------------------------------------------------------------------------
(* Calls that look at the session's row first. *)

\* getSession, and new Date() after it.
GetSession(p, op, s) ==
  /\ Begin(p) /\ s \in Live
  /\ job' = [job EXCEPT ![p] = [op |-> op, session |-> s, row |-> sessions[s], at |-> now]]
  /\ UNCHANGED <<tableVars, now, historyVars>>

Doing(p, op) == job[p].op = op

\* The call ends; what it read may be out of date by then.
Return(p) ==
  /\ job' = [job EXCEPT ![p] = Idle]
  /\ stale' = (stale \/ job[p].session \notin Live \/ sessions[job[p].session] # job[p].row)

\* UPDATE sessions SET mode, model, title, summary, todos and metadata.
Columns_WithStatus(next, current) == [next EXCEPT !.parent = current.parent]
Columns(next, current) == [next EXCEPT !.status = current.status, !.parent = current.parent]

\* A row deleted meanwhile is not updated, and nobody notices.
UpdateSession(p, mode) ==
  /\ Doing(p, "updateSession")
  /\ sessions' = [s \in Live |->
       IF s = job[p].session THEN Columns([job[p].row EXCEPT !.mode = mode], sessions[s])
                             ELSE sessions[s]]
  /\ Return(p)
  /\ UNCHANGED <<messages, used, now, calls, wanted>>

\* The transaction of forkSession: input.mode ?? source.mode, copies of what the
\* source holds now, all of the same created_at.
ForkedRow_Unordered(m, i) == LastRow + 1 + Cardinality(RowsOf(m.session)) - i
ForkedRow(m, i) == LastRow + 1 + i

Copies(source, fork, at) ==
  {[row |-> ForkedRow(m, Place(m)), session |-> fork, body |-> m.body, at |-> at] :
     m \in RowsOf(source)}

ForkSession(p, fork, mode) ==
  /\ Doing(p, "forkSession")
  /\ LET source == job[p].session
     IN  /\ Cardinality(messages) + Cardinality(RowsOf(source)) <= MaxMessages
         /\ InsertSession(fork, [job[p].row EXCEPT !.status = "idle", !.mode = mode,
                                                   !.parent = source])
         /\ messages' = messages \cup Copies(source, fork, job[p].at)
  /\ Return(p)
  /\ UNCHANGED <<now, calls>>

\* PRAGMA foreign_keys = ON: the INSERT throws when the session was deleted.
ForeignKey_Off(s) == TRUE
ForeignKey(s) == s \in Live

AddMessage(p, body) ==
  /\ Doing(p, "addMessage") /\ ForeignKey(job[p].session)
  /\ Cardinality(messages) < MaxMessages
  /\ messages' = messages \cup
       {[row |-> LastRow + 1, session |-> job[p].session, body |-> body, at |-> job[p].at]}
  /\ job' = [job EXCEPT ![p] = Idle]
  /\ stale' = (stale \/ \E m \in RowsOf(job[p].session) : job[p].at < m.at)
  /\ UNCHANGED <<sessions, used, now, calls, wanted>>

ClearMessages(p) ==
  /\ Doing(p, "clearMessages")
  /\ messages' = {m \in messages : m.session # job[p].session}
  /\ job' = [job EXCEPT ![p] = Idle]
  /\ UNCHANGED <<sessions, used, now, calls, historyVars>>

\* deleteSession has two statements and no transaction.
DeleteMessages(p) ==
  /\ Doing(p, "deleteSession")
  /\ messages' = {m \in messages : m.session # job[p].session}
  /\ job' = [job EXCEPT ![p].op = "deleteRow"]
  /\ UNCHANGED <<sessions, used, now, calls, historyVars>>

\* ON DELETE CASCADE takes what was inserted after the first statement.
DeleteRow(p) ==
  /\ Doing(p, "deleteRow")
  /\ LET rest == Live \ {job[p].session}
     IN  /\ sessions' = [s \in rest |-> sessions[s]]
         /\ wanted' = [s \in rest |-> wanted[s]]
  /\ messages' = {m \in messages : m.session # job[p].session}
  /\ job' = [job EXCEPT ![p] = Idle]
  /\ UNCHANGED <<used, now, calls, stale>>

\* A statement throws (SQLITE_BUSY, the foreign key) or the process dies: what
\* the call did so far stays.
Fail(p) ==
  /\ job[p] # Idle
  /\ job' = [job EXCEPT ![p] = Idle]
  /\ UNCHANGED <<tableVars, now, calls, historyVars>>

Tick ==
  /\ now < MaxNow
  /\ now' = now + 1
  /\ UNCHANGED <<tableVars, job, calls, historyVars>>

-----------------------------------------------------------------------------
Step(p) ==
  \/ \E s \in Sessions :
       \/ \E mode \in Modes : CreateSession(p, s, mode) \/ ForkSession(p, s, mode)
       \/ \E status \in Statuses : UpdateStatus(p, s, status)
       \/ \E keep \in Keeps : CompactSession(p, s, keep)
       \/ \E op \in Calls : GetSession(p, op, s)
  \/ \E mode \in Modes : UpdateSession(p, mode)
  \/ \E body \in Bodies : AddMessage(p, body)
  \/ ClearMessages(p) \/ DeleteMessages(p) \/ DeleteRow(p) \/ Fail(p)

Next == Tick \/ \E p \in Procs : Step(p)

Spec == Init /\ [][Next]_sqlVars

-----------------------------------------------------------------------------
(* Properties. *)

\* A transcript belongs to a session that is there, however a deletion's two
\* statements interleave with insertions, and wherever they stop.
NoOrphans == \A m \in messages : m.session \in Live

\* What updateStatus set stays until the next updateStatus: a rename or a switch of
\* mode computed on an older row, by another process, never takes a run's status back.
StatusKept == \A s \in Live : sessions[s].status = wanted[s]

\* A compaction to more messages than there are, and fewer than twice as many, drops some.
CutsShort ==
  \E p \in Procs, s \in Sessions, keep \in Keeps :
    /\ CompactSession(p, s, keep)
    /\ Cardinality(RowsOf(s)) < keep /\ keep < 2 * Cardinality(RowsOf(s))

\* Every statement is a step of the session store, or none, as long as no call used a
\* row, or a time, that another process had overtaken meanwhile; but for the compactions
\* that cut short (CompactionKeepsLast).
Store == INSTANCE SessionStore WITH messages <- [s \in Live |-> Listing(s)]

ImplementsStore == Store!Init /\ [][stale' \/ CutsShort \/ Store!Next(Keeps)]_(Store!storeVars)

\* CompactSessionInput.keepLastMessages (src/core/session/session-store.ts:51-54):
\* the last messages, as many as asked for, are still there after a compaction.
CompactionKeepsLast ==
  [][\A p \in Procs, s \in Sessions, keep \in Keeps :
       CompactSession(p, s, keep) => Listing(s)' = Store!LastOf(Listing(s), keep)]_sqlVars
=============================================================================

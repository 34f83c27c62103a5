---------------------- MODULE SqliteSessionStoreProofs ----------------------
(***************************************************************************)
(* Safety of the SQLite store for every number of processes, sessions and  *)
(* messages: rows keep distinct rowids, no message outlives its session,   *)
(* no stale row takes a status back, and the tables do what the two maps   *)
(* of the store in memory do. A process that has the database to itself    *)
(* never finishes a call on an outdated row, so for it the first proviso   *)
(* of ImplementsStore is void.                                             *)
(***************************************************************************)
EXTENDS SqliteSessionStore, FiniteSetTheorems, SequenceTheorems, WellFoundedInduction, TLAPS

IInv == TypeOK /\ IsFiniteSet(messages) /\ NoOrphans /\ StatusKept

-----------------------------------------------------------------------------
(* Rowids. *)

\* LastRow is the highest rowid. Among the sets of rows above some row, one is
\* minimal under strict inclusion, and it can only be empty.
LEMMA LastRowIsLast ==
  ASSUME IsFiniteSet(messages), messages \subseteq MessageRow
  PROVE  LastRow \in Nat /\ \A n \in messages : n.row <= LastRow
<1>1. CASE messages = {}
  BY <1>1 DEF LastRow
<1>2. CASE messages # {}
  <2> DEFINE Above(m) == {n \in messages : m.row < n.row}
             Sets == {Above(m) : m \in messages}
  <2>1. \A m \in messages : m.row \in Nat
    BY DEF MessageRow
  <2>2. Sets \subseteq FiniteSubsetsOf(messages) /\ Sets # {}
    <3>1. FiniteSubsetsOf(messages) = SUBSET messages
      BY FS_FiniteSubsetsOfFinite
    <3>2. Sets \subseteq SUBSET messages /\ Sets # {}
      BY <1>2
    <3> QED BY <3>1, <3>2
  <2>3. PICK X \in Sets : \A Y \in Sets : ~(<<Y, X>> \in StrictSubsetOrdering(messages))
    <3>1. IsWellFoundedOn(StrictSubsetOrdering(messages), FiniteSubsetsOf(messages))
      BY FS_StrictSubsetOrderingWellFounded
    <3> HIDE DEF Sets
    <3> QED BY <2>2, <3>1, WFMin
  <2>4. PICK m \in messages : X = Above(m)
    OBVIOUS
  <2>5. Above(m) = {}
    <3> SUFFICES ASSUME NEW n \in Above(m) PROVE FALSE
      OBVIOUS
    <3>1. Above(n) \subseteq Above(m) /\ n \notin Above(n) /\ n \in Above(m)
      BY <2>1
    <3>2. <<Above(n), Above(m)>> \in StrictSubsetOrdering(messages)
      BY <3>1 DEF StrictSubsetOrdering
    <3> QED BY <2>3, <2>4, <3>2
  <2>6. \A n \in messages : n.row <= m.row
    BY <2>1, <2>5
  <2>7. PICK l \in messages : LastRow = l.row /\ \A n \in messages : n.row <= l.row
    BY <1>2, <2>6 DEF LastRow
  <2> QED BY <2>1, <2>7
<1> QED BY <1>1, <1>2

LEMMA PlaceIsNat ==
  ASSUME IsFiniteSet(messages), NEW m
  PROVE  Place(m) \in Nat
<1>1. {n \in RowsOf(m.session) : Before(n, m)} \in SUBSET messages
  BY DEF RowsOf
<1> QED BY <1>1, FS_Subset, FS_CardinalityType DEF Place

\* Two rows of a session have different places in its listing.
LEMMA PlaceIsInjective ==
  ASSUME IsFiniteSet(messages), messages \subseteq MessageRow,
         \A m, n \in messages : m.row = n.row => m = n
  PROVE  \A m, n \in messages : m.session = n.session /\ Place(m) = Place(n) => m = n
<1> SUFFICES ASSUME NEW m \in messages, NEW n \in messages, m.session = n.session, Place(m) = Place(n)
             PROVE  m = n
  OBVIOUS
<1> DEFINE Preds(x) == {y \in RowsOf(m.session) : Before(y, x)}
<1>1. \A x \in messages : x.row \in Nat /\ x.at \in Nat
  BY StoreAssumption DEF MessageRow
<1>2. ASSUME NEW x \in RowsOf(m.session), NEW y \in RowsOf(m.session), Before(x, y),
             Cardinality(Preds(x)) = Cardinality(Preds(y))
      PROVE  FALSE
  <2>1. Preds(x) \subseteq Preds(y) /\ x \in Preds(y) /\ x \notin Preds(x)
    BY <1>1, <1>2 DEF Before, RowsOf
  <2>2. IsFiniteSet(Preds(y))
    <3>1. Preds(y) \in SUBSET messages
      BY DEF RowsOf
    <3> QED BY <3>1, FS_Subset
  <2> QED BY <1>2, <2>1, <2>2, FS_Subset
<1>3. m \in RowsOf(m.session) /\ n \in RowsOf(m.session)
  BY DEF RowsOf
<1>4. Cardinality(Preds(m)) = Cardinality(Preds(n))
  BY DEF Place
<1>5. ~Before(m, n) /\ ~Before(n, m)
  BY <1>2, <1>3, <1>4
<1> QED BY <1>1, <1>5 DEF Before

-----------------------------------------------------------------------------
(* Steps. *)

\* Deleting messages keeps everything that is said of messages alone.
LEMMA FewerMessages ==
  ASSUME IInv, messages' \subseteq messages
  PROVE  /\ messages' \subseteq MessageRow /\ IsFiniteSet(messages')
         /\ \A m, n \in messages' : m.row = n.row => m = n
         /\ \A m \in messages' : m.session \in Live
BY FS_Subset DEF IInv, TypeOK, NoOrphans

\* A new row in sessions.
LEMMA InsertSessionStep ==
  ASSUME IInv, NEW s \in Sessions, NEW row \in SessionRow, InsertSession(s, row)
  PROVE  /\ Live' = Live \cup {s} /\ s \notin Live
         /\ used' \subseteq Sessions /\ Live' \subseteq used'
         /\ sessions' \in [Live' -> SessionRow] /\ wanted' \in [Live' -> Statuses]
         /\ StatusKept'
<1>1. Live \subseteq used
  BY DEF IInv, TypeOK
<1>2. Live' = Live \cup {s}
  BY DEF InsertSession, Live
<1>3. s \notin Live /\ used' = used \cup {s} /\ used \subseteq Sessions
  BY <1>1 DEF InsertSession, IInv, TypeOK
<1>4. row.status \in Statuses
  BY DEF SessionRow
<1>5. sessions' \in [Live' -> SessionRow] /\ wanted' \in [Live' -> Statuses]
  BY <1>2, <1>4 DEF InsertSession, IInv, TypeOK
<1>6. StatusKept'
  BY <1>2 DEF InsertSession, IInv, StatusKept
<1> QED BY <1>1, <1>2, <1>3, <1>5, <1>6

THEOREM InitInv == Init => IInv
<1> SUFFICES ASSUME Init PROVE IInv
  OBVIOUS
<1>1. Live = {} /\ sessions \in [Live -> SessionRow] /\ wanted \in [Live -> Statuses]
  BY DEF Init, Live
<1>2. IsFiniteSet(messages)
  BY FS_EmptySet DEF Init
<1>3. TypeOK
  <2>1. 0 \in 0..MaxNow /\ 0 \in 0..MaxCalls
    BY StoreAssumption
  <2>2. job \in [Procs -> Job \cup {Idle}]
    BY DEF Init
  <2>3. messages \subseteq MessageRow /\ used \subseteq Sessions
    BY DEF Init
  <2> QED BY <1>1, <2>1, <2>2, <2>3 DEF Init, TypeOK
<1> QED BY <1>1, <1>2, <1>3 DEF Init, IInv, NoOrphans, StatusKept

LEMMA JobInProgress ==
  ASSUME TypeOK, NEW p \in Procs, job[p].op # "idle"
  PROVE  /\ job[p] \in Job
         /\ job[p].session \in Sessions /\ job[p].row \in SessionRow /\ job[p].at \in 0..MaxNow
BY DEF TypeOK, Job, Idle

\* A job ends.
LEMMA JobEnds ==
  ASSUME TypeOK, NEW p \in Procs, job' = [job EXCEPT ![p] = Idle]
  PROVE  job' \in [Procs -> Job \cup {Idle}]
BY DEF TypeOK

\* The rows a fork gets: above every row there is, and as distinct as their originals.
LEMMA ForkedRows ==
  ASSUME IInv, NEW s \in Sessions, NEW fork \in Sessions, NEW at \in 0..MaxNow
  PROVE  /\ Copies(s, fork, at) \subseteq MessageRow /\ IsFiniteSet(Copies(s, fork, at))
         /\ \A c \in Copies(s, fork, at) : c.session = fork
         /\ \A c \in Copies(s, fork, at), m \in messages : m.row < c.row
         /\ \A c, d \in Copies(s, fork, at) : c.row = d.row => c = d
<1> DEFINE Copy(m) == [row |-> ForkedRow(m, Place(m)), session |-> fork, body |-> m.body, at |-> at]
           copies == Copies(s, fork, at)
<1>0. copies = {Copy(m) : m \in RowsOf(s)}
  BY DEF Copies
<1> HIDE DEF copies
<1>1. LastRow \in Nat /\ \A n \in messages : n.row <= LastRow
  BY LastRowIsLast DEF IInv, TypeOK
<1>2. \A m \in messages : m.row \in Nat /\ m.body \in Bodies
  BY DEF IInv, TypeOK, MessageRow
<1>3. \A m \in RowsOf(s) : Place(m) \in Nat
  BY PlaceIsNat DEF IInv
<1>4. \A m \in RowsOf(s) : m \in messages /\ m.session = s
  BY DEF RowsOf
<1>5. \A m \in RowsOf(s) : Copy(m) \in MessageRow /\ Copy(m).row = LastRow + 1 + Place(m)
  BY <1>1, <1>2, <1>3, <1>4 DEF MessageRow, ForkedRow
<1>6. copies \subseteq MessageRow /\ \A c \in copies : c.session = fork
  BY <1>0, <1>5
<1>7. IsFiniteSet(copies)
  <2>1. RowsOf(s) \in SUBSET messages
    BY DEF RowsOf
  <2>2. IsFiniteSet(RowsOf(s))
    BY <2>1, FS_Subset DEF IInv
  <2>3. [m \in RowsOf(s) |-> Copy(m)] \in Surjection(RowsOf(s), copies)
    BY <1>0 DEF Surjection
  <2> QED BY <2>2, <2>3, FS_Surjection
<1>8. \A c \in copies, m \in messages : m.row < c.row
  BY <1>0, <1>1, <1>2, <1>3, <1>5
<1>9. ASSUME NEW m \in RowsOf(s), NEW n \in RowsOf(s), Copy(m).row = Copy(n).row
      PROVE  m = n
  <2>1. Place(m) = Place(n)
    <3>1. ForkedRow(m, Place(m)) = ForkedRow(n, Place(n))
      BY <1>9
    <3>2. Place(m) \in Nat /\ Place(n) \in Nat
      BY <1>3
    <3> HIDE DEF Copy
    <3> QED BY <1>1, <3>1, <3>2 DEF ForkedRow
  <2>2. m \in messages /\ n \in messages /\ m.session = n.session
    BY <1>4
  <2>3. \A x, y \in messages : x.session = y.session /\ Place(x) = Place(y) => x = y
    BY PlaceIsInjective DEF IInv, TypeOK
  <2> QED BY <2>1, <2>2, <2>3
<1>10. \A c, d \in copies : c.row = d.row => c = d
  BY <1>0, <1>9
<1> QED BY <1>6, <1>7, <1>8, <1>10 DEF copies

LEMMA NextInv == IInv /\ [Next]_sqlVars => IInv'
<1> SUFFICES ASSUME IInv, [Next]_sqlVars PROVE IInv'
  OBVIOUS
<1> USE DEF IInv
<1>1. ASSUME NEW p \in Procs, NEW s \in Sessions, NEW mode \in Modes, CreateSession(p, s, mode)
      PROVE  IInv'
  <2> DEFINE row == [status |-> "idle", mode |-> mode, removed |-> 0, parent |-> NoSession]
  <2>1. row \in SessionRow /\ InsertSession(s, row)
    BY <1>1, StoreAssumption DEF SessionRow, CreateSession
  <2> HIDE DEF row
  <2>2. calls' \in 0..MaxCalls
    BY <1>1, StoreAssumption DEF CreateSession, Begin, TypeOK
  <2> QED BY <1>1, <2>1, <2>2, InsertSessionStep DEF CreateSession, TypeOK, NoOrphans
<1>2. ASSUME NEW p \in Procs, NEW s \in Sessions, NEW status \in Statuses, UpdateStatus(p, s, status)
      PROVE  IInv'
  <2>1. calls' \in 0..MaxCalls
    BY <1>2, StoreAssumption DEF UpdateStatus, Begin, TypeOK
  <2>2. Live' = Live /\ sessions' \in [Live -> SessionRow] /\ wanted' \in [Live -> Statuses]
    BY <1>2 DEF UpdateStatus, TypeOK, SessionRow, Live
  <2>3. StatusKept'
    BY <1>2, <2>2 DEF UpdateStatus, TypeOK, StatusKept, SessionRow
  <2> QED BY <1>2, <2>1, <2>2, <2>3 DEF UpdateStatus, TypeOK, NoOrphans
<1>3. ASSUME NEW p \in Procs, NEW s \in Sessions, NEW keep \in Keeps, CompactSession(p, s, keep)
      PROVE  IInv'
  <2> DEFINE count == RemovedOf(Cardinality(RowsOf(s)), keep)
  <2>1. calls' \in 0..MaxCalls
    BY <1>3, StoreAssumption DEF CompactSession, Begin, TypeOK
  <2>2. count \in Nat
    <3>1. RowsOf(s) \in SUBSET messages
      BY DEF RowsOf
    <3>2. Cardinality(RowsOf(s)) \in Nat
      BY <3>1, FS_Subset, FS_CardinalityType
    <3>3. keep \in Nat
      BY StoreAssumption
    <3> QED BY <3>2, <3>3 DEF RemovedOf
  <2>3. sessions' = [sessions EXCEPT ![s].removed = count] /\ messages' \subseteq messages
    BY <1>3 DEF CompactSession
  <2> HIDE DEF count
  <2>4. Live' = Live /\ sessions' \in [Live -> SessionRow]
    BY <2>2, <2>3 DEF TypeOK, SessionRow, Live
  <2>5. StatusKept'
    BY <1>3, <2>3, <2>4 DEF CompactSession, historyVars, TypeOK, StatusKept, SessionRow
  <2> QED BY <1>3, <2>1, <2>3, <2>4, <2>5, FewerMessages
            DEF CompactSession, historyVars, TypeOK, NoOrphans
<1>4. ASSUME NEW p \in Procs, NEW s \in Sessions, NEW op \in Calls, GetSession(p, op, s)
      PROVE  IInv'
  <2>1. calls' \in 0..MaxCalls
    BY <1>4, StoreAssumption DEF GetSession, Begin, TypeOK
  <2>2. [op |-> op, session |-> s, row |-> sessions[s], at |-> now] \in Job
    BY <1>4 DEF GetSession, Job, TypeOK
  <2>3. job' \in [Procs -> Job \cup {Idle}]
    BY <1>4, <2>2 DEF GetSession, TypeOK
  <2>4. UNCHANGED <<sessions, messages, used, now, wanted, stale>>
    BY <1>4 DEF GetSession, tableVars, historyVars
  <2> QED BY <2>1, <2>3, <2>4 DEF TypeOK, NoOrphans, StatusKept, Live
<1>5. ASSUME NEW p \in Procs, NEW mode \in Modes, UpdateSession(p, mode) PROVE IInv'
  <2>1. job[p].row \in SessionRow
    BY <1>5, JobInProgress DEF UpdateSession, Doing
  <2> DEFINE next == [job[p].row EXCEPT !.mode = mode]
  <2>2. next \in SessionRow
    BY <2>1 DEF SessionRow
  <2> HIDE DEF next
  <2>3. \A s \in Live : /\ Columns(next, sessions[s]) \in SessionRow
                        /\ Columns(next, sessions[s]).status = sessions[s].status
    BY <2>2 DEF Columns, SessionRow, TypeOK
  <2>4. sessions' = [s \in Live |-> IF s = job[p].session THEN Columns(next, sessions[s])
                                                          ELSE sessions[s]]
    BY <1>5 DEF UpdateSession, next
  <2>5. Live' = Live /\ sessions' \in [Live -> SessionRow] /\ StatusKept'
    <3>1. Live' = Live
      BY <2>4 DEF Live
    <3>2. sessions' \in [Live -> SessionRow]
      BY <2>3, <2>4 DEF TypeOK
    <3>3. wanted' = wanted
      BY <1>5 DEF UpdateSession
    <3>4. StatusKept'
      BY <2>3, <2>4, <3>1, <3>3 DEF StatusKept
    <3> QED BY <3>1, <3>2, <3>4
  <2>6. job' \in [Procs -> Job \cup {Idle}] /\ stale' \in BOOLEAN
    BY <1>5, JobEnds DEF UpdateSession, Return, TypeOK
  <2> QED BY <1>5, <2>5, <2>6 DEF UpdateSession, TypeOK, NoOrphans
<1>6. ASSUME NEW p \in Procs, NEW fork \in Sessions, NEW mode \in Modes, ForkSession(p, fork, mode)
      PROVE  IInv'
  <2>1. job[p].session \in Sessions /\ job[p].row \in SessionRow /\ job[p].at \in 0..MaxNow
    BY <1>6, JobInProgress DEF ForkSession, Doing
  <2> DEFINE source == job[p].session
             row == [job[p].row EXCEPT !.status = "idle", !.mode = mode, !.parent = source]
             copies == Copies(source, fork, job[p].at)
  <2>2. row \in SessionRow
    BY <2>1, StoreAssumption DEF SessionRow
  <2>3. InsertSession(fork, row) /\ messages' = messages \cup copies
    BY <1>6 DEF ForkSession
  <2>4. /\ copies \subseteq MessageRow /\ IsFiniteSet(copies)
        /\ \A c \in copies : c.session = fork
        /\ \A c \in copies, m \in messages : m.row < c.row
        /\ \A c, d \in copies : c.row = d.row => c = d
    BY <2>1, ForkedRows
  <2> HIDE DEF row, copies
  <2>5. /\ Live' = Live \cup {fork} /\ used' \subseteq Sessions /\ Live' \subseteq used'
        /\ sessions' \in [Live' -> SessionRow] /\ wanted' \in [Live' -> Statuses] /\ StatusKept'
    BY <2>2, <2>3, InsertSessionStep
  <2>6. IsFiniteSet(messages') /\ messages' \subseteq MessageRow
    BY <2>3, <2>4, FS_Union DEF TypeOK
  <2>7. \A m, n \in messages' : m.row = n.row => m = n
    <3>1. \A m \in messages \cup copies : m.row \in Nat
      BY <2>4 DEF TypeOK, MessageRow
    <3> QED BY <2>3, <2>4, <3>1 DEF TypeOK
  <2>8. NoOrphans'
    BY <2>3, <2>4, <2>5 DEF NoOrphans
  <2>9. job' \in [Procs -> Job \cup {Idle}] /\ stale' \in BOOLEAN
    BY <1>6, JobEnds DEF ForkSession, Return, TypeOK
  <2> QED BY <1>6, <2>5, <2>6, <2>7, <2>8, <2>9 DEF ForkSession, TypeOK
<1>7. ASSUME NEW p \in Procs, NEW body \in Bodies, AddMessage(p, body) PROVE IInv'
  <2>1. job[p].session \in Sessions /\ job[p].at \in 0..MaxNow
    BY <1>7, JobInProgress DEF AddMessage, Doing
  <2>2. LastRow \in Nat /\ \A n \in messages : n.row <= LastRow
    BY LastRowIsLast DEF TypeOK
  <2> DEFINE new == [row |-> LastRow + 1, session |-> job[p].session, body |-> body, at |-> job[p].at]
  <2>3. new \in MessageRow /\ new.row = LastRow + 1 /\ new.session \in Live
    BY <1>7, <2>1, <2>2 DEF MessageRow, AddMessage, ForeignKey
  <2>4. messages' = messages \cup {new}
    BY <1>7 DEF AddMessage
  <2> HIDE DEF new
  <2>5. \A m, n \in messages' : m.row = n.row => m = n
    <3>1. \A m \in messages : m.row \in Nat /\ m.row # new.row
      BY <2>2, <2>3 DEF TypeOK, MessageRow
    <3> QED BY <2>4, <3>1 DEF TypeOK
  <2>6. IsFiniteSet(messages')
    BY <2>4, FS_AddElement
  <2>7. job' \in [Procs -> Job \cup {Idle}] /\ stale' \in BOOLEAN
    BY <1>7, JobEnds DEF AddMessage, TypeOK
  <2>8. UNCHANGED <<sessions, used, now, calls, wanted>>
    BY <1>7 DEF AddMessage
  <2> QED BY <2>3, <2>4, <2>5, <2>6, <2>7, <2>8 DEF TypeOK, NoOrphans, StatusKept, Live
<1>8. ASSUME NEW p \in Procs, ClearMessages(p) \/ DeleteMessages(p) PROVE IInv'
  <2>1. job' \in [Procs -> Job \cup {Idle}]
    <3>1. CASE ClearMessages(p)
      BY <3>1, JobEnds DEF ClearMessages
    <3>2. CASE DeleteMessages(p)
      <4>1. job[p] \in Job
        BY <3>2, JobInProgress DEF DeleteMessages, Doing
      <4> QED BY <3>2, <4>1 DEF DeleteMessages, TypeOK, Job
    <3> QED BY <1>8, <3>1, <3>2
  <2>2. messages' \subseteq messages /\ UNCHANGED <<sessions, used, now, calls, wanted, stale>>
    BY <1>8 DEF ClearMessages, DeleteMessages, historyVars
  <2> QED BY <2>1, <2>2, FewerMessages DEF TypeOK, NoOrphans, StatusKept, Live
<1>9. ASSUME NEW p \in Procs, DeleteRow(p) PROVE IInv'
  <2> DEFINE rest == Live \ {job[p].session}
  <2>1. /\ sessions' = [s \in rest |-> sessions[s]] /\ wanted' = [s \in rest |-> wanted[s]]
        /\ messages' = {m \in messages : m.session # job[p].session}
    BY <1>9 DEF DeleteRow
  <2>2. Live' = rest
    BY <2>1 DEF Live
  <2>3. sessions' \in [Live' -> SessionRow] /\ wanted' \in [Live' -> Statuses] /\ StatusKept'
    BY <2>1, <2>2 DEF TypeOK, StatusKept
  <2>4. NoOrphans'
    BY <2>1, <2>2 DEF NoOrphans
  <2>5. job' \in [Procs -> Job \cup {Idle}]
    BY <1>9, JobEnds DEF DeleteRow
  <2> QED BY <1>9, <2>1, <2>2, <2>3, <2>4, <2>5, FewerMessages DEF DeleteRow, TypeOK
<1>10. ASSUME NEW p \in Procs, Fail(p) PROVE IInv'
  <2>1. UNCHANGED <<sessions, messages, used, now, calls, wanted, stale>>
    BY <1>10 DEF Fail, tableVars, historyVars
  <2>2. job' \in [Procs -> Job \cup {Idle}]
    BY <1>10, JobEnds DEF Fail
  <2> QED BY <2>1, <2>2 DEF TypeOK, NoOrphans, StatusKept, Live
<1>11. CASE Tick
  <2>1. UNCHANGED <<sessions, messages, used, job, calls, wanted, stale>>
    BY <1>11 DEF Tick, tableVars, historyVars
  <2>2. now' \in 0..MaxNow
    BY <1>11, StoreAssumption DEF Tick, TypeOK
  <2> QED BY <2>1, <2>2 DEF TypeOK, NoOrphans, StatusKept, Live
<1>12. CASE UNCHANGED sqlVars
  BY <1>12 DEF sqlVars, tableVars, historyVars, TypeOK, NoOrphans, StatusKept, Live
<1> QED
  BY <1>1, <1>2, <1>3, <1>4, <1>5, <1>6, <1>7, <1>8, <1>9, <1>10, <1>11, <1>12 DEF Next, Step

THEOREM InvHolds == Spec => []IInv
BY InitInv, NextInv, PTL DEF Spec

\* The rows are typed, and no two messages share a rowid.
THEOREM TypeCorrect == Spec => []TypeOK
<1>1. IInv => TypeOK
  BY DEF IInv
<1> QED BY InvHolds, <1>1, PTL

\* Whatever processes insert and delete, a message's session is there.
THEOREM NoOrphansHolds == Spec => []NoOrphans
<1>1. IInv => NoOrphans
  BY DEF IInv
<1> QED BY InvHolds, <1>1, PTL

\* A call that writes back an outdated row leaves the status alone.
THEOREM StatusKeptHolds == Spec => []StatusKept
<1>1. IInv => StatusKept
  BY DEF IInv
<1> QED BY InvHolds, <1>1, PTL
-----------------------------------------------------------------------------
(* One process. *)

\* What a call read is still there, and the clock has not gone back.
Current ==
  /\ ~stale
  /\ \A m \in messages : m.at <= now
  /\ \A p \in Procs : job[p] # Idle =>
       /\ job[p].session \in Live /\ sessions[job[p].session] = job[p].row
       /\ job[p].at <= now /\ \A m \in messages : m.at <= job[p].at

LEMMA CurrentNext ==
  ASSUME NEW p \in Procs, Procs = {p}, IInv, Current, [Next]_sqlVars
  PROVE  Current'
<1>1. Live' = DOMAIN sessions'
  BY DEF Live
<1>2. now \in Nat /\ \A m \in messages : m.at \in Nat
  BY StoreAssumption DEF IInv, TypeOK, MessageRow
<1>3. job \in [Procs -> Job \cup {Idle}] /\ sessions \in [Live -> SessionRow]
  BY DEF IInv, TypeOK
<1>4. ASSUME NEW s \in Sessions, NEW mode \in Modes, CreateSession(p, s, mode) PROVE Current'
  BY <1>4, <1>3 DEF CreateSession, Begin, InsertSession, Current
<1>5. ASSUME NEW s \in Sessions, NEW status \in Statuses, UpdateStatus(p, s, status) PROVE Current'
  BY <1>5, <1>3 DEF UpdateStatus, Begin, Current
<1>6. ASSUME NEW s \in Sessions, NEW keep \in Keeps, CompactSession(p, s, keep) PROVE Current'
  <2>1. messages' \subseteq messages /\ job' = job /\ now' = now /\ stale' = stale /\ job[p] = Idle
    BY <1>6 DEF CompactSession, Begin, historyVars
  <2> QED BY <2>1 DEF Current
<1>7. ASSUME NEW s \in Sessions, NEW op \in Calls, GetSession(p, op, s) PROVE Current'
  <2>1. job'[p] = [op |-> op, session |-> s, row |-> sessions[s], at |-> now] /\ s \in Live
    BY <1>7, <1>3 DEF GetSession
  <2>2. UNCHANGED <<sessions, messages, now, stale>> /\ Live' = Live
    BY <1>7 DEF GetSession, tableVars, historyVars, Live
  <2> QED BY <2>1, <2>2, <1>2 DEF Current
<1>8. ASSUME NEW mode \in Modes, UpdateSession(p, mode) PROVE Current'
  <2>1. job[p] # Idle
    BY <1>8 DEF UpdateSession, Doing, Idle
  <2>2. ~stale' /\ job'[p] = Idle /\ UNCHANGED <<messages, now>>
    BY <1>8, <2>1, <1>3 DEF UpdateSession, Return, Current
  <2> QED BY <2>2 DEF Current
<1>9. ASSUME NEW fork \in Sessions, NEW mode \in Modes, ForkSession(p, fork, mode) PROVE Current'
  <2>1. job[p] # Idle
    BY <1>9 DEF ForkSession, Doing, Idle
  <2>2. ~stale' /\ job'[p] = Idle /\ now' = now
    BY <1>9, <2>1, <1>3 DEF ForkSession, Return, Current
  <2>3. messages' = messages \cup Copies(job[p].session, fork, job[p].at)
    BY <1>9 DEF ForkSession
  <2>4. \A c \in Copies(job[p].session, fork, job[p].at) : c.at = job[p].at
    BY DEF Copies
  <2>5. job[p].at <= now
    BY <2>1 DEF Current
  <2> QED BY <2>2, <2>3, <2>4, <2>5 DEF Current
<1>10. ASSUME NEW body \in Bodies, AddMessage(p, body) PROVE Current'
  <2>1. job[p] # Idle
    BY <1>10 DEF AddMessage, Doing, Idle
  <2>2. job[p].at <= now /\ \A m \in messages : m.at <= job[p].at
    BY <2>1 DEF Current
  <2>3. job[p].at \in Nat
    BY <1>10, JobInProgress, StoreAssumption DEF AddMessage, Doing, IInv
  <2>4. ~stale'
    <3>1. ~\E m \in RowsOf(job[p].session) : job[p].at < m.at
      BY <1>2, <2>2, <2>3 DEF RowsOf
    <3>2. stale' = (stale \/ \E m \in RowsOf(job[p].session) : job[p].at < m.at)
      BY <1>10 DEF AddMessage
    <3> QED BY <3>1, <3>2, Zenon DEF Current
  <2>5. job'[p] = Idle /\ now' = now /\ \A m \in messages' : m \in messages \/ m.at = job[p].at
    BY <1>10, <1>3 DEF AddMessage
  <2> QED BY <2>2, <2>4, <2>5 DEF Current
<1>11. CASE ClearMessages(p) \/ DeleteRow(p) \/ Fail(p)
  <2>1. messages' \subseteq messages /\ job'[p] = Idle /\ now' = now /\ stale' = stale
    BY <1>11, <1>3 DEF ClearMessages, DeleteRow, Fail, tableVars, historyVars
  <2> QED BY <2>1 DEF Current
<1>12. CASE DeleteMessages(p)
  <2>1. /\ messages' \subseteq messages /\ UNCHANGED <<sessions, now, stale>> /\ Live' = Live
        /\ job' = [job EXCEPT ![p].op = "deleteRow"]
    BY <1>12 DEF DeleteMessages, historyVars, Live
  <2>2. job[p] # Idle /\ job[p] \in Job
    BY <1>12, JobInProgress DEF DeleteMessages, Doing, IInv, Idle
  <2>3. job'[p].session = job[p].session /\ job'[p].row = job[p].row /\ job'[p].at = job[p].at
    BY <2>1, <2>2, <1>3 DEF Job
  <2> QED BY <2>1, <2>2, <2>3 DEF Current
<1>13. CASE Tick
  <2>1. UNCHANGED <<sessions, messages, job, stale>> /\ Live' = Live /\ now' = now + 1
    BY <1>13 DEF Tick, tableVars, historyVars, Live
  <2>2. \A q \in Procs : job[q] # Idle => job[q].at \in Nat
    BY <1>3, StoreAssumption DEF Job
  <2> QED BY <1>2, <2>1, <2>2 DEF Current
<1>14. CASE UNCHANGED sqlVars
  BY <1>14 DEF sqlVars, tableVars, historyVars, Current, Live
<1> QED
  BY <1>4, <1>5, <1>6, <1>7, <1>8, <1>9, <1>10, <1>11, <1>12, <1>13, <1>14 DEF Next, Step

\* A process that is alone with its database never uses an outdated row or time.
THEOREM AloneNeverStale ==
  ASSUME NEW p, Procs = {p}
  PROVE  Spec => []~stale
<1>1. Init => Current
  BY DEF Init, Current
<1>2. IInv /\ Current /\ [Next]_sqlVars => Current'
  BY CurrentNext
<1>3. Current => ~stale
  BY DEF Current
<1> QED BY <1>1, <1>2, <1>3, InvHolds, PTL DEF Spec

-----------------------------------------------------------------------------
(* Listings. *)

RowsIn(M, s) == {m \in M : m.session = s}
PlaceIn(M, m) == Cardinality({n \in RowsIn(M, m.session) : Before(n, m)})
ListingOf(M, s) ==
  [i \in 1..Cardinality(RowsIn(M, s)) |-> (CHOOSE m \in RowsIn(M, s) : PlaceIn(M, m) = i - 1).body]

\* Rows with rowids of their own.
Rows(R) ==
  IsFiniteSet(R) /\ R \subseteq MessageRow /\ \A m, n \in R : m.row = n.row => m = n

\* r lists R in the order of a listing.
Enumerates(R, n, r) ==
  /\ n \in Nat /\ r \in [1..n -> R]
  /\ \A x \in R : \E i \in 1..n : r[i] = x
  /\ \A i, j \in 1..n : i < j => Before(r[i], r[j])

LEMMA BeforeOrders ==
  ASSUME NEW R, Rows(R), NEW m \in R, NEW n \in R
  PROVE  /\ ~Before(m, m)
         /\ Before(m, n) => ~Before(n, m)
         /\ m # n => Before(m, n) \/ Before(n, m)
         /\ \A k \in R : Before(k, m) /\ Before(m, n) => Before(k, n)
<1>1. \A k \in R : k.row \in Nat /\ k.at \in Nat
  BY StoreAssumption DEF Rows, MessageRow
<1>2. m.row = n.row => m = n
  BY DEF Rows
<1> QED
  BY <1>1, <1>2 DEF Before

\* The rows of a session, with their places, enumerate it.
LEMMA RowsEnumerated ==
  ASSUME NEW R, Rows(R)
  PROVE  \E r : Enumerates(R, Cardinality(R), r)
<1> DEFINE n == Cardinality(R)
           upTo(x) == {y \in R : y = x \/ Before(y, x)}
           place == [x \in R |-> Cardinality(upTo(x))]
<1>1. n \in Nat /\ IsFiniteSet(R)
  BY FS_CardinalityType DEF Rows
<1>2. ASSUME NEW x \in R  PROVE IsFiniteSet(upTo(x)) /\ place[x] \in 1..n
  <2>1. upTo(x) \in SUBSET R /\ x \in upTo(x)
    OBVIOUS
  <2>2. IsFiniteSet(upTo(x)) /\ Cardinality(upTo(x)) <= n /\ Cardinality(upTo(x)) \in Nat
    BY <1>1, <2>1, FS_Subset, FS_CardinalityType
  <2>3. Cardinality(upTo(x)) # 0
    BY <2>1, <2>2, FS_EmptySet
  <2> QED
    BY <1>1, <2>2, <2>3
<1>3. ASSUME NEW x \in R, NEW y \in R, Before(x, y)  PROVE place[x] < place[y]
  <2>1. upTo(x) \in SUBSET upTo(y) /\ y \in upTo(y) /\ y \notin upTo(x)
    <3>1. ~Before(y, x) /\ y # x
      BY <1>3, BeforeOrders
    <3>2. ASSUME NEW z \in R, z = x \/ Before(z, x)  PROVE Before(z, y)
      BY <1>3, <3>2, BeforeOrders
    <3> QED
      BY <3>1, <3>2
  <2>2. IsFiniteSet(upTo(y)) /\ Cardinality(upTo(x)) \in Nat /\ Cardinality(upTo(y)) \in Nat
    BY <1>2, FS_CardinalityType
  <2>3. Cardinality(upTo(x)) <= Cardinality(upTo(y)) /\ Cardinality(upTo(y)) # Cardinality(upTo(x))
    BY <2>1, <2>2, FS_Subset
  <2> QED
    BY <2>2, <2>3
<1> HIDE DEF place
<1>4. place \in Surjection(R, 1..n)
  <2>1. place \in [R -> 1..n]
    BY <1>2 DEF place
  <2>2. ASSUME NEW x \in R, NEW y \in R, place[x] = place[y]  PROVE x = y
    <3>1. place[x] \in Nat /\ place[y] \in Nat
      BY <1>1, <2>1
    <3>2. ~Before(x, y) /\ ~Before(y, x)
      BY <1>3, <2>2, <3>1
    <3> QED
      BY <3>2, BeforeOrders
  <2> HIDE DEF n
  <2>3. place \in Injection(R, 1..n)
    BY <2>1, <2>2 DEF Injection, IsInjective
  <2>4. IsFiniteSet(1..n) /\ Cardinality(1..n) = n
    BY <1>1, FS_Interval
  <2> QED
    BY <2>3, <2>4, FS_Injection DEF n
<1> DEFINE r == [i \in 1..n |-> CHOOSE x \in R : place[x] = i]
<1>5. ASSUME NEW i \in 1..n  PROVE r[i] \in R /\ place[r[i]] = i
  <2>1. \E x \in R : place[x] = i
    BY <1>4 DEF Surjection
  <2> QED
    BY <2>1
<1>6. r \in [1..n -> R]
  BY <1>5
<1>7. ASSUME NEW i \in 1..n, NEW j \in 1..n, i < j  PROVE Before(r[i], r[j])
  <2> HIDE DEF r
  <2>1. CASE r[i] = r[j]
    BY <1>1, <1>5, <1>7, <2>1
  <2>2. CASE Before(r[j], r[i])
    <3>1. place[r[j]] < place[r[i]]
      BY <1>3, <1>5, <2>2
    <3> QED
      BY <1>1, <1>5, <1>7, <3>1
  <2> QED
    BY <1>5, <2>1, <2>2, BeforeOrders
<1>8. ASSUME NEW x \in R  PROVE \E i \in 1..n : r[i] = x
  <2> HIDE DEF r
  <2>1. place[x] \in 1..n
    BY <1>4 DEF Surjection
  <2>2. r[place[x]] \in R /\ place[r[place[x]]] = place[x]
    BY <1>5, <2>1
  <2>3. place[x] \in Nat
    BY <1>1, <2>1
  <2>4. ~Before(x, r[place[x]]) /\ ~Before(r[place[x]], x)
    BY <1>3, <2>2, <2>3
  <2> QED
    BY <2>1, <2>2, <2>4, BeforeOrders
<1> HIDE DEF r
<1> QED
  BY <1>1, <1>6, <1>7, <1>8 DEF Enumerates

\* An enumeration is the listing: as long as there are rows, each at its place.
LEMMA ListingIs ==
  ASSUME NEW M, NEW s, NEW n, NEW r, Rows(RowsIn(M, s)), Enumerates(RowsIn(M, s), n, r)
  PROVE  /\ n \in Nat /\ Cardinality(RowsIn(M, s)) = n
         /\ \A i \in 1..n : PlaceIn(M, r[i]) = i - 1
         /\ ListingOf(M, s) \in Seq(Bodies) /\ Len(ListingOf(M, s)) = n
         /\ \A i \in 1..n : ListingOf(M, s)[i] = r[i].body
<1> DEFINE R == RowsIn(M, s)
           list == ListingOf(M, s)
<1>1. /\ n \in Nat /\ r \in [1..n -> R] /\ \A x \in R : \E i \in 1..n : r[i] = x
      /\ \A i, j \in 1..n : i < j => Before(r[i], r[j])
  BY DEF Enumerates
<1>2. Rows(R)
  OBVIOUS
<1>3. \A x \in R : x.session = s /\ x.body \in Bodies
  BY DEF RowsIn, Rows, MessageRow
<1> HIDE DEF R
<1>4. \A i, j \in 1..n : (r[i] = r[j] => i = j) /\ (Before(r[i], r[j]) => i < j)
  <2> SUFFICES ASSUME NEW i \in 1..n, NEW j \in 1..n
               PROVE  (r[i] = r[j] => i = j) /\ (Before(r[i], r[j]) => i < j)
    OBVIOUS
  <2>1. r[i] \in R /\ r[j] \in R
    BY <1>1
  <2>2. ~Before(r[i], r[i]) /\ (Before(r[i], r[j]) => ~Before(r[j], r[i])) /\ ~Before(r[j], r[j])
    BY <1>2, <2>1, BeforeOrders
  <2>3. i < j \/ i = j \/ j < i
    BY <1>1
  <2> QED
    BY <1>1, <2>2, <2>3
<1>5. Cardinality(R) = n
  <2>1. r \in Bijection(1..n, R)
    BY <1>1, <1>4 DEF Bijection, Injection, Surjection, IsInjective
  <2>2. IsFiniteSet(1..n) /\ Cardinality(1..n) = n
    BY <1>1, FS_Interval
  <2> QED
    BY <2>1, <2>2, FS_Bijection DEF ExistsBijection
<1>6. ASSUME NEW i \in 1..n  PROVE PlaceIn(M, r[i]) = i - 1
  <2> DEFINE P == {x \in R : Before(x, r[i])}
             a == [j \in 1..(i - 1) |-> r[j]]
  <2>1. PlaceIn(M, r[i]) = Cardinality(P)
    <3>1. r[i].session = s
      BY <1>1, <1>3
    <3> QED
      BY <3>1 DEF PlaceIn, R
  <2>2. i - 1 \in Nat /\ \A j \in 1..(i - 1) : j \in 1..n /\ j < i
    BY <1>1
  <2>3. \A j \in 1..n : j < i => j \in 1..(i - 1)
    BY <1>1
  <2>4. a \in [1..(i - 1) -> P]
    BY <1>1, <2>2
  <2>5. \A x \in P : \E j \in 1..(i - 1) : a[j] = x
    BY <1>1, <1>4, <2>3
  <2>6. \A j, k \in 1..(i - 1) : a[j] = a[k] => j = k
    BY <1>4, <2>2
  <2> HIDE DEF a, P
  <2>7. a \in Bijection(1..(i - 1), P)
    BY <2>4, <2>5, <2>6 DEF Bijection, Injection, Surjection, IsInjective
  <2>8. IsFiniteSet(1..(i - 1)) /\ Cardinality(1..(i - 1)) = i - 1
    BY <2>2, FS_Interval
  <2> QED
    BY <2>1, <2>7, <2>8, FS_Bijection DEF ExistsBijection
<1>7. \A i \in 1..n : list[i] = r[i].body
  <2> SUFFICES ASSUME NEW i \in 1..n  PROVE list[i] = r[i].body
    OBVIOUS
  <2> DEFINE c == CHOOSE m \in R : PlaceIn(M, m) = i - 1
  <2>1. r[i] \in R /\ PlaceIn(M, r[i]) = i - 1
    BY <1>1, <1>6
  <2>2. c \in R /\ PlaceIn(M, c) = i - 1
    BY <2>1
  <2>3. list[i] = c.body
    BY <1>5 DEF ListingOf, R
  <2> HIDE DEF c
  <2>4. PICK j \in 1..n : r[j] = c
    BY <1>1, <2>2
  <2>5. j - 1 = i - 1
    BY <1>6, <2>2, <2>4
  <2>6. j = i
    BY <1>1, <2>5
  <2> QED
    BY <2>3, <2>4, <2>6
<1>8. list = [i \in 1..n |-> list[i]]
  BY <1>5 DEF ListingOf, R
<1> HIDE DEF list
<1>9. list \in [1..n -> Bodies]
  <2>1. \A i \in 1..n : list[i] \in Bodies
    BY <1>1, <1>3, <1>7
  <2> QED
    BY <1>8, <2>1
<1>10. list \in Seq(Bodies) /\ Len(list) = n
  BY <1>1, <1>9, SeqDef
<1> QED
  BY <1>1, <1>5, <1>6, <1>7, <1>10 DEF R, list

\* Which rows a session has decides its listing.
LEMMA SameRowsSameListing ==
  ASSUME NEW M, NEW N, NEW s, Rows(RowsIn(M, s)), RowsIn(N, s) = RowsIn(M, s)
  PROVE  ListingOf(N, s) = ListingOf(M, s)
<1>1. PICK r : Enumerates(RowsIn(M, s), Cardinality(RowsIn(M, s)), r)
  BY RowsEnumerated
<1> DEFINE n == Cardinality(RowsIn(M, s))
           a == ListingOf(M, s)
           b == ListingOf(N, s)
<1>2. a \in Seq(Bodies) /\ Len(a) = n /\ \A i \in 1..n : a[i] = r[i].body
  BY <1>1, ListingIs
<1>3. b \in Seq(Bodies) /\ Len(b) = n /\ \A i \in 1..n : b[i] = r[i].body
  BY <1>1, ListingIs
<1> HIDE DEF a, b, n
<1>4. a = b
  BY <1>2, <1>3, SeqEqual
<1> QED
  BY <1>4 DEF a, b

LEMMA NoRowsNoListing ==
  ASSUME NEW M, NEW s, RowsIn(M, s) = {}
  PROVE  ListingOf(M, s) = << >>
<1>1. Cardinality(RowsIn(M, s)) = 0
  BY FS_EmptySet
<1> QED
  BY <1>1 DEF ListingOf

LEMMA ListingsAre ==
  /\ \A s : Listing(s) = ListingOf(messages, s) /\ RowsOf(s) = RowsIn(messages, s)
  /\ \A s : Listing(s)' = ListingOf(messages', s)
  /\ \A m : Place(m) = PlaceIn(messages, m)
BY DEF Listing, ListingOf, RowsOf, RowsIn, Place, PlaceIn

-----------------------------------------------------------------------------
(* Statements as calls of the session store. *)

Lists == [s \in Live |-> Listing(s)]

LEMMA RowsAreRows == IInv => \A s : Rows(RowsIn(messages, s))
<1> SUFFICES ASSUME IInv, NEW s  PROVE Rows(RowsIn(messages, s))
  OBVIOUS
<1>1. RowsIn(messages, s) \in SUBSET messages
  BY DEF RowsIn
<1> QED
  BY <1>1, FS_Subset DEF Rows, IInv, TypeOK

LEMMA RowsAreRowsNext == (IInv => \A s : Rows(RowsIn(messages, s)))'
BY RowsAreRows, PTL

\* A session whose rows stay has the listing it had.
LEMMA ListingStays ==
  ASSUME IInv, NEW x, RowsIn(messages', x) = RowsIn(messages, x)
  PROVE  Listing(x)' = Listing(x)
BY RowsAreRows, SameRowsSameListing, ListingsAre

LEMMA ListingsStay ==
  ASSUME messages' = messages, Live' = Live
  PROVE  (\A x : Listing(x)' = Listing(x)) /\ Lists' = Lists
BY ListingsAre DEF Lists

LEMMA SqlInsertMaps ==
  ASSUME IInv, NEW s, NEW row, NEW list, InsertSession(s, row), Listing(s)' = list,
         \A x : x # s => RowsIn(messages', x) = RowsIn(messages, x)
  PROVE  Store!Insert(s, row, list)
<1>1. /\ s \notin used /\ used' = used \cup {s} /\ s \notin Live
      /\ sessions' = [x \in Live \cup {s} |-> IF x = s THEN row ELSE sessions[x]]
  BY DEF InsertSession, IInv, TypeOK
<1>2. Live' = Live \cup {s}
  BY <1>1 DEF Live
<1>3. \A x \in Live : Listing(x)' = Listing(x)
  BY <1>1, ListingStays
<1>4. Lists' = [x \in Live \cup {s} |-> IF x = s THEN list ELSE Lists[x]]
  BY <1>1, <1>2, <1>3 DEF Lists
<1> QED
  BY <1>1, <1>4 DEF Store!Insert, Store!Live, Live, Lists

LEMMA CreateMaps ==
  ASSUME IInv, NEW p \in Procs, NEW s \in Sessions, NEW mode \in Modes, CreateSession(p, s, mode)
  PROVE  Store!CreateSession(s, mode)
<1> DEFINE row == [status |-> "idle", mode |-> mode, removed |-> 0, parent |-> NoSession]
<1>1. InsertSession(s, row) /\ messages' = messages
  BY DEF CreateSession
<1>2. s \notin Live
  BY <1>1 DEF InsertSession, IInv, TypeOK
<1>3. RowsIn(messages', s) = {}
  BY <1>1, <1>2 DEF RowsIn, IInv, NoOrphans
<1>4. Listing(s)' = << >>
  BY <1>3, NoRowsNoListing, ListingsAre
<1> HIDE DEF row
<1>5. Store!Insert(s, row, << >>)
  BY <1>1, <1>4, SqlInsertMaps
<1> QED
  BY <1>5 DEF Store!CreateSession, row

LEMMA StatusMaps ==
  ASSUME IInv, NEW p \in Procs, NEW s \in Sessions, NEW status \in Statuses, UpdateStatus(p, s, status)
  PROVE  Store!UpdateStatus(s, status)
<1>1. /\ s \in Live /\ messages' = messages /\ used' = used
      /\ sessions' = [sessions EXCEPT ![s].status = status]
  BY DEF UpdateStatus
<1>2. Live' = Live
  BY <1>1 DEF Live
<1> QED
  BY <1>1, <1>2, ListingsStay DEF Store!UpdateStatus, Store!Live, Live, Lists

LEMMA UpdateMaps ==
  ASSUME IInv, NEW p \in Procs, NEW mode \in Modes, UpdateSession(p, mode), ~stale'
  PROVE  Store!UpdateSession(job[p].session, mode)
<1> DEFINE s == job[p].session
<1>1. /\ s \in Live /\ sessions[s] = job[p].row /\ messages' = messages /\ used' = used
      /\ sessions' = [x \in Live |-> IF x = s THEN Columns([job[p].row EXCEPT !.mode = mode], sessions[x])
                                              ELSE sessions[x]]
  BY DEF UpdateSession, Return
<1>2. Live' = Live
  BY <1>1 DEF Live
<1>3. sessions \in [Live -> SessionRow] /\ sessions[s] \in SessionRow
  BY <1>1 DEF IInv, TypeOK
<1>4. Columns([sessions[s] EXCEPT !.mode = mode], sessions[s]) = [sessions[s] EXCEPT !.mode = mode]
  <2> DEFINE row == sessions[s]
  <2>1. row = [status |-> row.status, mode |-> row.mode, removed |-> row.removed, parent |-> row.parent]
    BY <1>3 DEF SessionRow
  <2> HIDE DEF row
  <2>2. Columns([row EXCEPT !.mode = mode], row) = [row EXCEPT !.mode = mode]
    BY <2>1 DEF Columns
  <2> QED
    BY <2>2 DEF row
<1> HIDE DEF s
<1>5. sessions' = [sessions EXCEPT ![s].mode = mode]
  BY <1>1, <1>3, <1>4
<1> QED
  BY <1>1, <1>2, <1>5, ListingsStay DEF Store!UpdateSession, Store!Live, Live, Lists, s

\* A fork's copies come in the order of their originals.
LEMMA SqlForkMaps ==
  ASSUME IInv, IInv', NEW p \in Procs, NEW fork \in Sessions, NEW mode \in Modes,
         ForkSession(p, fork, mode), ~stale'
  PROVE  Store!ForkSession(job[p].session, fork, mode)
<1> DEFINE s == job[p].session
           at == job[p].at
           row == [job[p].row EXCEPT !.status = "idle", !.mode = mode, !.parent = s]
           Copy(m) == [row |-> ForkedRow(m, Place(m)), session |-> fork, body |-> m.body, at |-> at]
<1>1. /\ s \in Live /\ sessions[s] = job[p].row
      /\ InsertSession(fork, row) /\ messages' = messages \cup Copies(s, fork, at)
  BY DEF ForkSession, Return
<1>2. Copies(s, fork, at) = {Copy(m) : m \in RowsOf(s)}
  BY DEF Copies
<1>3. s \in Sessions /\ at \in 0..MaxNow /\ at \in Nat
  BY JobInProgress, StoreAssumption DEF ForkSession, Doing, IInv
<1> HIDE DEF s, at, row
<1>4. \A x : x # fork => RowsIn(messages', x) = RowsIn(messages, x)
  BY <1>1, <1>2 DEF RowsIn
<1>5. fork \notin Live /\ fork # s
  BY <1>1 DEF InsertSession, IInv, TypeOK
<1>6. RowsIn(messages, fork) = {}
  BY <1>5 DEF RowsIn, IInv, NoOrphans
<1>7. RowsIn(messages', fork) = {Copy(m) : m \in RowsIn(messages, s)}
  <2>1. RowsIn(messages', fork) = Copies(s, fork, at)
    BY <1>1, <1>2, <1>6 DEF RowsIn
  <2> QED
    BY <1>2, <2>1, ListingsAre
<1>8. PICK r : Enumerates(RowsIn(messages, s), Cardinality(RowsIn(messages, s)), r)
  BY RowsAreRows, RowsEnumerated
<1> DEFINE n == Cardinality(RowsIn(messages, s))
           c == [i \in 1..n |-> Copy(r[i])]
<1>9. /\ n \in Nat /\ \A i \in 1..n : PlaceIn(messages, r[i]) = i - 1
      /\ Listing(s) \in Seq(Bodies) /\ Len(Listing(s)) = n /\ \A i \in 1..n : Listing(s)[i] = r[i].body
  BY <1>8, RowsAreRows, ListingIs, ListingsAre
<1>10. /\ r \in [1..n -> RowsIn(messages, s)] /\ \A x \in RowsIn(messages, s) : \E i \in 1..n : r[i] = x
  BY <1>8 DEF Enumerates
<1> HIDE DEF n
<1>11. LastRow \in Nat
  BY LastRowIsLast DEF IInv, TypeOK
<1>12. ASSUME NEW i \in 1..n
       PROVE  /\ Copy(r[i]).row = LastRow + 1 + (i - 1) /\ Copy(r[i]).at = at
              /\ Copy(r[i]).body = r[i].body
  BY <1>9, ListingsAre DEF ForkedRow
<1>13. \A i, j \in 1..n : i < j => Before(Copy(r[i]), Copy(r[j]))
  <2> SUFFICES ASSUME NEW i \in 1..n, NEW j \in 1..n, i < j  PROVE Before(Copy(r[i]), Copy(r[j]))
    OBVIOUS
  <2>1. LastRow + 1 + (i - 1) < LastRow + 1 + (j - 1)
    BY <1>9, <1>11
  <2> HIDE DEF Copy
  <2> QED
    BY <1>12, <2>1 DEF Before
<1>14. Enumerates(RowsIn(messages', fork), n, c)
  <2>1. c \in [1..n -> RowsIn(messages', fork)]
    BY <1>7, <1>10
  <2>2. \A x \in RowsIn(messages', fork) : \E i \in 1..n : c[i] = x
    BY <1>7, <1>10
  <2>3. \A i, j \in 1..n : i < j => Before(c[i], c[j])
    BY <1>13
  <2> HIDE DEF c
  <2> QED
    BY <1>9, <2>1, <2>2, <2>3 DEF Enumerates
<1>15. \A i \in 1..n : c[i].body = r[i].body
  OBVIOUS
<1> HIDE DEF c
<1>16. /\ ListingOf(messages', fork) \in Seq(Bodies) /\ Len(ListingOf(messages', fork)) = n
       /\ \A i \in 1..n : ListingOf(messages', fork)[i] = c[i].body
  BY <1>14, RowsAreRowsNext, ListingIs
<1>17. Listing(fork)' = Listing(s)
  <2> DEFINE a == ListingOf(messages', fork)
             b == Listing(s)
  <2>1. a \in Seq(Bodies) /\ b \in Seq(Bodies) /\ Len(a) = Len(b) /\ \A i \in 1..Len(a) : a[i] = b[i]
    BY <1>9, <1>15, <1>16
  <2> HIDE DEF a, b
  <2>2. a = b
    BY <2>1, SeqEqual
  <2> QED
    BY <2>2, ListingsAre DEF a, b
<1>18. Store!Insert(fork, row, Lists[s])
  <2>1. Lists[s] = Listing(s)
    BY <1>1 DEF Lists
  <2> QED
    BY <1>1, <1>4, <1>17, <2>1, SqlInsertMaps
<1>19. row = [sessions[s] EXCEPT !.status = "idle", !.mode = mode, !.parent = s]
  BY <1>1 DEF row
<1> QED
  BY <1>1, <1>18, <1>19 DEF Store!ForkSession, Store!Live, Live, Lists, s

\* All of a session's messages are dropped, no other's.
LEMMA ClearedListings ==
  ASSUME IInv, NEW s, messages' = {m \in messages : m.session # s}
  PROVE  Listing(s)' = << >> /\ \A x : x # s => Listing(x)' = Listing(x)
<1>1. RowsIn(messages', s) = {} /\ \A x : x # s => RowsIn(messages', x) = RowsIn(messages, x)
  BY DEF RowsIn
<1> QED
  BY <1>1, NoRowsNoListing, ListingStays, ListingsAre

LEMMA ClearMaps ==
  ASSUME IInv, NEW p \in Procs, ClearMessages(p) \/ DeleteMessages(p)
  PROVE  Store!ClearMessages(job[p].session) \/ UNCHANGED Store!storeVars
<1> DEFINE s == job[p].session
<1>1. messages' = {m \in messages : m.session # s} /\ sessions' = sessions /\ used' = used
  BY DEF ClearMessages, DeleteMessages
<1>2. Live' = Live
  BY <1>1 DEF Live
<1> HIDE DEF s
<1>3. CASE s \in Live
  <2>1. Lists' = [Lists EXCEPT ![s] = << >>]
    BY <1>1, <1>2, <1>3, ClearedListings DEF Lists
  <2> QED
    BY <1>1, <1>3, <2>1 DEF Store!ClearMessages, Store!Live, Live, Lists, s
<1>4. CASE s \notin Live
  <2>1. messages' = messages
    BY <1>1, <1>4 DEF IInv, NoOrphans
  <2>2. Lists' = Lists
    BY <1>2, <2>1, ListingsStay
  <2> QED
    BY <1>1, <2>2 DEF Store!storeVars, Lists
<1> QED
  BY <1>3, <1>4

LEMMA DeleteMaps ==
  ASSUME IInv, NEW p \in Procs, DeleteRow(p)
  PROVE  Store!DeleteSession(job[p].session) \/ UNCHANGED Store!storeVars
<1> DEFINE s == job[p].session
<1>1. /\ messages' = {m \in messages : m.session # s} /\ used' = used
      /\ sessions' = [x \in Live \ {s} |-> sessions[x]]
  BY DEF DeleteRow
<1>2. Live' = Live \ {s}
  BY <1>1 DEF Live
<1> HIDE DEF s
<1>3. CASE s \in Live
  <2>1. Lists' = [x \in Live \ {s} |-> Lists[x]]
    BY <1>1, <1>2, ClearedListings DEF Lists
  <2> QED
    BY <1>1, <1>3, <2>1 DEF Store!DeleteSession, Store!Live, Live, Lists, s
<1>4. CASE s \notin Live
  <2>1. messages' = messages /\ Live' = Live
    BY <1>1, <1>2, <1>4 DEF IInv, NoOrphans
  <2>2. sessions' = sessions
    BY <1>1, <1>4 DEF IInv, TypeOK
  <2>3. Lists' = Lists
    BY <2>1, ListingsStay
  <2> QED
    BY <1>1, <2>2, <2>3 DEF Store!storeVars, Lists
<1> QED
  BY <1>3, <1>4

\* An insertion under a time that is not before any other comes last.
LEMMA SqlAddMaps ==
  ASSUME IInv, IInv', NEW p \in Procs, NEW body \in Bodies, AddMessage(p, body), ~stale',
         NEW s, s = job[p].session
  PROVE  Store!AddMessage(s, body)
<1> DEFINE new == [row |-> LastRow + 1, session |-> s, body |-> body, at |-> job[p].at]
<1>1. /\ s \in Live /\ messages' = messages \cup {new} /\ sessions' = sessions /\ used' = used
      /\ \A m \in RowsOf(s) : ~(job[p].at < m.at)
  <2>1. s \in Live /\ messages' = messages \cup {new} /\ sessions' = sessions /\ used' = used
    BY DEF AddMessage, ForeignKey
  <2>2. stale' = (stale \/ \E m \in RowsOf(s) : job[p].at < m.at)
    BY DEF AddMessage
  <2>3. ~\E m \in RowsOf(s) : job[p].at < m.at
    BY <2>2, Zenon
  <2> QED
    BY <2>1, <2>3
<1>2. Live' = Live
  BY <1>1 DEF Live
<1>3. LastRow \in Nat /\ \A m \in messages : m.row <= LastRow /\ m.row \in Nat /\ m.at \in Nat
  BY LastRowIsLast, StoreAssumption DEF IInv, TypeOK, MessageRow
<1>4. job[p].at \in Nat
  BY JobInProgress, StoreAssumption DEF AddMessage, Doing, IInv
<1>5. new.row = LastRow + 1 /\ new.session = s /\ new.body = body /\ new.at = job[p].at
  OBVIOUS
<1> HIDE DEF new
<1>6. \A m \in RowsIn(messages, s) : Before(m, new)
  BY <1>1, <1>3, <1>4, <1>5, ListingsAre DEF Before, RowsIn
<1>7. /\ RowsIn(messages', s) = RowsIn(messages, s) \cup {new}
      /\ \A x : x # s => RowsIn(messages', x) = RowsIn(messages, x)
  BY <1>1, <1>5 DEF RowsIn
<1>8. PICK r : Enumerates(RowsIn(messages, s), Cardinality(RowsIn(messages, s)), r)
  BY RowsAreRows, RowsEnumerated
<1> DEFINE R == RowsIn(messages, s)
           n == Cardinality(R)
           c == [i \in 1..(n + 1) |-> IF i <= n THEN r[i] ELSE new]
           a == ListingOf(messages', s)
           b == Append(Listing(s), body)
<1>9. /\ n \in Nat /\ Listing(s) \in Seq(Bodies) /\ Len(Listing(s)) = n
      /\ \A i \in 1..n : Listing(s)[i] = r[i].body
  BY <1>8, RowsAreRows, ListingIs, ListingsAre
<1>10. /\ r \in [1..n -> R] /\ \A x \in R : \E i \in 1..n : r[i] = x
       /\ \A i, j \in 1..n : i < j => Before(r[i], r[j])
  BY <1>8 DEF Enumerates
<1> HIDE DEF n, R
<1>11. /\ \A i \in 1..n : i \in 1..(n + 1) /\ c[i] = r[i]
       /\ n + 1 \in 1..(n + 1) /\ c[n + 1] = new
       /\ \A i \in 1..(n + 1) : i \in 1..n \/ i = n + 1
  BY <1>9
<1>12. c \in [1..(n + 1) -> R \cup {new}]
  BY <1>9, <1>10
<1> HIDE DEF c
<1>13. \A x \in R \cup {new} : \E i \in 1..(n + 1) : c[i] = x
  BY <1>10, <1>11
<1>14. \A i, j \in 1..(n + 1) : i < j => Before(c[i], c[j])
  <2> SUFFICES ASSUME NEW i \in 1..(n + 1), NEW j \in 1..(n + 1), i < j  PROVE Before(c[i], c[j])
    OBVIOUS
  <2>1. i \in 1..n
    BY <1>9
  <2>2. CASE j \in 1..n
    BY <1>10, <1>11, <2>1, <2>2
  <2>3. CASE j = n + 1
    <3>1. r[i] \in R
      BY <1>10, <2>1
    <3> QED
      BY <1>6, <1>11, <2>1, <2>3, <3>1 DEF R
  <2> QED
    BY <1>11, <2>2, <2>3
<1>15. Enumerates(RowsIn(messages', s), n + 1, c)
  BY <1>7, <1>9, <1>12, <1>13, <1>14 DEF Enumerates, R
<1>16. a \in Seq(Bodies) /\ Len(a) = n + 1 /\ \A i \in 1..(n + 1) : a[i] = c[i].body
  BY <1>15, RowsAreRowsNext, ListingIs
<1>17. /\ b \in Seq(Bodies) /\ Len(b) = n + 1 /\ b[n + 1] = body
       /\ \A i \in 1..n : b[i] = Listing(s)[i]
  BY <1>9, AppendProperties
<1> HIDE DEF a, b
<1>18. a = b
  <2>1. \A i \in 1..(n + 1) : a[i] = b[i]
    BY <1>5, <1>9, <1>11, <1>16, <1>17
  <2> QED
    BY <1>16, <1>17, <2>1, SeqEqual
<1>19. Listing(s)' = Append(Listing(s), body)
  BY <1>18, ListingsAre DEF a, b
<1>20. Lists' = [Lists EXCEPT ![s] = Append(Lists[s], body)]
  BY <1>1, <1>2, <1>7, <1>19, ListingStays DEF Lists
<1> QED
  BY <1>1, <1>20 DEF Store!AddMessage, Store!Live, Live, Lists

LEMMA CompactMaps ==
  ASSUME IInv, IInv', NEW p \in Procs, NEW s \in Sessions, NEW keep \in Keeps,
         CompactSession(p, s, keep), ~CutsShort
  PROVE  Store!CompactSession(s, keep)
<1> DEFINE R == RowsIn(messages, s)
           n == Cardinality(R)
           count == RemovedOf(n, keep)
           list == Listing(s)
           kept == Store!LastOf(list, keep)
           a == ListingOf(messages', s)
           f == IF keep < n THEN n - keep + 1 ELSE 1
<1>1. /\ s \in Live /\ used' = used
      /\ messages' = {m \in messages : m.session # s \/ Place(m) >= count}
      /\ sessions' = [sessions EXCEPT ![s].removed = count]
  BY ListingsAre DEF CompactSession
<1>2. Live' = Live
  BY <1>1 DEF Live
<1>3. PICK r : Enumerates(R, n, r)
  BY RowsAreRows, RowsEnumerated
<1>4. /\ n \in Nat /\ \A i \in 1..n : PlaceIn(messages, r[i]) = i - 1
      /\ list \in Seq(Bodies) /\ Len(list) = n /\ \A i \in 1..n : list[i] = r[i].body
  BY <1>3, RowsAreRows, ListingIs, ListingsAre
<1>5. /\ r \in [1..n -> R] /\ \A x \in R : \E i \in 1..n : r[i] = x
      /\ \A i, j \in 1..n : i < j => Before(r[i], r[j])
  BY <1>3 DEF Enumerates
<1>6. ~(n < keep /\ keep < 2 * n)
  BY ListingsAre DEF CutsShort
<1>7. keep \in Nat
  BY StoreAssumption
<1> HIDE DEF n
<1>8. count = (IF keep < n THEN n - keep ELSE 0) /\ count \in 0..n /\ count + 1 = f
  <2>1. CASE n < keep
    <3>1. 2 * n <= keep
      BY <1>4, <1>6, <1>7, <2>1
    <3>2. RemovedOf(n, keep) = 0
      BY <1>4, <1>7, <2>1, <3>1 DEF RemovedOf
    <3> QED
      BY <1>4, <1>7, <2>1, <3>2
  <2>2. CASE ~(n < keep)
    <3>1. RemovedOf(n, keep) = n - keep
      BY <1>4, <1>7, <2>2 DEF RemovedOf
    <3> QED
      BY <1>4, <1>7, <2>2, <3>1
  <2> QED
    BY <2>1, <2>2
<1> HIDE DEF count, R
<1> DEFINE k == n - count
           c == [i \in 1..k |-> r[count + i]]
<1>9. k \in Nat /\ \A i \in 1..k : count + i \in 1..n
  BY <1>4, <1>8
<1>10. \A m \in R : m \in RowsIn(messages', s) <=> Place(m) >= count
  BY <1>1 DEF RowsIn, R
<1>11. RowsIn(messages', s) \subseteq R /\ \A x : x # s => RowsIn(messages', x) = RowsIn(messages, x)
  BY <1>1 DEF RowsIn, R
<1>12. \A i \in 1..n : r[i] \in RowsIn(messages', s) <=> count < i
  <2> SUFFICES ASSUME NEW i \in 1..n  PROVE r[i] \in RowsIn(messages', s) <=> count < i
    OBVIOUS
  <2>1. r[i] \in R /\ Place(r[i]) = i - 1
    BY <1>4, <1>5, ListingsAre
  <2>2. i - 1 >= count <=> count < i
    BY <1>4, <1>8
  <2> QED
    BY <1>10, <2>1, <2>2
<1>13. \A i \in 1..k : count < count + i
  BY <1>4, <1>8, <1>9
<1>14. Enumerates(RowsIn(messages', s), k, c)
  <2>1. c \in [1..k -> RowsIn(messages', s)]
    BY <1>9, <1>12, <1>13
  <2>2. ASSUME NEW x \in RowsIn(messages', s)  PROVE \E i \in 1..k : c[i] = x
    <3>1. PICK j \in 1..n : r[j] = x
      BY <1>5, <1>11
    <3>2. count < j
      BY <1>12, <3>1
    <3>3. j - count \in 1..k /\ count + (j - count) = j
      BY <1>4, <1>8, <3>2
    <3>4. c[j - count] = r[j]
      BY <3>3
    <3> QED
      BY <3>1, <3>3, <3>4
  <2>3. ASSUME NEW i \in 1..k, NEW j \in 1..k, i < j  PROVE Before(c[i], c[j])
    <3>1. count + i \in 1..n /\ count + j \in 1..n /\ count + i < count + j
      BY <1>8, <1>9, <2>3
    <3> QED
      BY <1>5, <3>1
  <2> HIDE DEF c
  <2> QED
    BY <1>9, <2>1, <2>2, <2>3 DEF Enumerates
<1>15. \A i \in 1..k : c[i].body = list[count + i]
  BY <1>4, <1>9
<1> HIDE DEF c
<1>16. a \in Seq(Bodies) /\ Len(a) = k /\ \A i \in 1..k : a[i] = c[i].body
  BY <1>14, RowsAreRowsNext, ListingIs
<1>17. kept = SubSeq(list, f, n)
  BY <1>4 DEF Store!LastOf
<1> HIDE DEF list, kept, a, f
<1>18. /\ kept \in Seq(Bodies) /\ Len(kept) = k
       /\ \A i \in 1..k : kept[i] = list[count + i]
  <2> DEFINE q == SubSeq(list, count + 1, n)
  <2>1. \A i \in (count + 1)..n : list[i] \in Bodies
    <3>1. \A i \in 1..n : list[i] \in Bodies
      BY <1>4, ElementOfSeq
    <3>2. \A i \in (count + 1)..n : i \in 1..n
      BY <1>4, <1>8
    <3> QED
      BY <3>1, <3>2
  <2>2. count + 1 \in Int /\ n \in Int
    BY <1>4, <1>8
  <2>3. /\ q \in Seq(Bodies) /\ Len(q) = IF count + 1 <= n THEN n - (count + 1) + 1 ELSE 0
        /\ \A i \in 1..(n - (count + 1) + 1) : q[i] = list[(count + 1) + i - 1]
    BY <2>1, <2>2, SubSeqProperties
  <2> HIDE DEF q
  <2>4. Len(q) = k /\ n - (count + 1) + 1 = k
    BY <1>4, <1>8, <2>3
  <2>5. \A i \in 1..k : (count + 1) + i - 1 = count + i
    BY <1>4, <1>8, <1>9
  <2>6. kept = q
    BY <1>8, <1>17 DEF q
  <2> QED
    BY <2>3, <2>4, <2>5, <2>6
<1>19. a = kept
  BY <1>15, <1>16, <1>18, SeqEqual
<1>20. Listing(s)' = kept
  BY <1>19, ListingsAre DEF a
<1>21. Lists' = [Lists EXCEPT ![s] = kept] /\ Lists[s] = list
  BY <1>1, <1>2, <1>11, <1>20, ListingStays DEF Lists, list
<1>22. Len(list) - Len(kept) = count
  BY <1>4, <1>8, <1>18
<1>23. /\ s \in Live /\ used' = used
       /\ Lists' = [Lists EXCEPT ![s] = Store!LastOf(Lists[s], keep)]
       /\ sessions' = [sessions EXCEPT ![s].removed = Len(Lists[s]) - Len(Store!LastOf(Lists[s], keep))]
  BY <1>1, <1>21, <1>22 DEF kept, list
<1> QED
  BY <1>23 DEF Store!CompactSession, Store!Live, Live, Lists

\* Nothing a listing is made of changes.
LEMMA TablesStay ==
  ASSUME UNCHANGED tableVars
  PROVE  UNCHANGED Store!storeVars
<1>1. sessions' = sessions /\ messages' = messages /\ used' = used /\ Live' = Live
  BY DEF tableVars, Live
<1> QED
  BY <1>1, ListingsStay DEF Store!storeVars, Lists

LEMMA StoreStart == Init => Store!Init
<1> SUFFICES ASSUME Init  PROVE Store!Init
  OBVIOUS
<1>1. sessions = << >> /\ used = {} /\ Live = {}
  BY DEF Init, Live
<1>2. Lists = << >>
  BY <1>1 DEF Lists
<1> QED
  BY <1>1, <1>2 DEF Store!Init, Lists

LEMMA StoreStep ==
  IInv /\ IInv' /\ [Next]_sqlVars => [stale' \/ CutsShort \/ Store!Next(Keeps)]_(Store!storeVars)
<1> SUFFICES ASSUME IInv, IInv', [Next]_sqlVars, ~stale', ~CutsShort
             PROVE  Store!Next(Keeps) \/ UNCHANGED Store!storeVars
  OBVIOUS
<1>1. ASSUME NEW p \in Procs, NEW s \in Sessions, NEW mode \in Modes, CreateSession(p, s, mode)
      PROVE  Store!Next(Keeps)
  BY <1>1, CreateMaps DEF Store!Next
<1>2. ASSUME NEW p \in Procs, NEW fork \in Sessions, NEW mode \in Modes, ForkSession(p, fork, mode)
      PROVE  Store!Next(Keeps)
  <2>1. job[p].session \in Sessions
    BY <1>2, JobInProgress DEF ForkSession, Doing, IInv
  <2>2. Store!ForkSession(job[p].session, fork, mode)
    BY <1>2, SqlForkMaps
  <2> QED
    BY <2>1, <2>2 DEF Store!Next
<1>3. ASSUME NEW p \in Procs, NEW s \in Sessions, NEW status \in Statuses, UpdateStatus(p, s, status)
      PROVE  Store!Next(Keeps)
  BY <1>3, StatusMaps DEF Store!Next
<1>4. ASSUME NEW p \in Procs, NEW s \in Sessions, NEW keep \in Keeps, CompactSession(p, s, keep)
      PROVE  Store!Next(Keeps)
  BY <1>4, CompactMaps DEF Store!Next
<1>5. ASSUME NEW p \in Procs, NEW s \in Sessions, NEW op \in Calls, GetSession(p, op, s)
      PROVE  UNCHANGED Store!storeVars
  BY <1>5, TablesStay DEF GetSession
<1>6. ASSUME NEW p \in Procs, NEW mode \in Modes, UpdateSession(p, mode)
      PROVE  Store!Next(Keeps)
  <2>1. job[p].session \in Sessions
    BY <1>6, JobInProgress DEF UpdateSession, Doing, IInv
  <2>2. Store!UpdateSession(job[p].session, mode)
    BY <1>6, UpdateMaps
  <2> QED
    BY <2>1, <2>2 DEF Store!Next
<1>7. ASSUME NEW p \in Procs, NEW body \in Bodies, AddMessage(p, body)
      PROVE  Store!Next(Keeps)
  <2>1. PICK s \in Sessions : s = job[p].session
    BY <1>7, JobInProgress DEF AddMessage, Doing, IInv
  <2>2. Store!AddMessage(s, body)
    BY <1>7, <2>1, SqlAddMaps
  <2> QED
    BY <2>2 DEF Store!Next
<1>8. ASSUME NEW p \in Procs, ClearMessages(p) \/ DeleteMessages(p)
      PROVE  Store!Next(Keeps) \/ UNCHANGED Store!storeVars
  <2>1. job[p].session \in Sessions
    BY <1>8, JobInProgress DEF ClearMessages, DeleteMessages, Doing, IInv
  <2>2. Store!ClearMessages(job[p].session) \/ UNCHANGED Store!storeVars
    BY <1>8, ClearMaps
  <2> QED
    BY <2>1, <2>2 DEF Store!Next
<1>9. ASSUME NEW p \in Procs, DeleteRow(p)
      PROVE  Store!Next(Keeps) \/ UNCHANGED Store!storeVars
  <2>1. job[p].session \in Sessions
    BY <1>9, JobInProgress DEF DeleteRow, Doing, IInv
  <2>2. Store!DeleteSession(job[p].session) \/ UNCHANGED Store!storeVars
    BY <1>9, DeleteMaps
  <2> QED
    BY <2>1, <2>2 DEF Store!Next
<1>10. ASSUME NEW p \in Procs, Fail(p)  PROVE UNCHANGED Store!storeVars
  BY <1>10, TablesStay DEF Fail
<1>11. CASE Tick
  BY <1>11, TablesStay DEF Tick
<1>12. CASE UNCHANGED sqlVars
  BY <1>12, TablesStay DEF sqlVars
<1> QED
  BY <1>1, <1>2, <1>3, <1>4, <1>5, <1>6, <1>7, <1>8, <1>9, <1>10, <1>11, <1>12 DEF Next, Step

(* The tables do what the two maps of the store in memory do, whatever the     *)
(* processes, sessions and messages: every statement is a call of it, or none, *)
(* until a process writes what another has overtaken, or a compaction cuts     *)
(* short.                                                                      *)
THEOREM SqliteIsTheStore == Spec => ImplementsStore
<1>1. IInv /\ [Next]_sqlVars => [stale' \/ CutsShort \/ Store!Next(Keeps)]_(Store!storeVars)
  BY NextInv, StoreStep
<1> QED
  BY <1>1, InvHolds, StoreStart, PTL DEF Spec, ImplementsStore

(* For a process that has the database to itself only the compactions that cut *)
(* short are not calls of the store in memory.                                 *)
THEOREM AloneIsTheStore ==
  ASSUME NEW p, Procs = {p}
  PROVE  Spec => Store!Init /\ [][CutsShort \/ Store!Next(Keeps)]_(Store!storeVars)
<1>1. Spec => []~stale
  BY AloneNeverStale
<1>2. Spec => ImplementsStore
  BY SqliteIsTheStore
<1>3. /\ [stale' \/ CutsShort \/ Store!Next(Keeps)]_(Store!storeVars) /\ ~stale'
      => [CutsShort \/ Store!Next(Keeps)]_(Store!storeVars)
  OBVIOUS
<1> QED
  BY <1>1, <1>2, <1>3, PTL DEF ImplementsStore
=============================================================================

--------------------------- MODULE ToolScheduler ---------------------------
(***************************************************************************)
(* A batch of tool calls (ToolScheduler.executeBatch, src/core/tools/      *)
(* scheduler.ts) on top of the approval mediator, which it asks for every  *)
(* capability of every call. The batch belongs to one run of a session;    *)
(* its calls are numbered in the order of the assistant message.           *)
(*                                                                         *)
(* An action is the code between two awaits. Where that code calls the     *)
(* mediator's decide, the action takes the mediator's Decide with it.      *)
(*                                                                         *)
(* A definition Name_Fault is a faulty variant of Name that nothing uses:  *)
(* put in its place it must break a property, see README.md.               *)
(***************************************************************************)
EXTENDS ApprovalMediator

CONSTANTS
  N,             \* the calls are 1..N
  Safe,          \* isSafeConcurrent: read and search tools, unknown tools
  Unrunnable,    \* calls of an unknown tool, or with invalid input
  OverMode,      \* calls whose tool has a capability the agent mode denies
  CapsOf,        \* one permission request per capability of the call's tool
  InnerOf,       \* requests the tool's body may make: an external directory, a
                 \* protected path
  BatchSession   \* the session of the run

ASSUME SchedulerAssumption ==
  /\ N \in Nat /\ Safe \subseteq 1..N /\ Unrunnable \subseteq 1..N /\ OverMode \subseteq 1..N
  /\ CapsOf \in [1..N -> Seq(Watched)]
  /\ InnerOf \in [1..N -> SUBSET (Requests \ Watched)]
  /\ BatchSession \in Sessions
  /\ \A c \in 1..N : \A i \in DOMAIN CapsOf[c] : SessionOf[CapsOf[c][i]] = BatchSession
  /\ \A c, d \in 1..N : \A i \in DOMAIN CapsOf[c] : \A j \in DOMAIN CapsOf[d] :
       CapsOf[c][i] = CapsOf[d][j] => c = d /\ i = j

VARIABLES
  batch,     \* whether executeBatch was called, and whether it returned
  upto,      \* the group in flight is reported + 1..upto
  reported,  \* calls 1..reported have their results in the batch
  call,      \* the await each call is at
  at,        \* how many of its capabilities it has asked for
  outcome    \* the result it has

schedulerVars == <<batch, upto, reported, call, at, outcome>>
allVars == <<mediatorVars, schedulerVars>>

Calls == 1..N
Executed == {"ok", "failed"}
Outcomes == Executed \cup {"none", "invalid", "refused", "denied", "aborted"}

SchedulerTypeOK ==
  /\ TypeOK
  /\ batch \in {"new", "running", "returned"}
  /\ upto \in 0..N /\ reported \in 0..N
  /\ call \in [Calls -> {"waiting", "hook", "permit", "tool", "after", "done"}]
  /\ at \in [Calls -> Nat] /\ \A c \in Calls : at[c] <= Len(CapsOf[c])
  /\ outcome \in [Calls -> Outcomes]

SchedulerInit ==
  /\ Init
  /\ batch = "new"
  /\ upto = 0 /\ reported = 0
  /\ call = [c \in Calls |-> "waiting"]
  /\ at = [c \in Calls |-> 0]
  /\ outcome = [c \in Calls |-> "none"]

RunAborted == SignalOf[BatchSession] \in aborted

Finish(c, o) ==
  /\ call' = [call EXCEPT ![c] = "done"]
  /\ outcome' = [outcome EXCEPT ![c] = o]

-----------------------------------------------------------------------------
(* The batch. *)

\* nextExecutionGroup: the group that starts with call i ends with call j.
EndsGroup_OneMore(i, j) ==
  IF i \in Safe
  THEN i..j - 1 \subseteq Safe /\ (j < N => j \notin Safe) /\ j <= N
  ELSE j = i
EndsGroup(i, j) ==
  IF i \in Safe
  THEN i..j \subseteq Safe /\ (j < N => j + 1 \notin Safe)
  ELSE j = i

\* executeOne of each call of the group, up to its first await: an unknown tool
\* or an invalid input has its result at once, the others await beforeTool.
StartGroup(i, j) ==
  /\ upto' = j
  /\ call' = [c \in Calls |-> IF c \notin i..j THEN call[c]
                              ELSE IF c \in Unrunnable THEN "done" ELSE "hook"]
  /\ outcome' = [c \in Calls |-> IF c \in i..j \cap Unrunnable THEN "invalid" ELSE outcome[c]]

\* The head of the loop, with the results of calls 1..i - 1 in the batch.
LoopHead(i) ==
  IF i <= N /\ ~RunAborted
  THEN /\ batch' = "running"
       /\ \E j \in i..N : EndsGroup(i, j) /\ StartGroup(i, j)
  ELSE /\ batch' = "returned"
       /\ UNCHANGED <<upto, call, outcome>>

StartBatch ==
  /\ batch = "new"
  /\ LoopHead(1)
  /\ UNCHANGED <<mediatorVars, reported, at>>

\* Promise.all of the group's calls.
GroupDone_Race == \E c \in reported + 1..upto : call[c] = "done"
GroupDone_EveryCall == \A c \in Calls : call[c] = "done"
GroupDone == \A c \in reported + 1..upto : call[c] = "done"

GroupReturns ==
  /\ batch = "running" /\ GroupDone
  /\ reported' = upto
  /\ LoopHead(upto + 1)
  /\ UNCHANGED <<mediatorVars, at>>

-----------------------------------------------------------------------------
(* A call. *)

\* decide is called for the next capability ...
AskFor(c) ==
  /\ at' = [at EXCEPT ![c] = @ + 1]
  /\ Decide(CapsOf[c][at[c] + 1])
  /\ call' = [call EXCEPT ![c] = "permit"]
  /\ UNCHANGED outcome

\* ... or the tool, unless the run was aborted meanwhile.
MayExecute_Unchecked == TRUE
MayExecute == ~RunAborted

Execute(c) ==
  /\ IF MayExecute
     THEN call' = [call EXCEPT ![c] = "tool"] /\ UNCHANGED outcome
     ELSE Finish(c, "aborted")
  /\ UNCHANGED <<mediatorVars, at>>

AllAsked_First(c) == at[c] >= 1
AllAsked(c) == at[c] = Len(CapsOf[c])

Proceed(c) == IF AllAsked(c) THEN Execute(c) ELSE AskFor(c)

\* The beforeTool hooks return, and the mode ceiling comes before any question.
HookReturns(c) ==
  /\ call[c] = "hook" /\ c \notin OverMode
  /\ Proceed(c)
  /\ UNCHANGED <<batch, upto, reported>>

ModeDenies(c) ==
  /\ call[c] = "hook" /\ c \in OverMode
  /\ Finish(c, "denied")
  /\ UNCHANGED <<mediatorVars, batch, upto, reported, at>>

\* They reject or time out, or the input they rewrote is invalid.
HookRejects(c) ==
  /\ call[c] = "hook"
  /\ \E o \in {"refused", "invalid"} : Finish(c, o)
  /\ UNCHANGED <<mediatorVars, batch, upto, reported, at>>

Asked(c) == CapsOf[c][at[c]]

Granted_NotDenied(c) == verdict[Asked(c)] # "deny"
Granted(c) == answer[Asked(c)] = "allow"

PermitGranted(c) ==
  /\ call[c] = "permit" /\ stage[Asked(c)] = "settled" /\ Granted(c)
  /\ Proceed(c)
  /\ UNCHANGED <<batch, upto, reported>>

PermitDenied(c) ==
  /\ call[c] = "permit" /\ stage[Asked(c)] = "settled" /\ ~Granted(c)
  /\ Finish(c, "denied")
  /\ UNCHANGED <<mediatorVars, batch, upto, reported, at>>

\* The tool's body asks for itself, and throws when it is denied.
InnerSettled(c) == \A r \in InnerOf[c] : stage[r] \in {"idle", "settled"}
InnerDenied(c) == \E r \in InnerOf[c] : answer[r] = "deny"

ToolAsks(c, r) ==
  /\ call[c] = "tool" /\ InnerSettled(c) /\ ~InnerDenied(c)
  /\ Decide(r)
  /\ UNCHANGED schedulerVars

\* It returns, ok or not, and storing a long output and the afterTool hooks are
\* awaited; or it throws.
ToolReturns(c, o) ==
  /\ call[c] = "tool" /\ InnerSettled(c) /\ ~InnerDenied(c)
  /\ call' = [call EXCEPT ![c] = "after"]
  /\ outcome' = [outcome EXCEPT ![c] = o]
  /\ UNCHANGED <<mediatorVars, batch, upto, reported, at>>

ToolThrows(c) ==
  /\ call[c] = "tool" /\ InnerSettled(c)
  /\ Finish(c, "failed")
  /\ UNCHANGED <<mediatorVars, batch, upto, reported, at>>

\* The hooks only observe; a long output that cannot be stored is a failure.
AfterTool(c) ==
  /\ call[c] = "after"
  /\ \E o \in {outcome[c], "failed"} : Finish(c, o)
  /\ UNCHANGED <<mediatorVars, batch, upto, reported, at>>

-----------------------------------------------------------------------------
\* A call goes on by itself: hooks have a timeout, and tools are given the abort
\* signal and their own timeouts.
CallStep(c) ==
  \/ HookReturns(c) \/ ModeDenies(c) \/ HookRejects(c)
  \/ PermitGranted(c) \/ PermitDenied(c)
  \/ \E o \in Executed : ToolReturns(c, o)
  \/ ToolThrows(c) \/ AfterTool(c)

\* The mediator, its clients and the clock. decide is called by the calls only.
MediatorStep ==
  /\ \/ \E r \in Requests :
          \/ DecideWithoutAsking(r) \/ Ask(r) \/ Timeout(r)
          \/ \E a \in Replies : AskAnsweredInline(r, a) \/ Respond(r, a) \/ RespondUnsaved(r, a)
     \/ \E s \in Sessions : Abort(s)
  /\ UNCHANGED schedulerVars

SchedulerNext ==
  \/ StartBatch
  \/ GroupReturns
  \/ \E c \in Calls :
       \/ CallStep(c)
       \/ \E r \in InnerOf[c] : ToolAsks(c, r)
  \/ MediatorStep

CallFairness(c) == WF_allVars(CallStep(c))

QuestionStep(r) == (DecideWithoutAsking(r) \/ Ask(r) \/ Timeout(r)) /\ UNCHANGED schedulerVars
QuestionFairness(r) == WF_allVars(QuestionStep(r))

LoopFairness == WF_allVars(StartBatch) /\ WF_allVars(GroupReturns)

SchedulerFairness ==
  /\ LoopFairness
  /\ \A c \in Calls : CallFairness(c)
  /\ \A r \in Requests : QuestionFairness(r)

SchedulerSpec == SchedulerInit /\ [][SchedulerNext]_allVars /\ SchedulerFairness

-----------------------------------------------------------------------------
(* Safety. *)

HasExecuted(c) == call[c] \in {"tool", "after"} \/ outcome[c] \in Executed
InFlight(c) == call[c] \notin {"waiting", "done"}

\* A tool body is entered only for a call the mode allows and whose every
\* capability was granted, each by the policy or by a client: no interleaving of
\* parallel calls, replies and timers lets one grant stand for another.
ExecutedIsPermitted ==
  \A c \in Calls : HasExecuted(c) =>
    /\ c \notin OverMode
    /\ \A i \in DOMAIN CapsOf[c] :
         LET r == CapsOf[c][i]
         IN  answer[r] = "allow" /\ (verdict[r] = "allow" \/ Consented(r))

\* A client is only ever asked, on the scheduler's behalf, about a call of a
\* running batch that waits for the answer: no question outlives its call.
NoOrphanQuestion ==
  \A r \in Watched : Pending(r) =>
    batch = "running" /\ \E c \in reported + 1..upto : call[c] = "permit" /\ Asked(c) = r

\* Two calls in flight are separated by safe calls only (and are safe), and a
\* returned batch has nothing in flight.
UnsafeAlone ==
  /\ \A c, d \in Calls : InFlight(c) /\ InFlight(d) /\ c < d => c..d \subseteq Safe
  /\ batch = "returned" => \A c \in Calls : ~InFlight(c)

\* The results a batch returns are those of its first calls, each of which is done
\* and has its outcome; calls are left to completeToolResults only when the run was
\* aborted, and not because another call of theirs failed or was denied.
ReturnedWhole ==
  batch = "returned" =>
    /\ \A c \in 1..reported : call[c] = "done" /\ outcome[c] # "none"
    /\ RunAborted \/ reported = N

\* What executeBatch promises the agent loop: see ToolBatch.
Batch == INSTANCE ToolBatch WITH
  started <- upto,
  executed <- {c \in Calls : HasExecuted(c)},
  stopped <- RunAborted,
  over <- (batch = "returned")

ImplementsBatch == Batch!Spec

(* Liveness. *)

\* A batch returns: its calls are answered by the policy, a client, an abort or
\* in the end the timer, unless an "always" reply could not be saved.
BatchReturns ==
  batch = "running" ~>
    \/ batch = "returned"
    \/ \E r \in Requests : Pending(r) /\ reply[r] = "always"

\* What the proof of liveness takes for granted of the fairness: a question that is
\* open can be decided, asked or timed out, and its call goes on once it is settled.
QuestionsCanStep ==
  /\ \A r \in Requests :
       stage[r] = "policy" \/ r \in timers => ENABLED <<QuestionStep(r)>>_allVars
  /\ \A c \in Calls :
       call[c] = "permit" /\ stage[Asked(c)] = "settled" => ENABLED <<CallStep(c)>>_allVars
=============================================================================

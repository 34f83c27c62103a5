------------------------------ MODULE AgentRun ------------------------------
(***************************************************************************)
(* One session of the agent: the clients that prompt, abort, cut and       *)
(* delete it (src/adapters/http/routes.ts), the manager that allows one    *)
(* run of it at a time (ActiveRunManager, src/core/runtime.ts), and the    *)
(* agent loop of that run (SessionRunner.run, src/core/session/            *)
(* session-runner.ts): system context, beforePrompt hooks, context budget, *)
(* provider stream, tool batch, and again.                                 *)
(*                                                                         *)
(* An action is the code between two awaits, so clients act while a run    *)
(* waits. The store's own operations are synchronous. A run is named by    *)
(* the prompt that started it; a tool batch is one await whose calls all   *)
(* get a result (ToolScheduler.executeBatch and completeToolResults).      *)
(*                                                                         *)
(* A definition Name_Fault is a faulty variant of Name that nothing uses:  *)
(* put in its place it must break a property, see README.md.               *)
(***************************************************************************)
EXTENDS Naturals, Sequences

CONSTANTS
  Prompts,        \* POST .../prompt requests of the clients
  NoRun,          \* the manager's map has no run of the session
  maxIterations,  \* agent.maxIterations
  MaxCalls,       \* bound: tool calls of one assistant message
  Earlier,        \* prompts of earlier processes
  Restored,       \* transcripts the session may be loaded with
  Env             \* what clients and the environment may do: "delete", "cut",
                  \* "results_lost", "budget", "fallback"

\* A user's message has the prompt's turn, what a run says and does its iteration's.
Turns(S) == {<<p>> : p \in S} \cup (S \X Nat)
MessagesOf(S) == [role : {"user", "assistant", "tool"}, turn : Turns(S), calls : Nat]
Message == MessagesOf(Prompts \cup Earlier)

ASSUME RunAssumption ==
  /\ NoRun \notin Prompts
  /\ maxIterations \in Nat \ {0} /\ MaxCalls \in Nat
  /\ Prompts \cap Earlier = {} /\ Restored \subseteq Seq(MessagesOf(Earlier))
  /\ Env \subseteq {"delete", "cut", "results_lost", "budget", "fallback"}

VARIABLES
  request,     \* where the route's handler is with each prompt
  active,      \* the manager's map: the session's run
  finished,    \* status in the run's session.run.finished event
  aborted,     \* runs whose abort signal fired
  pc,          \* the await a run is at
  iter,        \* its loop counter
  view,        \* the messages it read for the current turn
  calls,       \* tool calls of the assistant message it is executing
  stop,        \* its stop reason
  transcript,  \* the session's messages in the store
  status,      \* the session's status in the store
  deleted,     \* the session is gone from the store
  harmed       \* history: what happened to the transcript behind a run's back

managerVars == <<request, active, finished, aborted>>
localVars == <<iter, view, calls>>
storeVars == <<transcript, status, deleted, harmed>>
runVars == <<managerVars, pc, localVars, stop, storeVars>>

-----------------------------------------------------------------------------
(* Messages. *)

UserMessage(p) == [role |-> "user", turn |-> <<p>>, calls |-> 0]
Assistant(t, n) == [role |-> "assistant", turn |-> t, calls |-> n]
ToolMessage(t, c) == [role |-> "tool", turn |-> t, calls |-> c]

KeepLast(s, n) == SubSeq(s, Len(s) - n + 1, Len(s))

CallsAnswered(t) ==
  \A i \in DOMAIN t : \A c \in 1..t[i].calls :
    t[i].role = "assistant" => \E j \in i + 1..Len(t) : t[j] = ToolMessage(t[i].turn, c)

ResultsAsked(t) ==
  \A j \in DOMAIN t :
    t[j].role = "tool" =>
      \E i \in 1..j - 1 :
        t[i].role = "assistant" /\ t[i].turn = t[j].turn /\ t[j].calls \in 1..t[i].calls

ResultsOnce(t) == \A j, k \in DOMAIN t : t[j].role = "tool" /\ t[j] = t[k] => j = k

\* Every call of t has one result, after it, and there are no other results.
Paired(t) == CallsAnswered(t) /\ ResultsAsked(t) /\ ResultsOnce(t)

Waits == {"init", "system", "hook", "budget", "resystem", "stream", "fallback", "tools"}
Reasons == {"completed", "cancelled", "iteration_limit", "hook_rejected",
            "context_limit", "provider_error", "error"}

TypeOK ==
  /\ request \in [Prompts -> {"idle", "checked", "accepted", "refused"}]
  /\ active \in Prompts \cup {NoRun}
  /\ finished \in [Prompts -> {"none", "completed", "cancelled", "error"}]
  /\ aborted \subseteq Prompts
  /\ pc \in [Prompts -> Waits \cup {"none", "onStop", "returned", "published", "gone"}]
  /\ iter \in [Prompts -> 0..maxIterations - 1]
  /\ calls \in [Prompts -> 0..MaxCalls]
  /\ stop \in [Prompts -> Reasons \cup {"none", "thrown"}]
  /\ transcript \in Seq(Message) /\ view \in [Prompts -> Seq(Message)]
  /\ status \in {"idle", "running", "cancelled", "error"}
  /\ deleted \in BOOLEAN
  /\ harmed \subseteq {"torn", "drift", "cut", "results_lost"}

\* A process that died in a batch leaves a transcript whose last calls have no results, and
\* a fork of that session is idle.
Init ==
  /\ request = [p \in Prompts |-> "idle"]
  /\ active = NoRun
  /\ finished = [p \in Prompts |-> "none"]
  /\ aborted = {}
  /\ pc = [p \in Prompts |-> "none"]
  /\ iter = [p \in Prompts |-> 0]
  /\ view = [p \in Prompts |-> << >>]
  /\ calls = [p \in Prompts |-> 0]
  /\ stop = [p \in Prompts |-> "none"]
  /\ transcript \in Restored
  /\ status = "idle"
  /\ deleted = FALSE
  /\ harmed = IF Paired(transcript) THEN {} ELSE {"torn"}

-----------------------------------------------------------------------------
(* Clients and the manager. *)

\* The route finds no active run and awaits the prompt's file mentions.
CheckPrompt(p) ==
  /\ request[p] = "idle"
  /\ request' = [request EXCEPT ![p] =
       IF deleted \/ active # NoRun THEN "refused" ELSE "checked"]
  /\ UNCHANGED <<active, finished, aborted, pc, localVars, stop, storeVars>>

\* ActiveRunManager.start refuses a second run of the session.
MayStart_Unchecked == TRUE
MayStart == active = NoRun

\* addUserPrompt stores the message, and only then start may refuse the run.
SubmitPrompt(p) ==
  /\ request[p] = "checked" /\ ~deleted
  /\ transcript' = Append(transcript, UserMessage(p))
  /\ IF MayStart
     THEN /\ request' = [request EXCEPT ![p] = "accepted"]
          /\ active' = p
          /\ pc' = [pc EXCEPT ![p] = "init"]
          /\ status' = "running"
     ELSE /\ request' = [request EXCEPT ![p] = "refused"]
          /\ UNCHANGED <<active, pc, status>>
  /\ UNCHANGED <<finished, aborted, localVars, stop, deleted, harmed>>

SubmitToDeleted(p) ==
  /\ request[p] = "checked" /\ deleted
  /\ request' = [request EXCEPT ![p] = "refused"]
  /\ UNCHANGED <<active, finished, aborted, pc, localVars, stop, storeVars>>

\* POST .../abort, while the manager has the run. The session may be deleted
\* between the route's look-up and the abort: the request's body is awaited.
Abort(p) ==
  /\ active = p /\ p \notin aborted
  /\ aborted' = aborted \cup {p}
  /\ UNCHANGED <<request, active, finished, pc, localVars, stop, storeVars>>

\* DELETE .../sessions/:id asks nobody whether a run is active.
DeleteSession ==
  /\ "delete" \in Env /\ ~deleted
  /\ deleted' = TRUE
  /\ transcript' = << >>
  /\ UNCHANGED <<managerVars, pc, localVars, stop, status, harmed>>

\* Nor do DELETE .../messages (n = 0) and POST .../compact: the last n stay.
CutTranscript(n) ==
  /\ "cut" \in Env /\ ~deleted
  /\ n < Len(transcript)
  /\ transcript' = KeepLast(transcript, n)
  /\ harmed' = harmed \cup {"cut"}
  /\ UNCHANGED <<managerVars, pc, localVars, stop, status, deleted>>

-----------------------------------------------------------------------------
(* The end of a run. *)

StatusFor_KnownOnly(reason) ==
  CASE reason = "completed" -> "idle"
    [] reason = "cancelled" -> "cancelled"
    [] reason \in {"error", "provider_error", "iteration_limit"} -> "error"
    [] OTHER -> status
StatusFor(reason) ==
  CASE reason = "completed" -> "idle"
    [] reason = "cancelled" -> "cancelled"
    [] OTHER -> "error"

\* After the loop: updateStatus, which throws when the session is gone, the
\* session events, and onStop, which is awaited.
Finish(p, reason) ==
  IF deleted
  THEN /\ stop' = [stop EXCEPT ![p] = "thrown"]
       /\ pc' = [pc EXCEPT ![p] = "returned"]
       /\ UNCHANGED status
  ELSE /\ stop' = [stop EXCEPT ![p] = reason]
       /\ pc' = [pc EXCEPT ![p] = "onStop"]
       /\ status' = StatusFor(reason)

\* The catch clause of run.
Catch(p) == Finish(p, IF p \in aborted THEN "cancelled" ELSE "error")

OnStopReturns(p) ==
  /\ pc[p] = "onStop"
  /\ pc' = [pc EXCEPT ![p] = "returned"]
  /\ UNCHANGED <<managerVars, localVars, stop, storeVars>>

Outcome_BySignal(p) ==
  IF p \in aborted THEN "cancelled" ELSE IF stop[p] = "completed" THEN "completed" ELSE "error"
Outcome(p) ==
  CASE stop[p] = "completed" -> "completed"
    [] stop[p] = "cancelled" \/ (stop[p] = "thrown" /\ p \in aborted) -> "cancelled"
    [] OTHER -> "error"

\* .then or .catch of the run's promise publishes session.run.finished ...
PublishFinished(p) ==
  /\ pc[p] = "returned"
  /\ finished' = [finished EXCEPT ![p] = Outcome(p)]
  /\ pc' = [pc EXCEPT ![p] = "published"]
  /\ view' = [view EXCEPT ![p] = << >>]
  /\ calls' = [calls EXCEPT ![p] = 0]
  /\ iter' = [iter EXCEPT ![p] = 0]
  /\ UNCHANGED <<request, active, aborted, stop, storeVars>>

\* ... and .finally removes it from the map.
Leaves_ThenOnly(p) == stop[p] # "thrown"
Leaves(p) == TRUE

RemoveRun(p) ==
  /\ pc[p] = "published"
  /\ active' = IF active = p /\ Leaves(p) THEN NoRun ELSE active
  /\ pc' = [pc EXCEPT ![p] = "gone"]
  /\ UNCHANGED <<request, finished, aborted, localVars, stop, storeVars>>

-----------------------------------------------------------------------------
(* The loop. *)

\* The head of an iteration: the abort check, getSession, and the await of the
\* system context.
TopOfLoop(p, i) ==
  IF p \in aborted \/ deleted
  THEN Catch(p) /\ UNCHANGED iter
  ELSE /\ iter' = [iter EXCEPT ![p] = i]
       /\ pc' = [pc EXCEPT ![p] = "system"]
       /\ UNCHANGED <<stop, status>>

Initialized(p) ==
  /\ pc[p] = "init"
  /\ TopOfLoop(p, 0)
  /\ UNCHANGED <<managerVars, view, calls, transcript, deleted, harmed>>

\* The messages are read, and the beforePrompt hooks awaited.
SystemContextReady(p) ==
  /\ pc[p] = "system"
  /\ view' = [view EXCEPT ![p] = transcript]
  /\ pc' = [pc EXCEPT ![p] = "hook"]
  /\ UNCHANGED <<managerVars, iter, calls, stop, storeVars>>

HooksReturn(p) ==
  /\ pc[p] = "hook"
  /\ pc' = [pc EXCEPT ![p] = "budget"]
  /\ UNCHANGED <<managerVars, localVars, stop, storeVars>>

HooksReject(p) ==
  /\ pc[p] = "hook"
  /\ Finish(p, "hook_rejected")
  /\ UNCHANGED <<managerVars, localVars, transcript, deleted, harmed>>

\* contextBudget.prepare, on the messages the run read. A group starts at a user
\* message, and is removable when the calls in it have their results in it.
GroupStarts(t) == {i \in DOMAIN t : i = 1 \/ t[i].role = "user"}

GroupOf(t, i) ==
  {j \in i..Len(t) : \A k \in i + 1..j : t[k].role # "user"}

Removable_Always(t, i) == TRUE
Removable(t, i) ==
  \A j \in GroupOf(t, i) : \A c \in 1..t[j].calls :
    t[j].role = "assistant" => \E k \in GroupOf(t, i) : t[k] = ToolMessage(t[j].turn, c)

\* How many messages may stay: those from a later group on, if what is before
\* it is removable.
KeepCounts(t) ==
  {Len(t) - i + 1 : i \in {g \in GroupStarts(t) \ {1} :
     \A h \in GroupStarts(t) : h < g => Removable(t, h)}}

\* No compaction: the provider is called with the messages the hooks returned.
BudgetReady(p) ==
  /\ pc[p] = "budget"
  /\ pc' = [pc EXCEPT ![p] = "stream"]
  /\ UNCHANGED <<managerVars, localVars, stop, storeVars>>

BudgetLimit(p) ==
  /\ "budget" \in Env
  /\ pc[p] = "budget"
  /\ Finish(p, "context_limit")
  /\ UNCHANGED <<managerVars, localVars, transcript, deleted, harmed>>

\* store.compactSession keeps that many messages of what the store holds now.
BudgetCompacts(p) ==
  /\ "budget" \in Env
  /\ pc[p] = "budget" /\ ~deleted
  /\ \E n \in KeepCounts(view[p]) :
       transcript' = IF n < Len(transcript) THEN KeepLast(transcript, n) ELSE transcript
  /\ harmed' = IF transcript = view[p] THEN harmed ELSE harmed \cup {"drift"}
  /\ pc' = [pc EXCEPT ![p] = "resystem"]
  /\ UNCHANGED <<managerVars, localVars, stop, status, deleted>>

RereadMessages(p) ==
  /\ pc[p] = "resystem"
  /\ view' = [view EXCEPT ![p] = transcript]
  /\ pc' = [pc EXCEPT ![p] = "stream"]
  /\ UNCHANGED <<managerVars, iter, calls, stop, storeVars>>

Turn(p) == <<p, iter[p]>>

\* collectStream leaves its loop when the signal fires, and returns what it has.
StopsAfterStream_Unchecked(p) == FALSE
StopsAfterStream(p) == p \in aborted

\* The provider's answer: it is stored, and its calls are executed.
StreamEnds(p, n) ==
  /\ pc[p] \in {"stream", "fallback"}
  /\ IF StopsAfterStream(p) \/ deleted
     THEN Catch(p) /\ UNCHANGED <<calls, transcript>>
     ELSE /\ transcript' = Append(transcript, Assistant(Turn(p), n))
          /\ calls' = [calls EXCEPT ![p] = n]
          /\ IF n = 0
             THEN Finish(p, "completed")
             ELSE pc' = [pc EXCEPT ![p] = "tools"] /\ UNCHANGED <<stop, status>>
  /\ UNCHANGED <<managerVars, iter, view, deleted, harmed>>

\* The primary provider fails in a way the fallback model may repair.
StreamFallsBack(p) ==
  /\ "fallback" \in Env
  /\ pc[p] = "stream" /\ p \notin aborted
  /\ pc' = [pc EXCEPT ![p] = "fallback"]
  /\ UNCHANGED <<managerVars, localVars, stop, storeVars>>

StreamFails(p) ==
  /\ pc[p] \in {"stream", "fallback"}
  /\ Finish(p, IF p \in aborted THEN "cancelled" ELSE "provider_error")
  /\ UNCHANGED <<managerVars, localVars, transcript, deleted, harmed>>

\* completeToolResults: a result for every call, also those an abort skipped.
ResultsOf_Executed(p) ==
  [c \in 1..(IF p \in aborted THEN 0 ELSE calls[p]) |-> ToolMessage(Turn(p), c)]
ResultsOf(p) == [c \in 1..calls[p] |-> ToolMessage(Turn(p), c)]

MoreIterations_OffByOne(p) == iter[p] + 1 <= maxIterations
MoreIterations(p) == iter[p] + 1 < maxIterations

\* The batch returns, with a call a beforeTool hook rejected or without.
BatchReturns(p, rejected) ==
  /\ pc[p] = "tools"
  /\ IF deleted
     THEN Catch(p) /\ UNCHANGED <<iter, transcript>>
     ELSE /\ transcript' = transcript \o ResultsOf(p)
          /\ IF p \in aborted THEN Finish(p, "cancelled") /\ UNCHANGED iter
             ELSE IF rejected THEN Finish(p, "hook_rejected") /\ UNCHANGED iter
             ELSE IF MoreIterations(p) THEN TopOfLoop(p, iter[p] + 1)
             ELSE Finish(p, "iteration_limit") /\ UNCHANGED iter
  /\ UNCHANGED <<managerVars, view, calls, deleted, harmed>>

\* Storing a result throws, or the batch does: the first n results are stored.
ResultsLost(p, n) ==
  /\ "results_lost" \in Env
  /\ pc[p] = "tools" /\ ~deleted
  /\ n < calls[p]
  /\ transcript' = transcript \o SubSeq(ResultsOf(p), 1, n)
  /\ harmed' = harmed \cup {"results_lost"}
  /\ Catch(p)
  /\ UNCHANGED <<managerVars, localVars, deleted>>

\* Another await rejects, or compactSession or storing the answer throws.
AwaitThrows(p) ==
  /\ pc[p] \in {"init", "system", "budget", "resystem", "stream", "fallback"}
  /\ Catch(p)
  /\ UNCHANGED <<managerVars, localVars, transcript, deleted, harmed>>

-----------------------------------------------------------------------------
RunStep(p) ==
  \/ Initialized(p) \/ SystemContextReady(p) \/ HooksReturn(p) \/ HooksReject(p)
  \/ BudgetReady(p) \/ BudgetLimit(p) \/ BudgetCompacts(p) \/ RereadMessages(p)
  \/ \E n \in 0..MaxCalls : StreamEnds(p, n)
  \/ StreamFallsBack(p) \/ StreamFails(p)
  \/ \E rejected \in BOOLEAN : BatchReturns(p, rejected)
  \/ \E n \in 0..MaxCalls : ResultsLost(p, n)
  \/ AwaitThrows(p)
  \/ OnStopReturns(p) \/ PublishFinished(p) \/ RemoveRun(p)

Next ==
  \/ \E p \in Prompts :
       CheckPrompt(p) \/ SubmitPrompt(p) \/ SubmitToDeleted(p) \/ Abort(p) \/ RunStep(p)
  \/ DeleteSession
  \/ \E n \in 0..1 : CutTranscript(n)

\* What a run awaits settles (hooks have a timeout, the provider a header timeout
\* and the signal, a batch returns: BatchReturns of ToolScheduler), and the event
\* loop continues it. Clients owe nothing.
RunFairness(p) == WF_runVars(RunStep(p))

Fairness == \A p \in Prompts : RunFairness(p)

Spec == Init /\ [][Next]_runVars /\ Fairness

-----------------------------------------------------------------------------
(* Safety. *)

Working(p) == pc[p] \in Waits
Live(p) == Working(p) \/ pc[p] \in {"onStop", "returned"}

\* Two runs of a session never execute at once, although the route's check and
\* its start are separated by an await: start checks again, and the map holds a
\* run until it has returned.
OneRun == \A p, q \in Prompts : Live(p) /\ Live(q) => p = q

\* Between tool batches the stored transcript pairs every call with a result,
\* whatever aborts, hooks, failures and compactions did, unless something cut it
\* behind the run's back or storing results failed.
TranscriptPaired ==
  harmed = {} /\ (\A p \in Prompts : pc[p] # "tools") => Paired(transcript)

\* So the provider is only ever given paired messages, restored or compacted.
ProviderSeesPaired ==
  harmed = {} => \A p \in Prompts : pc[p] \in {"stream", "fallback"} => Paired(view[p])

\* The stored status says "running" exactly while a run works, however it ends.
StatusFollowsRun == ~deleted => (status = "running" <=> \E p \in Prompts : Working(p))

\* The run's finished event says what the session's status says, as long as the
\* run is still the manager's.
EventMatchesStatus ==
  \A p \in Prompts :
    active = p /\ pc[p] = "published" /\ ~deleted /\ stop[p] # "thrown" =>
      /\ finished[p] = "completed" <=> status = "idle"
      /\ finished[p] = "cancelled" <=> status = "cancelled"

AssistantTurns(t, p) == {i \in DOMAIN t : t[i].role = "assistant" /\ t[i].turn[1] = p}

\* Once a run is aborted nothing the provider says for it is stored, so no tool
\* call of it is started (the signal is checked after the stream).
SilentAfterAbort ==
  [][\A p \in aborted :
       \A i \in AssistantTurns(transcript', p) :
         \E j \in AssistantTurns(transcript, p) : transcript[j] = transcript'[i]]_runVars

(* Liveness. *)

\* An accepted prompt's run ends, by one of the stop reasons or by throwing, and
\* leaves the manager's map, so that the session can be prompted again.
RunEnds == \A p \in Prompts : request[p] = "accepted" ~> (finished[p] # "none" /\ active # p)

\* What the proofs of liveness take for granted of the fairness of a run: it can go
\* on from whatever it awaits.
RunsCanStep ==
  \A p \in Prompts : pc[p] \notin {"none", "gone"} => ENABLED <<RunStep(p)>>_runVars

(* What the documentation says. *)

\* README.md on the context budget: it "never separates tool call/result pairs".
CompactionKeepsPairs ==
  \A p \in Prompts : pc[p] = "resystem" => Paired(transcript)
=============================================================================

-------------------------- MODULE ApprovalMediator --------------------------
(***************************************************************************)
(* The approval mediator (src/core/permissions/approvals.ts): it wraps the *)
(* permission policy, and a request the policy answers with "ask" waits    *)
(* for a client's reply, for its timer, or for an abort.                   *)
(*                                                                         *)
(* JavaScript runs one callback at a time, so an action is the code        *)
(* between two awaits: a call of decide up to its await, the continuation  *)
(* of that await, a client's respond, a timer callback, an abort.          *)
(*                                                                         *)
(* A definition Name_Fault is a faulty variant of Name that nothing uses:  *)
(* put in its place it must break a property, see README.md.               *)
(***************************************************************************)
EXTENDS Naturals, Sequences

CONSTANTS
  Sessions,
  Requests,   \* permission requests; decide is called at most once for each
  Rules,      \* rules a client may ask to remember
  NoRule,     \* createRememberedApprovalRule has no rule for the request
  NoSession,  \* the session has no parent
  SessionOf,  \* the session a request is made for
  Parent,     \* parentSessionId: the delegating session, or a fork's source
  SignalOf,   \* the session whose run's abort signal the session runs under
  Managed,    \* sessions run by the ActiveRunManager, not by a bare runner.run
  Watched,    \* requests of the scheduler, made with signal and abort listener;
              \* the others are made inside a tool's body, without either
  Static,     \* the policy's answer to a request no remembered rule grants
  RuleFor,    \* the rule an "always" reply to the request adds
  Needs,      \* the rules that together grant a request, one per resource of
              \* it; empty when no remembered rule can: a deny rule matches, the
              \* command is dangerous, the path is external
  Env         \* what the environment may do: "save_fails", "inline_reply"

Decisions == {"allow", "deny"}

ASSUME MediatorAssumption ==
  /\ SessionOf \in [Requests -> Sessions]
  /\ NoSession \notin Sessions
  /\ Parent \in [Sessions -> Sessions \cup {NoSession}]
  /\ SignalOf \in [Sessions -> Sessions]
  /\ Managed \subseteq Sessions
  /\ Watched \subseteq Requests
  /\ Static \in [Requests -> Decisions \cup {"ask"}]
  /\ NoRule \notin Rules
  /\ RuleFor \in [Requests -> Rules \cup {NoRule}]
  /\ Needs \in [Requests -> SUBSET Rules]
  /\ Env \subseteq {"save_fails", "inline_reply"}

VARIABLES
  stage,     \* progress of the decide call of each request
  verdict,   \* the policy's answer, read when decide was called
  approval,  \* the pending map: status of the request's approval
  log,       \* the approval records of each request, oldest first
  waiters,   \* requests whose promise resolver is registered
  timers,    \* requests whose timeout callback is armed
  answer,    \* what the promise decide returned resolves to
  rules,     \* the remembered rules in memory
  saved,     \* the remembered rules on disk
  aborted,   \* the abort signals that fired, by the session of their run
  reply      \* the last reply a client sent to each request, as it remembers it

callVars == <<stage, verdict, answer>>
mapVars == <<approval, log, waiters, timers>>
ruleVars == <<rules, saved>>
mediatorVars == <<callVars, mapVars, ruleVars, aborted, reply>>

TypeOK ==
  /\ stage \in [Requests -> {"idle", "policy", "asked", "settled"}]
  /\ verdict \in [Requests -> Decisions \cup {"none", "ask"}]
  /\ approval \in [Requests -> {"none", "pending", "resolved"}]
  /\ log \in [Requests -> Seq(Decisions)]
  /\ waiters \subseteq Requests
  /\ timers \subseteq Requests
  /\ answer \in [Requests -> Decisions \cup {"none"}]
  /\ rules \subseteq Rules
  /\ saved \subseteq Rules
  /\ aborted \subseteq Sessions
  /\ reply \in [Requests -> {"none", "once", "always", "deny"}]

\* A restarted process starts here too: only the rules file outlives it.
Init ==
  /\ stage = [r \in Requests |-> "idle"]
  /\ verdict = [r \in Requests |-> "none"]
  /\ approval = [r \in Requests |-> "none"]
  /\ log = [r \in Requests |-> << >>]
  /\ waiters = {}
  /\ timers = {}
  /\ answer = [r \in Requests |-> "none"]
  /\ saved \in SUBSET Rules
  /\ rules = saved
  /\ aborted = {}
  /\ reply = [r \in Requests |-> "none"]

-----------------------------------------------------------------------------
(* The base policy, and the decide call up to the client's question. *)

\* What a remembered rule must never override comes earlier in the policy.
PolicyDecision(r) ==
  IF Needs[r] # {} /\ Needs[r] \subseteq rules THEN "allow" ELSE Static[r]

Signalled(r) == SignalOf[SessionOf[r]] \in aborted

\* The continuation of decide returns "deny" without asking.
StopsAtAbort_Unchecked(r) == FALSE
StopsAtAbort(r) == r \in Watched /\ Signalled(r)

Settle(r, d) ==
  /\ answer' = [answer EXCEPT ![r] = d]
  /\ stage' = [stage EXCEPT ![r] = "settled"]

\* decide runs up to `await basePolicy.decide(request)`.
Decide(r) ==
  /\ stage[r] = "idle"
  /\ stage' = [stage EXCEPT ![r] = "policy"]
  /\ verdict' = [verdict EXCEPT ![r] = PolicyDecision(r)]
  /\ UNCHANGED <<answer, mapVars, ruleVars, aborted, reply>>

\* The policy answered for itself, or the run was aborted during the await.
DecideWithoutAsking(r) ==
  /\ stage[r] = "policy"
  /\ \/ verdict[r] # "ask" /\ Settle(r, verdict[r])
     \/ verdict[r] = "ask" /\ StopsAtAbort(r) /\ Settle(r, "deny")
  /\ UNCHANGED <<verdict, mapVars, ruleVars, aborted, reply>>

\* ask(): the approval, the permission.requested event, the timer and the waiter.
Ask(r) ==
  /\ stage[r] = "policy" /\ verdict[r] = "ask" /\ ~StopsAtAbort(r)
  /\ stage' = [stage EXCEPT ![r] = "asked"]
  /\ approval' = [approval EXCEPT ![r] = "pending"]
  /\ waiters' = waiters \cup {r}
  /\ timers' = timers \cup {r}
  /\ UNCHANGED <<verdict, answer, log, ruleVars, aborted, reply>>
-----------------------------------------------------------------------------
(* Resolving approvals. *)

Pending_AnyKnown(r) == approval[r] # "none"
Pending(r) == approval[r] = "pending"

\* resolveApproval(..., notifyWaiter = true) for each request of D.
ResolveAll(D, d) ==
  /\ approval' = [r \in Requests |-> IF r \in D THEN "resolved" ELSE approval[r]]
  /\ log' = [r \in Requests |-> IF r \in D THEN Append(log[r], d) ELSE log[r]]
  /\ answer' = [r \in Requests |-> IF r \in D \cap waiters THEN d ELSE answer[r]]
  /\ stage' = [r \in Requests |-> IF r \in D \cap waiters THEN "settled" ELSE stage[r]]
  /\ waiters' = waiters \ D
  /\ timers' = timers \ (D \cap waiters)

\* "once" and "always" allow, everything else denies.
ReplyDecision_AllowByDefault(a) == "allow"
ReplyDecision(a) == IF a \in {"once", "always"} THEN "allow" ELSE "deny"

\* The rule addRule pushes; none when there is no rule or it is there already.
NewRules_NoRuleToo(r, a) == IF a = "always" THEN {RuleFor[r]} \ rules ELSE {}
NewRules_AnyAllow(r, a) ==
  IF ReplyDecision(a) = "allow" THEN ({RuleFor[r]} \cap Rules) \ rules ELSE {}
NewRules_OnceOnly(r, a) == IF a = "once" THEN ({RuleFor[r]} \cap Rules) \ rules ELSE {}

NewRules(r, a) == IF a = "always" THEN ({RuleFor[r]} \cap Rules) \ rules ELSE {}

\* addRule pushes a rule it does not have, and writes all it has to the file.
Remember(r, a) ==
  /\ rules' = rules \cup NewRules(r, a)
  /\ saved' = IF NewRules(r, a) = {} THEN saved ELSE rules \cup NewRules(r, a)
  /\ reply' = [reply EXCEPT ![r] = a]

\* A client replies: POST .../permissions/:id, or the TUI's question. A reply
\* to an approval that is not pending throws and changes nothing.
Respond(r, a) ==
  /\ Pending(r)
  /\ ResolveAll({r}, ReplyDecision(a))
  /\ Remember(r, a)
  /\ UNCHANGED <<verdict, aborted>>

\* The same, and writing the rules file throws: respond has disarmed the timer
\* and the rule is in memory, but the approval stays pending.
RespondUnsaved(r, a) ==
  /\ "save_fails" \in Env
  /\ Pending(r)
  /\ NewRules(r, a) # {}
  /\ rules' = rules \cup NewRules(r, a)
  /\ timers' = timers \ ({r} \cap waiters)
  /\ reply' = [reply EXCEPT ![r] = a]
  /\ UNCHANGED <<callVars, approval, log, waiters, saved, aborted>>

\* A listener of permission.requested replies before ask() has registered the
\* waiter: the approval is resolved, and nobody tells the promise.
AskAnsweredInline(r, a) ==
  /\ "inline_reply" \in Env
  /\ stage[r] = "policy" /\ verdict[r] = "ask" /\ ~StopsAtAbort(r)
  /\ stage' = [stage EXCEPT ![r] = "asked"]
  /\ approval' = [approval EXCEPT ![r] = "resolved"]
  /\ log' = [log EXCEPT ![r] = Append(@, ReplyDecision(a))]
  /\ waiters' = waiters \cup {r}
  /\ timers' = timers \cup {r}
  /\ Remember(r, a)
  /\ UNCHANGED <<verdict, answer, aborted>>

\* Seeded fault: only a pending approval's caller is answered.
Timeout_PendingOnly(r) ==
  /\ r \in timers
  /\ timers' = timers \ {r}
  /\ waiters' = waiters \ {r}
  /\ IF Pending(r)
     THEN /\ approval' = [approval EXCEPT ![r] = "resolved"]
          /\ log' = [log EXCEPT ![r] = Append(@, "deny")]
          /\ Settle(r, "deny")
     ELSE UNCHANGED <<approval, log, stage, answer>>
  /\ UNCHANGED <<verdict, ruleVars, aborted, reply>>

\* The timer callback: it resolves a pending approval without notifying, and
\* answers "deny" itself.
Timeout(r) ==
  /\ r \in timers
  /\ timers' = timers \ {r}
  /\ waiters' = waiters \ {r}
  /\ approval' = [approval EXCEPT ![r] = "resolved"]
  /\ log' = [log EXCEPT ![r] = IF Pending(r) THEN Append(@, "deny") ELSE @]
  /\ Settle(r, "deny")
  /\ UNCHANGED <<verdict, ruleVars, aborted, reply>>
-----------------------------------------------------------------------------
(* Aborting a run. *)

\* The in-flight scheduler requests: their abort listener is attached.
Listening(s) ==
  {r \in Watched : SignalOf[SessionOf[r]] = s /\ stage[r] \in {"policy", "asked"}}

\* cancelPending of every listener: denyPendingForSession of its session.
DeniedByListeners(s) ==
  {r \in Requests : Pending(r) /\ \E w \in Listening(s) : SessionOf[w] = SessionOf[r]}

\* a is s, its parent, its parent's parent ...: it is in every set of sessions
\* that holds s and the parents of its members.
Descends(s, a) ==
  \A S \in SUBSET Sessions :
    s \in S /\ (\A x \in S : Parent[x] \in Sessions => Parent[x] \in S) => a \in S

\* ActiveRunManager.abort goes on to deny what is pending in the session and its
\* descendants; a bare runner's abort signal has only the listeners.
DeniedByManager(s) ==
  {r \in Requests : s \in Managed /\ Pending(r) /\ Descends(SessionOf[r], s)}

\* controller.abort(): synchronously, the listeners, then the manager's loop.
Abort(s) ==
  /\ s \notin aborted /\ SignalOf[s] = s
  /\ aborted' = aborted \cup {s}
  /\ ResolveAll(DeniedByListeners(s) \cup DeniedByManager(s), "deny")
  /\ UNCHANGED <<verdict, ruleVars, reply>>
-----------------------------------------------------------------------------
Replies == {"once", "always", "deny"}

Next ==
  \/ \E r \in Requests :
       \/ Decide(r)
       \/ DecideWithoutAsking(r)
       \/ Ask(r)
       \/ \E a \in Replies : AskAnsweredInline(r, a) \/ Respond(r, a) \/ RespondUnsaved(r, a)
       \/ Timeout(r)
  \/ \E s \in Sessions : Abort(s)

\* An awaited promise that has settled is continued, and a timer fires. Nobody
\* has to ask for permission, to reply or to abort.
RequestFairness(r) ==
  /\ WF_mediatorVars(DecideWithoutAsking(r))
  /\ WF_mediatorVars(Ask(r))
  /\ WF_mediatorVars(Timeout(r))

Fairness == \A r \in Requests : RequestFairness(r)

Spec == Init /\ [][Next]_mediatorVars /\ Fairness
-----------------------------------------------------------------------------
(* Safety. *)

Consented(r) == reply[r] \in {"once", "always"}

\* A caller is told "allow" only when the policy allowed the request, or when a
\* client did and the approval's record says so, whatever timers, aborts and
\* failed writes did around the reply (decide, resolveApproval).
AllowNeedsConsent ==
  \A r \in Requests :
    answer[r] = "allow" =>
      \/ verdict[r] = "allow"
      \/ verdict[r] = "ask" /\ Consented(r) /\ log[r] = <<"allow">>

\* An approval is decided once: reply, timeout and abort race for it, and the
\* losers find it resolved (the status checks of respond and of the timer).
ResolvedOnce ==
  \A r \in Requests :
    /\ Len(log[r]) <= 1
    /\ (Len(log[r]) = 1) <=> (approval[r] = "resolved")

\* Once a run's signal fired, no scheduler request of the run, or of a delegated
\* child under the same signal, waits for a client: it was denied by the abort
\* listener or never asked (the check of the signal after the policy's await).
NothingPendingAfterAbort ==
  \A r \in Watched : Signalled(r) => ~Pending(r)

\* A promise decide returned that has not resolved has its waiter, and has its
\* timer unless a reply's "always" disarmed it and could not be saved.
Expirable ==
  \A r \in Requests :
    stage[r] = "asked" =>
      /\ r \in waiters
      /\ (r \notin timers => Pending(r) /\ reply[r] = "always")

\* Restarting the process never grants what this one would ask for, and a reply
\* "always" that was accepted holds for the rest of the process.
RulesKept ==
  /\ saved \subseteq rules
  /\ \A r \in Requests :
       reply[r] = "always" /\ answer[r] = "allow" => {RuleFor[r]} \cap Rules \subseteq rules

\* A rule is remembered, in memory or on disk, only because a client replied
\* "always" to a pending request it is the rule of; nothing ever drops one.
RulesNeedAlways ==
  [][/\ rules \subseteq rules' /\ saved \subseteq saved'
     /\ \A x \in rules' \ rules :
          \E r \in Requests : RuleFor[r] = x /\ approval[r] # "resolved" /\ reply'[r] = "always"]_mediatorVars

(* Liveness. *)

\* A request that was asked is answered, by a reply, an abort or its timer,
\* unless an "always" reply to it could not be saved.
AskedIsAnswered ==
  \A r \in Requests :
    stage[r] = "asked" ~> (stage[r] = "settled" \/ (Pending(r) /\ reply[r] = "always"))

\* What the proofs of liveness take for granted of the fairness above: a timer
\* that is armed can fire, and a decide call whose policy has answered can go on.
StepsCanHappen ==
  /\ \A r \in timers : ENABLED <<Timeout(r)>>_mediatorVars
  /\ \A r \in Requests :
       stage[r] = "policy" =>
         IF verdict[r] = "ask" /\ ~StopsAtAbort(r)
         THEN ENABLED <<Ask(r)>>_mediatorVars
         ELSE ENABLED <<DecideWithoutAsking(r)>>_mediatorVars

\* What the timeout is for: a request nobody answers is denied in the end
\* (test/approval-mediator.test.ts, "returns deny after approval timeout").
ApprovalTimesOut ==
  \A r \in Requests : stage[r] = "asked" ~> stage[r] = "settled"
=============================================================================

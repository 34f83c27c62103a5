----------------------- MODULE ApprovalMediatorProofs -----------------------
(***************************************************************************)
(* Safety of the approval mediator for every set of sessions, requests and *)
(* rules, every parent relation and every policy. The invariant says what  *)
(* the three maps hold at each stage of a decide call: that is why reply,  *)
(* timer and abort, whichever comes first, leave nothing for the others.   *)
(***************************************************************************)
EXTENDS ApprovalMediator, TLAPS

\* A request's decide call has not asked: nothing in the maps is about it.
Unasked(r) ==
  stage[r] \in {"idle", "policy"} =>
    /\ approval[r] = "none" /\ log[r] = << >> /\ answer[r] = "none"
    /\ r \notin waiters /\ r \notin timers
    /\ reply[r] = "none" /\ (stage[r] = "policy" => verdict[r] # "none")

\* Its promise is open: it has a waiter, and a timer unless a save failed.
Waiting(r) ==
  stage[r] = "asked" =>
    /\ verdict[r] = "ask" /\ answer[r] = "none" /\ approval[r] # "none"
    /\ r \in waiters
    /\ (r \notin timers => approval[r] = "pending" /\ reply[r] = "always")

\* Its promise is resolved: whatever was registered for it is gone.
Settled(r) ==
  stage[r] = "settled" =>
    /\ approval[r] # "pending" /\ answer[r] # "none"
    /\ r \notin waiters /\ r \notin timers
    /\ (verdict[r] # "ask" => answer[r] = verdict[r] /\ approval[r] = "none")

\* The record of an approval, and the reply it was written for.
Recorded(r) ==
  /\ approval[r] \in {"none", "pending"} => log[r] = << >>
  /\ approval[r] = "resolved" => \/ log[r] = <<"deny">>
                                 \/ log[r] = <<"allow">> /\ Consented(r)
  /\ answer[r] = "allow" /\ verdict[r] = "ask" => log[r] = <<"allow">> /\ Consented(r)

IInv ==
  /\ TypeOK
  /\ \A r \in Requests : Unasked(r) /\ Waiting(r) /\ Settled(r) /\ Recorded(r)
  /\ NothingPendingAfterAbort

Each(r) == Unasked(r) /\ Waiting(r) /\ Settled(r) /\ Recorded(r)

\* A first record is a record of its own.
LEMMA AppendToEmpty == ASSUME NEW d PROVE Append(<< >>, d) = <<d>>
OBVIOUS

\* A pending approval is one whose promise is open, with nothing on record.
LEMMA PendingIsOpen ==
  ASSUME IInv, NEW r \in Requests, Pending(r)
  PROVE  stage[r] = "asked" /\ r \in waiters /\ log[r] = << >> /\ verdict[r] = "ask"
BY DEF IInv, TypeOK, Unasked, Waiting, Settled, Recorded, Pending

\* Resolving pending approvals keeps what the maps say of every request, and
\* leaves none of the resolved ones pending.
LEMMA ResolveAllKeeps ==
  ASSUME IInv, NEW D \in SUBSET Requests, \A r \in D : Pending(r),
         NEW d \in Decisions, ResolveAll(D, d), verdict' = verdict,
         reply' \in [Requests -> {"none", "once", "always", "deny"}],
         \A r \in Requests \ D : reply'[r] = reply[r],
         \A r \in D : d = "allow" => Consented(r)'
  PROVE  /\ stage' \in [Requests -> {"idle", "policy", "asked", "settled"}]
         /\ approval' \in [Requests -> {"none", "pending", "resolved"}]
         /\ log' \in [Requests -> Seq(Decisions)]
         /\ waiters' \subseteq Requests /\ timers' \subseteq Requests
         /\ answer' \in [Requests -> Decisions \cup {"none"}]
         /\ \A r \in Requests : Each(r)'
         /\ \A r \in Requests : Pending(r)' => Pending(r) /\ r \notin D
<1>1. TypeOK /\ \A r \in Requests : Each(r)
  BY DEF IInv, Each
<1>2. \A r \in D : stage[r] = "asked" /\ r \in waiters /\ log[r] = << >> /\ verdict[r] = "ask"
  BY PendingIsOpen
<1>3. \A r \in D : log'[r] = <<d>> /\ answer'[r] = d /\ stage'[r] = "settled"
                 /\ approval'[r] = "resolved" /\ r \notin waiters' /\ r \notin timers'
  BY <1>1, <1>2, AppendToEmpty DEF ResolveAll, TypeOK
<1>4. \A r \in Requests \ D :
        /\ log'[r] = log[r] /\ answer'[r] = answer[r] /\ stage'[r] = stage[r]
        /\ approval'[r] = approval[r] /\ (r \in waiters' <=> r \in waiters)
        /\ (r \in timers' <=> r \in timers) /\ reply'[r] = reply[r]
  BY <1>1 DEF ResolveAll, TypeOK
<1>5. log' \in [Requests -> Seq(Decisions)]
  <2>1. <<d>> \in Seq(Decisions)
    OBVIOUS
  <2>2. \A r \in Requests : log[r] \in Seq(Decisions)
    BY <1>1 DEF TypeOK
  <2>3. \A r \in Requests : log'[r] \in Seq(Decisions)
    BY <1>3, <1>4, <2>1, <2>2
  <2>4. log' = [r \in Requests |-> IF r \in D THEN Append(log[r], d) ELSE log[r]]
    BY DEF ResolveAll
  <2> QED BY <2>3, <2>4
<1>6. /\ stage' \in [Requests -> {"idle", "policy", "asked", "settled"}]
      /\ approval' \in [Requests -> {"none", "pending", "resolved"}]
      /\ waiters' \subseteq Requests /\ timers' \subseteq Requests
      /\ answer' \in [Requests -> Decisions \cup {"none"}]
  BY <1>1 DEF ResolveAll, TypeOK, Decisions
<1>7. ASSUME NEW r \in Requests PROVE Each(r)'
  <2>1. CASE r \in D
    <3>1. d = "allow" \/ d = "deny"
      BY DEF Decisions
    <3> QED BY <2>1, <3>1, <1>2, <1>3 DEF Each, Unasked, Waiting, Settled, Recorded, Consented
  <2>2. CASE r \notin D
    BY <2>2, <1>1, <1>4 DEF Each, Unasked, Waiting, Settled, Recorded, Consented
  <2> QED BY <2>1, <2>2
<1>8. \A r \in Requests : Pending(r)' => Pending(r) /\ r \notin D
  BY <1>3, <1>4 DEF Pending
<1> QED BY <1>5, <1>6, <1>7, <1>8

\* What an action changes of one request r, the others being left alone.
LEMMA OthersKeep ==
  ASSUME NEW r \in Requests, \A q \in Requests : Each(q), Each(r)',
         \A q \in Requests \ {r} :
           /\ stage'[q] = stage[q] /\ verdict'[q] = verdict[q] /\ approval'[q] = approval[q]
           /\ log'[q] = log[q] /\ answer'[q] = answer[q] /\ reply'[q] = reply[q]
           /\ (q \in waiters' <=> q \in waiters) /\ (q \in timers' <=> q \in timers)
  PROVE  \A q \in Requests : Each(q)'
BY DEF Each, Unasked, Waiting, Settled, Recorded, Consented

THEOREM InitInv == Init => IInv
BY MediatorAssumption
   DEF Init, IInv, TypeOK, Unasked, Waiting, Settled, Recorded, NothingPendingAfterAbort,
       Pending, Signalled, Decisions

LEMMA DecideInv == ASSUME IInv, NEW r \in Requests, Decide(r) PROVE IInv'
<1>1. TypeOK /\ (\A q \in Requests : Each(q)) /\ NothingPendingAfterAbort
  BY DEF IInv, Each
<1>2. PolicyDecision(r) \in Decisions \cup {"ask"}
  BY MediatorAssumption DEF PolicyDecision, Decisions
<1>3. TypeOK'
  BY <1>1, <1>2 DEF Decide, TypeOK, mapVars, ruleVars
<1>4. Each(r)'
  BY <1>1, <1>2 DEF Decide, TypeOK, mapVars, ruleVars, Decisions,
                    Each, Unasked, Waiting, Settled, Recorded
<1>5. \A q \in Requests : Each(q)'
  BY <1>1, <1>4, OthersKeep DEF Decide, TypeOK, mapVars, ruleVars
<1>6. NothingPendingAfterAbort'
  BY <1>1 DEF Decide, mapVars, NothingPendingAfterAbort, Pending, Signalled
<1> QED BY <1>3, <1>5, <1>6 DEF IInv, Each

LEMMA DecideWithoutAskingInv ==
  ASSUME IInv, NEW r \in Requests, DecideWithoutAsking(r) PROVE IInv'
<1>1. TypeOK /\ (\A q \in Requests : Each(q)) /\ NothingPendingAfterAbort
  BY DEF IInv, Each
<1>2. PICK d \in Decisions : Settle(r, d) /\ (verdict[r] # "ask" => verdict[r] = d)
                                         /\ (verdict[r] = "ask" => d = "deny")
  BY <1>1 DEF DecideWithoutAsking, TypeOK, Decisions, Each, Unasked
<1>3. TypeOK'
  BY <1>1, <1>2 DEF DecideWithoutAsking, Settle, TypeOK, mapVars, ruleVars
<1>4. Each(r)'
  BY <1>1, <1>2 DEF DecideWithoutAsking, Settle, TypeOK, mapVars, Decisions,
                    Each, Unasked, Waiting, Settled, Recorded, Consented
<1>5. \A q \in Requests : Each(q)'
  BY <1>1, <1>2, <1>4, OthersKeep DEF DecideWithoutAsking, Settle, TypeOK, mapVars
<1>6. NothingPendingAfterAbort'
  BY <1>1 DEF DecideWithoutAsking, mapVars, NothingPendingAfterAbort, Pending, Signalled
<1> QED BY <1>3, <1>5, <1>6 DEF IInv, Each

LEMMA AskInv == ASSUME IInv, NEW r \in Requests, Ask(r) PROVE IInv'
<1>1. TypeOK /\ (\A q \in Requests : Each(q)) /\ NothingPendingAfterAbort
  BY DEF IInv, Each
<1>2. TypeOK'
  BY <1>1 DEF Ask, TypeOK, ruleVars
<1>3. Each(r)'
  BY <1>1 DEF Ask, TypeOK, Each, Unasked, Waiting, Settled, Recorded, Consented
<1>4. \A q \in Requests : Each(q)'
  BY <1>1, <1>3, OthersKeep DEF Ask, TypeOK
<1>5. NothingPendingAfterAbort'
  BY <1>1 DEF Ask, TypeOK, NothingPendingAfterAbort, Pending, Signalled, StopsAtAbort
<1> QED BY <1>2, <1>4, <1>5 DEF IInv, Each

LEMMA RememberTypes ==
  ASSUME TypeOK, NEW r \in Requests, NEW a \in Replies, Remember(r, a)
  PROVE  /\ rules' \subseteq Rules /\ saved' \subseteq Rules
         /\ reply' \in [Requests -> {"none", "once", "always", "deny"}]
         /\ reply'[r] = a /\ \A q \in Requests \ {r} : reply'[q] = reply[q]
         /\ ReplyDecision(a) \in Decisions
         /\ (ReplyDecision(a) = "allow" => Consented(r)')
BY DEF TypeOK, Remember, NewRules, Replies, ReplyDecision, Decisions, Consented

LEMMA AskAnsweredInlineInv ==
  ASSUME IInv, NEW r \in Requests, NEW a \in Replies, AskAnsweredInline(r, a) PROVE IInv'
<1>1. TypeOK /\ (\A q \in Requests : Each(q)) /\ NothingPendingAfterAbort
  BY DEF IInv, Each
<1> DEFINE d == ReplyDecision(a)
<1>2. /\ rules' \subseteq Rules /\ saved' \subseteq Rules
      /\ reply' \in [Requests -> {"none", "once", "always", "deny"}]
      /\ reply'[r] = a /\ (\A q \in Requests \ {r} : reply'[q] = reply[q])
      /\ d \in Decisions /\ (d = "allow" => Consented(r)')
  BY <1>1, RememberTypes DEF AskAnsweredInline
<1>3. log[r] = << >> /\ log' = [log EXCEPT ![r] = <<d>>]
  BY <1>1, AppendToEmpty DEF AskAnsweredInline, Each, Unasked
<1>4. <<d>> \in Seq(Decisions)
  BY <1>2
<1> HIDE DEF d
<1>5. log' \in [Requests -> Seq(Decisions)] /\ log'[r] = <<d>>
  BY <1>1, <1>3, <1>4 DEF TypeOK
<1>6. TypeOK'
  BY <1>1, <1>2, <1>5 DEF AskAnsweredInline, TypeOK
<1>7. Each(r)'
  <2>1. d = "allow" \/ d = "deny"
    BY <1>2 DEF Decisions
  <2> QED BY <1>1, <1>2, <1>5, <2>1 DEF AskAnsweredInline, TypeOK, Each, Unasked, Waiting,
                                       Settled, Recorded
<1>8. \A q \in Requests : Each(q)'
  BY <1>1, <1>2, <1>3, <1>7, OthersKeep DEF AskAnsweredInline, TypeOK
<1>9. NothingPendingAfterAbort'
  BY <1>1 DEF AskAnsweredInline, TypeOK, NothingPendingAfterAbort, Pending, Signalled
<1> QED BY <1>6, <1>8, <1>9 DEF IInv, Each

LEMMA RespondInv ==
  ASSUME IInv, NEW r \in Requests, NEW a \in Replies, Respond(r, a) PROVE IInv'
<1>1. TypeOK /\ NothingPendingAfterAbort
  BY DEF IInv
<1> DEFINE d == ReplyDecision(a)
<1>2. /\ rules' \subseteq Rules /\ saved' \subseteq Rules
      /\ reply' \in [Requests -> {"none", "once", "always", "deny"}]
      /\ (\A q \in Requests \ {r} : reply'[q] = reply[q])
      /\ d \in Decisions /\ (d = "allow" => Consented(r)')
  BY <1>1, RememberTypes DEF Respond
<1>3. ResolveAll({r}, d) /\ Pending(r) /\ verdict' = verdict /\ aborted' = aborted
  BY DEF Respond
<1> HIDE DEF d
<1>4. /\ stage' \in [Requests -> {"idle", "policy", "asked", "settled"}]
      /\ approval' \in [Requests -> {"none", "pending", "resolved"}]
      /\ log' \in [Requests -> Seq(Decisions)]
      /\ waiters' \subseteq Requests /\ timers' \subseteq Requests
      /\ answer' \in [Requests -> Decisions \cup {"none"}]
      /\ (\A q \in Requests : Each(q)')
      /\ (\A q \in Requests : Pending(q)' => Pending(q))
  <2>1. {r} \in SUBSET Requests /\ (\A q \in {r} : Pending(q))
    BY <1>3
  <2>2. \A q \in {r} : d = "allow" => Consented(q)'
    BY <1>2
  <2> QED BY <1>2, <1>3, <2>1, <2>2, ResolveAllKeeps
<1>5. NothingPendingAfterAbort'
  BY <1>1, <1>3, <1>4, MediatorAssumption DEF NothingPendingAfterAbort, Signalled
<1> QED BY <1>1, <1>2, <1>3, <1>4, <1>5 DEF IInv, Each, TypeOK

LEMMA RespondUnsavedInv ==
  ASSUME IInv, NEW r \in Requests, NEW a \in Replies, RespondUnsaved(r, a) PROVE IInv'
<1>1. TypeOK /\ (\A q \in Requests : Each(q)) /\ NothingPendingAfterAbort
  BY DEF IInv, Each
<1>2. a = "always"
  BY DEF RespondUnsaved, NewRules
<1>3. TypeOK'
  BY <1>1, <1>2 DEF RespondUnsaved, NewRules, TypeOK, callVars
<1>4. Each(r)'
  BY <1>1, <1>2, PendingIsOpen DEF RespondUnsaved, TypeOK, callVars, Pending,
     Each, Unasked, Waiting, Settled, Recorded
<1>5. \A q \in Requests : Each(q)'
  BY <1>1, <1>4, OthersKeep DEF RespondUnsaved, TypeOK, callVars
<1>6. NothingPendingAfterAbort'
  BY <1>1 DEF RespondUnsaved, NothingPendingAfterAbort, Pending, Signalled
<1> QED BY <1>3, <1>5, <1>6 DEF IInv, Each

LEMMA TimeoutInv == ASSUME IInv, NEW r \in Requests, Timeout(r) PROVE IInv'
<1>1. TypeOK /\ (\A q \in Requests : Each(q)) /\ NothingPendingAfterAbort
  BY DEF IInv, Each
<1>2. stage[r] = "asked" /\ verdict[r] = "ask"
  BY <1>1 DEF Timeout, TypeOK, Each, Unasked, Waiting, Settled
<1>3. log'[r] = (IF Pending(r) THEN <<"deny">> ELSE log[r]) /\ \A q \in Requests \ {r} : log'[q] = log[q]
  BY <1>1, <1>2, AppendToEmpty DEF Timeout, TypeOK, Pending, Each, Recorded
<1>4. log' \in [Requests -> Seq(Decisions)]
  <2>1. <<"deny">> \in Seq(Decisions)
    BY DEF Decisions
  <2>2. \A q \in Requests : log'[q] \in Seq(Decisions)
    BY <1>1, <1>3, <2>1 DEF TypeOK
  <2>3. log' = [q \in Requests |-> log'[q]]
    BY <1>1 DEF Timeout, TypeOK
  <2> QED BY <2>2, <2>3
<1>5. TypeOK'
  BY <1>1, <1>4 DEF Timeout, Settle, TypeOK, ruleVars, Decisions
<1>6. Each(r)'
  BY <1>1, <1>2, <1>3 DEF Timeout, Settle, TypeOK, Pending,
     Each, Unasked, Waiting, Settled, Recorded, Consented
<1>7. \A q \in Requests : Each(q)'
  BY <1>1, <1>3, <1>6, OthersKeep DEF Timeout, Settle, TypeOK
<1>8. NothingPendingAfterAbort'
  BY <1>1 DEF Timeout, TypeOK, NothingPendingAfterAbort, Pending, Signalled
<1> QED BY <1>5, <1>7, <1>8 DEF IInv, Each

LEMMA AbortInv == ASSUME IInv, NEW s \in Sessions, Abort(s) PROVE IInv'
<1>1. TypeOK /\ (\A q \in Requests : Each(q)) /\ NothingPendingAfterAbort
  BY DEF IInv, Each
<1> DEFINE D == DeniedByListeners(s) \cup DeniedByManager(s)
<1>2. D \in SUBSET Requests /\ (\A q \in D : Pending(q))
  BY DEF DeniedByListeners, DeniedByManager
<1>3. /\ stage' \in [Requests -> {"idle", "policy", "asked", "settled"}]
      /\ approval' \in [Requests -> {"none", "pending", "resolved"}]
      /\ log' \in [Requests -> Seq(Decisions)]
      /\ waiters' \subseteq Requests /\ timers' \subseteq Requests
      /\ answer' \in [Requests -> Decisions \cup {"none"}]
      /\ (\A q \in Requests : Each(q)')
      /\ (\A q \in Requests : Pending(q)' => Pending(q) /\ q \notin D)
  <2>1. ResolveAll(D, "deny") /\ verdict' = verdict /\ reply' = reply /\ "deny" \in Decisions
    BY DEF Abort, Decisions
  <2> HIDE DEF D
  <2> QED BY <1>1, <1>2, <2>1, ResolveAllKeeps DEF TypeOK
<1>4. \A q \in Watched : SignalOf[SessionOf[q]] = s /\ Pending(q) => q \in D
  <2> SUFFICES ASSUME NEW q \in Watched, SignalOf[SessionOf[q]] = s, Pending(q)
               PROVE  q \in DeniedByListeners(s)
    OBVIOUS
  <2>1. q \in Requests /\ stage[q] = "asked"
    BY PendingIsOpen, MediatorAssumption
  <2>2. q \in Listening(s)
    BY <2>1 DEF Listening
  <2> QED BY <2>1, <2>2 DEF DeniedByListeners
<1>5. NothingPendingAfterAbort'
  BY <1>1, <1>3, <1>4, MediatorAssumption DEF Abort, NothingPendingAfterAbort, Signalled
<1> QED BY <1>1, <1>3, <1>5 DEF Abort, IInv, Each, TypeOK, ruleVars

LEMMA NextInv == IInv /\ [Next]_mediatorVars => IInv'
<1> SUFFICES ASSUME IInv, [Next]_mediatorVars PROVE IInv'
  OBVIOUS
<1>1. ASSUME NEW r \in Requests, NEW a \in Replies,
             AskAnsweredInline(r, a) \/ Respond(r, a) \/ RespondUnsaved(r, a)
      PROVE  IInv'
  BY <1>1, AskAnsweredInlineInv, RespondInv, RespondUnsavedInv
<1>2. ASSUME NEW r \in Requests, Decide(r) \/ DecideWithoutAsking(r) \/ Ask(r) \/ Timeout(r)
      PROVE  IInv'
  BY <1>2, DecideInv, DecideWithoutAskingInv, AskInv, TimeoutInv
<1>3. ASSUME NEW s \in Sessions, Abort(s) PROVE IInv'
  BY <1>3, AbortInv
<1>4. CASE UNCHANGED mediatorVars
  BY <1>4 DEF mediatorVars, callVars, mapVars, ruleVars, IInv, TypeOK, Unasked, Waiting,
     Settled, Recorded, Consented, NothingPendingAfterAbort, Pending, Signalled
<1> QED BY <1>1, <1>2, <1>3, <1>4 DEF Next

LEMMA Invariance == Spec => []IInv
BY InitInv, NextInv, PTL DEF Spec

\* Every variable keeps its type.
THEOREM TypeCorrect == Spec => []TypeOK
BY Invariance, PTL DEF IInv

\* "allow" is never the answer without the policy's or a client's consent.
THEOREM AllowIsConsented == Spec => []AllowNeedsConsent
<1>1. IInv => AllowNeedsConsent
  <2> SUFFICES ASSUME IInv, NEW r \in Requests, answer[r] = "allow", verdict[r] # "allow"
               PROVE  verdict[r] = "ask" /\ Consented(r) /\ log[r] = <<"allow">>
    BY DEF AllowNeedsConsent
  <2>1. stage[r] = "settled"
    BY DEF IInv, TypeOK, Unasked, Waiting
  <2>2. verdict[r] = "ask"
    BY <2>1 DEF IInv, Settled
  <2> QED BY <2>2 DEF IInv, Recorded
<1> QED BY <1>1, Invariance, PTL

\* Replies, timers and aborts together decide an approval at most once.
THEOREM DecidedOnce == Spec => []ResolvedOnce
<1>1. IInv => ResolvedOnce
  <2> SUFFICES ASSUME IInv, NEW r \in Requests
               PROVE  Len(log[r]) <= 1 /\ (Len(log[r]) = 1 <=> approval[r] = "resolved")
    BY DEF ResolvedOnce
  <2>1. CASE approval[r] = "resolved"
    <3>1. PICK d \in Decisions : log[r] = <<d>>
      BY <2>1 DEF IInv, Recorded, Decisions
    <3> QED BY <2>1, <3>1
  <2>2. CASE approval[r] # "resolved"
    <3>1. log[r] = << >>
      BY <2>2 DEF IInv, Recorded, TypeOK
    <3> QED BY <2>2, <3>1
  <2> QED BY <2>1, <2>2
<1> QED BY <1>1, Invariance, PTL

\* An aborted run waits for nobody.
THEOREM AbortLeavesNothingPending == Spec => []NothingPendingAfterAbort
BY Invariance, PTL DEF IInv

\* A promise that is still open can be expired, a failed save left aside.
THEOREM OpenIsExpirable == Spec => []Expirable
<1>1. IInv => Expirable
  BY DEF IInv, Waiting, Expirable, Pending
<1> QED BY <1>1, Invariance, PTL

LEMMA RulesStep ==
  ASSUME IInv, RulesKept, [Next]_mediatorVars
  PROVE  /\ rules \subseteq rules' /\ saved \subseteq saved'
         /\ \A x \in rules' \ rules :
              \E r \in Requests : RuleFor[r] = x /\ approval[r] # "resolved" /\ reply'[r] = "always"
         /\ RulesKept'
<1>1. TypeOK /\ saved \subseteq rules
  BY DEF IInv, RulesKept
<1>2. ASSUME NEW r \in Requests, NEW a \in Replies, approval[r] # "resolved",
             rules' = rules \cup NewRules(r, a), reply' = [reply EXCEPT ![r] = a],
             saved' = saved \/ saved' = rules', NewRules(r, a) = {} => saved' = saved,
             \A q \in Requests \ {r} : answer'[q] = answer[q]
      PROVE  /\ rules \subseteq rules' /\ saved \subseteq saved'
             /\ \A x \in rules' \ rules :
                  \E q \in Requests : RuleFor[q] = x /\ approval[q] # "resolved" /\ reply'[q] = "always"
             /\ RulesKept'
  <2>1. \A x \in NewRules(r, a) : RuleFor[r] = x /\ a = "always"
    BY DEF NewRules
  <2>2. reply'[r] = a /\ \A q \in Requests \ {r} : reply'[q] = reply[q]
    BY <1>1, <1>2 DEF TypeOK
  <2>3. a = "always" => {RuleFor[r]} \cap Rules \subseteq rules'
    BY <1>2 DEF NewRules
  <2> QED BY <1>1, <1>2, <2>1, <2>2, <2>3 DEF RulesKept
<1>3. ASSUME NEW r \in Requests, NEW a \in Replies,
             AskAnsweredInline(r, a) \/ Respond(r, a) \/ RespondUnsaved(r, a)
      PROVE  /\ rules \subseteq rules' /\ saved \subseteq saved'
             /\ \A x \in rules' \ rules :
                  \E q \in Requests : RuleFor[q] = x /\ approval[q] # "resolved" /\ reply'[q] = "always"
             /\ RulesKept'
  <2>1. approval[r] # "resolved"
    BY <1>3 DEF AskAnsweredInline, Respond, RespondUnsaved, Pending, IInv, Unasked
  <2>2. /\ rules' = rules \cup NewRules(r, a) /\ reply' = [reply EXCEPT ![r] = a]
        /\ (saved' = saved \/ saved' = rules') /\ (NewRules(r, a) = {} => saved' = saved)
    BY <1>3 DEF AskAnsweredInline, Respond, RespondUnsaved, Remember
  <2>3. \A q \in Requests \ {r} : answer'[q] = answer[q]
    BY <1>1, <1>3 DEF AskAnsweredInline, Respond, RespondUnsaved, ResolveAll, callVars, TypeOK
  <2> QED BY <1>2, <2>1, <2>2, <2>3
<1>4. ASSUME rules' = rules, saved' = saved, reply' = reply,
             \A q \in Requests : answer'[q] = "allow" /\ reply[q] = "always" => answer[q] = "allow"
      PROVE  /\ rules \subseteq rules' /\ saved \subseteq saved'
             /\ \A x \in rules' \ rules :
                  \E q \in Requests : RuleFor[q] = x /\ approval[q] # "resolved" /\ reply'[q] = "always"
             /\ RulesKept'
  BY <1>4 DEF RulesKept
<1>5. ASSUME NEW r \in Requests, Decide(r) \/ DecideWithoutAsking(r) \/ Ask(r) \/ Timeout(r)
      PROVE  /\ rules' = rules /\ saved' = saved /\ reply' = reply
             /\ \A q \in Requests : answer'[q] = "allow" /\ reply[q] = "always" => answer[q] = "allow"
  BY <1>1, <1>5 DEF Decide, DecideWithoutAsking, Ask, Timeout, Settle, ruleVars, TypeOK, IInv, Unasked
<1>6. ASSUME NEW s \in Sessions, Abort(s)
      PROVE  /\ rules' = rules /\ saved' = saved /\ reply' = reply
             /\ \A q \in Requests : answer'[q] = "allow" /\ reply[q] = "always" => answer[q] = "allow"
  BY <1>1, <1>6 DEF Abort, ResolveAll, ruleVars, TypeOK
<1>7. CASE UNCHANGED mediatorVars
  BY <1>4, <1>7 DEF mediatorVars, callVars, ruleVars
<1> QED BY <1>3, <1>4, <1>5, <1>6, <1>7 DEF Next

\* What was remembered stays remembered, and what is on disk is in memory.
THEOREM RememberedRulesKept == Spec => []RulesKept
<1>1. Init => RulesKept
  BY DEF Init, RulesKept
<1>2. IInv /\ RulesKept /\ [Next]_mediatorVars => RulesKept'
  BY RulesStep
<1> QED BY <1>1, <1>2, Invariance, PTL DEF Spec

\* Rules only ever come from "always" replies.
THEOREM RulesComeFromAlways == Spec => RulesNeedAlways
<1>1. IInv /\ RulesKept /\ [Next]_mediatorVars =>
        [/\ rules \subseteq rules' /\ saved \subseteq saved'
         /\ \A x \in rules' \ rules :
              \E r \in Requests : RuleFor[r] = x /\ approval[r] # "resolved"
                                  /\ reply'[r] = "always"]_mediatorVars
  BY RulesStep
<1> QED BY <1>1, Invariance, RememberedRulesKept, PTL DEF Spec, RulesNeedAlways
-----------------------------------------------------------------------------
(* Liveness. *)

Armed(r) == stage[r] = "asked" /\ r \in timers
Kept(r) == Pending(r) /\ reply[r] = "always"

\* A promise that waits for a reply goes on waiting, or is resolved.
LEMMA AskedOrSettled ==
  ASSUME TypeOK, NEW r \in Requests, stage[r] = "asked", [Next]_mediatorVars
  PROVE  stage'[r] \in {"asked", "settled"}
<1>1. ASSUME NEW q \in Requests, Decide(q) \/ DecideWithoutAsking(q) \/ Ask(q) \/ Timeout(q)
      PROVE  stage'[r] \in {"asked", "settled"}
  BY <1>1 DEF TypeOK, Decide, DecideWithoutAsking, Ask, Timeout, Settle
<1>2. ASSUME NEW q \in Requests, NEW a \in Replies,
             AskAnsweredInline(q, a) \/ Respond(q, a) \/ RespondUnsaved(q, a)
      PROVE  stage'[r] \in {"asked", "settled"}
  BY <1>2 DEF TypeOK, AskAnsweredInline, Respond, RespondUnsaved, ResolveAll, callVars
<1>3. ASSUME NEW s \in Sessions, Abort(s) PROVE stage'[r] \in {"asked", "settled"}
  BY <1>3 DEF TypeOK, Abort, ResolveAll
<1>4. CASE UNCHANGED mediatorVars
  BY <1>4 DEF mediatorVars, callVars
<1> QED BY <1>1, <1>2, <1>3, <1>4 DEF Next

LEMMA RequestIsAnswered ==
  ASSUME NEW r \in Requests
  PROVE  Spec /\ []StepsCanHappen => (stage[r] = "asked" ~> (stage[r] = "settled" \/ Kept(r)))
<1>1. Expirable /\ stage[r] = "asked" => Armed(r) \/ Kept(r)
  BY DEF Expirable, Armed, Kept
<1>2. TypeOK /\ Expirable' /\ Armed(r) /\ [Next]_mediatorVars
        => (Armed(r) \/ Kept(r) \/ stage[r] = "settled")'
  BY AskedOrSettled DEF Expirable, Armed, Kept, Pending
<1>3. TypeOK /\ Armed(r) /\ <<Timeout(r)>>_mediatorVars => (stage[r] = "settled")'
  BY DEF TypeOK, Armed, Timeout, Settle
<1>4. StepsCanHappen /\ Armed(r) => ENABLED <<Timeout(r)>>_mediatorVars
  BY DEF StepsCanHappen, Armed
<1>5. Fairness => RequestFairness(r)
  BY DEF Fairness
<1> QED
  BY <1>1, <1>2, <1>3, <1>4, <1>5, TypeCorrect, OpenIsExpirable, PTL DEF Spec, RequestFairness

\* A request that was asked is answered: its timer, if nothing else, ends the wait
\* (the setTimeout of ask), a failed save of an "always" left aside.
THEOREM AskedGetsAnswer == Spec /\ []StepsCanHappen => AskedIsAnswered
BY RequestIsAnswered DEF AskedIsAnswered, Kept

\* Without failed saves every open promise has its timer.
LEMMA OpenIsArmed ==
  ASSUME "save_fails" \notin Env, NEW r \in Requests
  PROVE  Spec => [](stage[r] = "asked" => r \in timers)
<1> DEFINE I == stage[r] = "asked" => r \in timers
<1>1. Init => I
  BY DEF Init
<1>2. ASSUME TypeOK, I, [Next]_mediatorVars PROVE I'
  <2>1. ASSUME NEW q \in Requests, Decide(q) \/ DecideWithoutAsking(q) \/ Ask(q) \/ Timeout(q)
        PROVE  I'
    BY <1>2, <2>1 DEF TypeOK, Decide, DecideWithoutAsking, Ask, Timeout, Settle, mapVars
  <2>2. ASSUME NEW q \in Requests, NEW a \in Replies,
               AskAnsweredInline(q, a) \/ Respond(q, a) \/ RespondUnsaved(q, a)
        PROVE  I'
    BY <1>2, <2>2 DEF TypeOK, AskAnsweredInline, Respond, RespondUnsaved, ResolveAll
  <2>3. ASSUME NEW s \in Sessions, Abort(s) PROVE I'
    BY <1>2, <2>3 DEF TypeOK, Abort, ResolveAll
  <2>4. CASE UNCHANGED mediatorVars
    BY <1>2, <2>4 DEF mediatorVars, callVars, mapVars
  <2> QED BY <1>2, <2>1, <2>2, <2>3, <2>4 DEF Next
<1> HIDE DEF I
<1>3. TypeOK /\ I /\ [Next]_mediatorVars => I'
  BY <1>2
<1>4. Spec => []I
  BY <1>1, <1>3, TypeCorrect, PTL DEF Spec
<1> QED BY <1>4 DEF I

\* When the rules file can be written, the timeout keeps its promise for every
\* request: the failed write of ApprovalMediatorUnsaved.cfg is its only exception.
THEOREM SavedIsTimedOut ==
  ASSUME "save_fails" \notin Env
  PROVE  Spec /\ []StepsCanHappen => ApprovalTimesOut
<1>1. ASSUME NEW r \in Requests
      PROVE  Spec /\ []StepsCanHappen => (stage[r] = "asked" ~> stage[r] = "settled")
  <2>1. TypeOK /\ (stage[r] = "asked" => r \in timers)' /\ Armed(r) /\ [Next]_mediatorVars
          => (Armed(r) \/ stage[r] = "settled")'
    BY AskedOrSettled DEF Armed
  <2>2. TypeOK /\ Armed(r) /\ <<Timeout(r)>>_mediatorVars => (stage[r] = "settled")'
    BY DEF TypeOK, Armed, Timeout, Settle
  <2>3. StepsCanHappen /\ Armed(r) => ENABLED <<Timeout(r)>>_mediatorVars
    BY DEF StepsCanHappen, Armed
  <2>4. Fairness => RequestFairness(r)
    BY DEF Fairness
  <2>5. Spec => [](stage[r] = "asked" => r \in timers)
    BY OpenIsArmed
  <2>6. stage[r] = "asked" /\ (stage[r] = "asked" => r \in timers) => Armed(r)
    BY DEF Armed
  <2> QED BY <2>1, <2>2, <2>3, <2>4, <2>5, <2>6, TypeCorrect, PTL DEF Spec, RequestFairness
<1> QED BY <1>1 DEF ApprovalTimesOut

\* The policy has answered decide: it asks nobody, or it asks.
Stopped(r) == stage[r] = "policy" /\ (verdict[r] # "ask" \/ StopsAtAbort(r))
Asking(r) == stage[r] = "policy" /\ ~Stopped(r)

LEMMA PolicyStep ==
  ASSUME TypeOK, NEW r \in Requests, stage[r] = "policy", [Next]_mediatorVars
  PROVE  /\ (stage[r] \in {"policy", "asked", "settled"})'
         /\ Stopped(r) => Stopped(r)' \/ stage'[r] \in {"asked", "settled"}
<1>1. ASSUME NEW q \in Requests, Decide(q) \/ DecideWithoutAsking(q) \/ Ask(q) \/ Timeout(q)
      PROVE  /\ stage'[r] \in {"asked", "settled"} \/ (stage'[r] = "policy" /\ verdict'[r] = verdict[r])
             /\ aborted' = aborted
  BY <1>1 DEF TypeOK, Decide, DecideWithoutAsking, Ask, Timeout, Settle
<1>2. ASSUME NEW q \in Requests, NEW a \in Replies,
             AskAnsweredInline(q, a) \/ Respond(q, a) \/ RespondUnsaved(q, a)
      PROVE  /\ stage'[r] \in {"asked", "settled"} \/ (stage'[r] = "policy" /\ verdict'[r] = verdict[r])
             /\ aborted' = aborted
  BY <1>2 DEF TypeOK, AskAnsweredInline, Respond, RespondUnsaved, ResolveAll, callVars
<1>3. ASSUME NEW s \in Sessions, Abort(s)
      PROVE  /\ stage'[r] \in {"asked", "settled"} \/ (stage'[r] = "policy" /\ verdict'[r] = verdict[r])
             /\ aborted \subseteq aborted'
  BY <1>3 DEF TypeOK, Abort, ResolveAll
<1>4. CASE UNCHANGED mediatorVars
  BY <1>4 DEF mediatorVars, callVars, Stopped, StopsAtAbort, Signalled
<1>5. ASSUME aborted \subseteq aborted', verdict'[r] = verdict[r], Stopped(r), stage'[r] = "policy"
      PROVE  Stopped(r)'
  BY <1>5 DEF Stopped, StopsAtAbort, Signalled
<1> QED BY <1>1, <1>2, <1>3, <1>4, <1>5 DEF Next

\* decide answers whoever called it once the policy has: without a question, or as
\* its question is answered, whatever aborts come in between.
THEOREM DecideReturns ==
  ASSUME NEW r \in Requests
  PROVE  Spec /\ []StepsCanHappen
           => (stage[r] = "policy" ~> (stage[r] = "settled" \/ Kept(r)))
<1>1. stage[r] = "policy" => Stopped(r) \/ Asking(r)
  BY DEF Asking
<1>2. TypeOK /\ Stopped(r) /\ [Next]_mediatorVars
        => (Stopped(r) \/ stage[r] = "asked" \/ stage[r] = "settled")'
  BY PolicyStep DEF Stopped
<1>3. TypeOK /\ Stopped(r) /\ <<DecideWithoutAsking(r)>>_mediatorVars => (stage[r] = "settled")'
  BY DEF TypeOK, Stopped, DecideWithoutAsking, Settle
<1>4. TypeOK /\ Asking(r) /\ [Next]_mediatorVars
        => (Asking(r) \/ Stopped(r) \/ stage[r] = "asked" \/ stage[r] = "settled")'
  BY PolicyStep DEF Asking, Stopped
<1>5. TypeOK /\ Asking(r) /\ <<Ask(r)>>_mediatorVars => (stage[r] = "asked")'
  BY DEF TypeOK, Asking, Ask
<1>6. StepsCanHappen /\ Stopped(r) => ENABLED <<DecideWithoutAsking(r)>>_mediatorVars
  BY DEF StepsCanHappen, Stopped
<1>7. StepsCanHappen /\ Asking(r) => ENABLED <<Ask(r)>>_mediatorVars
  BY DEF StepsCanHappen, Asking, Stopped
<1>8. Fairness => RequestFairness(r)
  BY DEF Fairness
<1>9. Spec /\ []StepsCanHappen => (stage[r] = "asked" ~> (stage[r] = "settled" \/ Kept(r)))
  BY RequestIsAnswered
<1> QED
  BY <1>1, <1>2, <1>3, <1>4, <1>5, <1>6, <1>7, <1>8, <1>9, TypeCorrect, PTL DEF Spec, RequestFairness
=============================================================================

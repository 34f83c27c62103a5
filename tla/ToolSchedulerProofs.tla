------------------------ MODULE ToolSchedulerProofs ------------------------
(***************************************************************************)
(* Safety of a tool batch, for every message, every tool and every policy, *)
(* and its refinement of ToolBatch. The invariant adds to the mediator's   *)
(* own (IInv, kept because a scheduler step is a mediator step or leaves   *)
(* it alone) where the calls stand around the group in flight, and what    *)
(* the mediator knows of the questions each call has asked so far.         *)
(***************************************************************************)
EXTENDS ToolScheduler, ApprovalMediatorProofs

\* Groups are consecutive; the one in flight may overlap.
Groups ==
  /\ reported <= upto
  /\ batch = "new" => upto = 0
  /\ batch = "returned" => reported = upto
  /\ reported < upto => reported + 1 = upto \/ reported + 1..upto \subseteq Safe

\* Calls before the group are done, and those after it have not started.
Placed(c) ==
  /\ c <= reported => call[c] = "done"
  /\ c <= upto <=> call[c] # "waiting"

\* What a call has asked: one question at a time, in order, each granted before
\* the next, and all of them before the tool's body.
Questions(c) ==
  /\ call[c] \in {"waiting", "hook"} => at[c] = 0
  /\ call[c] = "permit" => at[c] >= 1 /\ c \notin OverMode
  /\ call[c] \in {"waiting", "hook", "permit", "tool"} => outcome[c] = "none"
  /\ call[c] = "after" => outcome[c] \in Executed
  /\ HasExecuted(c) => at[c] = Len(CapsOf[c]) /\ c \notin OverMode
  /\ \A i \in 1..Len(CapsOf[c]) :
       /\ i > at[c] => stage[CapsOf[c][i]] = "idle"
       /\ i <= at[c] => stage[CapsOf[c][i]] # "idle"
       /\ i <= at[c] /\ (i < at[c] \/ call[c] # "permit") => stage[CapsOf[c][i]] = "settled"
       /\ i <= at[c] /\ (i < at[c] \/ HasExecuted(c)) => answer[CapsOf[c][i]] = "allow"

\* A watched request that is no call's is never made.
Elsewhere ==
  \A r \in Watched :
    stage[r] # "idle" => \E c \in Calls : \E i \in 1..Len(CapsOf[c]) : CapsOf[c][i] = r

SInv ==
  /\ IInv /\ SchedulerTypeOK
  /\ Groups
  /\ \A c \in Calls : Placed(c) /\ Questions(c)
  /\ Elsewhere

\* The requests of the calls, and that no two questions share one.
LEMMA CapsFacts ==
  ASSUME NEW c \in Calls, NEW i \in 1..Len(CapsOf[c])
  PROVE  /\ CapsOf[c][i] \in Watched /\ CapsOf[c][i] \in Requests
         /\ SessionOf[CapsOf[c][i]] = BatchSession
         /\ \A d \in Calls : \A j \in 1..Len(CapsOf[d]) :
              CapsOf[c][i] = CapsOf[d][j] => c = d /\ i = j
<1>1. \A d \in Calls : CapsOf[d] \in Seq(Watched) /\ DOMAIN CapsOf[d] = 1..Len(CapsOf[d])
  BY SchedulerAssumption DEF Calls
<1> QED BY <1>1, SchedulerAssumption, MediatorAssumption DEF Calls

LEMMA LenNat == \A c \in Calls : Len(CapsOf[c]) \in Nat
BY SchedulerAssumption DEF Calls

-----------------------------------------------------------------------------
(* What the mediator's steps do to the questions. *)

\* Resolving pending approvals leaves what is idle or settled as it is.
LEMMA ResolveAllLeaves ==
  ASSUME IInv, NEW D \in SUBSET Requests, \A r \in D : Pending(r),
         NEW d, ResolveAll(D, d), NEW r \in Requests
  PROVE  /\ stage[r] = "idle" <=> stage'[r] = "idle"
         /\ stage[r] = "settled" => stage'[r] = "settled" /\ answer'[r] = answer[r]
<1>1. \A q \in D : stage[q] = "asked"
  BY PendingIsOpen
<1> QED BY <1>1 DEF ResolveAll, IInv, TypeOK

LEMMA MediatorStepLeaves ==
  ASSUME IInv, MediatorStep, NEW r \in Requests
  PROVE  /\ stage[r] = "idle" <=> stage'[r] = "idle"
         /\ stage[r] = "settled" => stage'[r] = "settled" /\ answer'[r] = answer[r]
<1>1. TypeOK
  BY DEF IInv
<1>2. ASSUME NEW q \in Requests, DecideWithoutAsking(q) \/ Ask(q) \/ Timeout(q)
      PROVE  /\ stage[r] = "idle" <=> stage'[r] = "idle"
             /\ stage[r] = "settled" => stage'[r] = "settled" /\ answer'[r] = answer[r]
  <2>1. q \in timers => stage[q] = "asked"
    BY DEF IInv, TypeOK, Unasked, Settled
  <2> QED BY <1>1, <1>2, <2>1 DEF DecideWithoutAsking, Ask, Timeout, Settle, TypeOK
<1>3. ASSUME NEW q \in Requests, NEW a \in Replies,
             AskAnsweredInline(q, a) \/ RespondUnsaved(q, a)
      PROVE  /\ stage[r] = "idle" <=> stage'[r] = "idle"
             /\ stage[r] = "settled" => stage'[r] = "settled" /\ answer'[r] = answer[r]
  BY <1>1, <1>3 DEF AskAnsweredInline, RespondUnsaved, callVars, TypeOK
<1>4. ASSUME NEW q \in Requests, NEW a \in Replies, Respond(q, a)
      PROVE  /\ stage[r] = "idle" <=> stage'[r] = "idle"
             /\ stage[r] = "settled" => stage'[r] = "settled" /\ answer'[r] = answer[r]
  <2>1. ResolveAll({q}, ReplyDecision(a)) /\ (\A x \in {q} : Pending(x))
    BY <1>4 DEF Respond
  <2>2. {q} \in SUBSET Requests
    OBVIOUS
  <2> QED BY <2>1, <2>2, ResolveAllLeaves
<1>5. ASSUME NEW s \in Sessions, Abort(s)
      PROVE  /\ stage[r] = "idle" <=> stage'[r] = "idle"
             /\ stage[r] = "settled" => stage'[r] = "settled" /\ answer'[r] = answer[r]
  <2> DEFINE D == DeniedByListeners(s) \cup DeniedByManager(s)
  <2>1. D \in SUBSET Requests /\ (\A x \in D : Pending(x))
    BY DEF DeniedByListeners, DeniedByManager
  <2>2. ResolveAll(D, "deny")
    BY <1>5 DEF Abort
  <2> HIDE DEF D
  <2> QED BY <2>1, <2>2, ResolveAllLeaves
<1> QED BY <1>2, <1>3, <1>4, <1>5 DEF MediatorStep

LEMMA DecideLeaves ==
  ASSUME IInv, NEW q \in Requests, Decide(q), NEW r \in Requests
  PROVE  /\ answer'[r] = answer[r]
         /\ r # q => stage'[r] = stage[r]
         /\ r = q => stage[r] = "idle" /\ stage'[r] = "policy"
BY DEF Decide, IInv, TypeOK

\* A step of the scheduler is a step of the mediator, or leaves it alone.
LEMMA MediatorInv == ASSUME IInv, [Next]_mediatorVars PROVE IInv' /\ TypeOK'
BY NextInv DEF IInv
-----------------------------------------------------------------------------
(* Parts of the invariant that most steps share. *)

LEMMA Typed ==
  ASSUME SInv
  PROVE  /\ upto \in Nat /\ reported \in Nat /\ N \in Nat
         /\ upto <= N /\ reported <= upto
BY SchedulerAssumption DEF SInv, SchedulerTypeOK, Groups

\* A call in flight belongs to the group of a running batch.
LEMMA InFlightIsInGroup ==
  ASSUME SInv, NEW c \in Calls, call[c] \notin {"waiting", "done"}
  PROVE  reported < c /\ c <= upto /\ batch = "running"
<1>1. c \in Nat /\ c >= 1
  BY SchedulerAssumption DEF Calls
<1> QED BY <1>1, Typed DEF SInv, Placed, Groups, SchedulerTypeOK

\* A step of one call in flight moves neither the group nor another call.
LEMMA OneCallPlaced ==
  ASSUME SInv, NEW c \in Calls, call[c] \notin {"waiting", "done"},
         NEW x, x # "waiting", call' = [call EXCEPT ![c] = x],
         batch' = batch, upto' = upto, reported' = reported
  PROVE  Groups' /\ (\A d \in Calls : Placed(d)') /\ call'[c] = x
         /\ \A d \in Calls \ {c} : call'[d] = call[d]
<1>1. reported < c /\ c <= upto
  BY InFlightIsInGroup
<1>2. \A d \in Calls : d \in Nat
  BY SchedulerAssumption DEF Calls
<1> QED BY <1>1, <1>2, Typed DEF SInv, SchedulerTypeOK, Groups, Placed

\* Questions of a call that stays where it is, and whose requests do.
LEMMA QuestionsKept ==
  ASSUME SInv, NEW d \in Calls, call'[d] = call[d], at'[d] = at[d], outcome'[d] = outcome[d],
         \A i \in 1..Len(CapsOf[d]) :
           /\ stage[CapsOf[d][i]] = "idle" <=> stage'[CapsOf[d][i]] = "idle"
           /\ stage[CapsOf[d][i]] = "settled" =>
                stage'[CapsOf[d][i]] = "settled" /\ answer'[CapsOf[d][i]] = answer[CapsOf[d][i]]
  PROVE  Questions(d)'
<1>1. HasExecuted(d)' <=> HasExecuted(d)
  BY DEF HasExecuted
<1>2. at[d] \in Nat
  BY DEF SInv, SchedulerTypeOK
<1>3. Questions(d)
  BY DEF SInv
<1>4. \A i \in 1..Len(CapsOf[d]) :
        /\ i > at[d] => stage'[CapsOf[d][i]] = "idle"
        /\ i <= at[d] => stage'[CapsOf[d][i]] # "idle"
        /\ i <= at[d] /\ (i < at[d] \/ call[d] # "permit") => stage'[CapsOf[d][i]] = "settled"
        /\ i <= at[d] /\ (i < at[d] \/ HasExecuted(d)) => answer'[CapsOf[d][i]] = "allow"
  <2> SUFFICES ASSUME NEW i \in 1..Len(CapsOf[d])
               PROVE  /\ i > at[d] => stage'[CapsOf[d][i]] = "idle"
                      /\ i <= at[d] => stage'[CapsOf[d][i]] # "idle"
                      /\ i <= at[d] /\ (i < at[d] \/ call[d] # "permit")
                           => stage'[CapsOf[d][i]] = "settled"
                      /\ i <= at[d] /\ (i < at[d] \/ HasExecuted(d))
                           => answer'[CapsOf[d][i]] = "allow"
    OBVIOUS
  <2>1. HasExecuted(d) => call[d] # "permit"
    BY <1>3 DEF Questions, HasExecuted, Executed
  <2>2. /\ i > at[d] => stage[CapsOf[d][i]] = "idle"
        /\ i <= at[d] => stage[CapsOf[d][i]] # "idle"
        /\ i <= at[d] /\ (i < at[d] \/ call[d] # "permit") => stage[CapsOf[d][i]] = "settled"
        /\ i <= at[d] /\ (i < at[d] \/ HasExecuted(d)) => answer[CapsOf[d][i]] = "allow"
    BY <1>3 DEF Questions
  <2> QED BY <2>1, <2>2
<1> QED BY <1>1, <1>3, <1>4 DEF Questions

LEMMA ElsewhereKept ==
  ASSUME SInv, \A r \in Watched : stage'[r] # "idle" =>
                 \/ stage[r] # "idle"
                 \/ \E c \in Calls : \E i \in 1..Len(CapsOf[c]) : CapsOf[c][i] = r
  PROVE  Elsewhere'
BY DEF SInv, Elsewhere

-----------------------------------------------------------------------------
(* The invariant, action by action. *)

THEOREM SchedulerInitInv == SchedulerInit => SInv
<1> SUFFICES ASSUME SchedulerInit PROVE SInv
  OBVIOUS
<1>1. IInv
  BY InitInv DEF SchedulerInit
<1>2. \A c \in Calls : c \in Nat /\ c >= 1 /\ Len(CapsOf[c]) \in Nat
  BY SchedulerAssumption, LenNat DEF Calls
<1>3. SchedulerTypeOK
  BY <1>1, <1>2, SchedulerAssumption DEF SchedulerInit, SchedulerTypeOK, IInv, Outcomes
<1>4. Groups
  BY DEF SchedulerInit, Groups
<1>5. ASSUME NEW c \in Calls PROVE Placed(c) /\ Questions(c)
  <2>1. \A i \in 1..Len(CapsOf[c]) : stage[CapsOf[c][i]] = "idle"
    BY CapsFacts DEF SchedulerInit, Init
  <2> QED BY <1>2, <2>1 DEF SchedulerInit, Placed, Questions, HasExecuted, Executed
<1>6. Elsewhere
  BY MediatorAssumption DEF SchedulerInit, Init, Elsewhere
<1> QED BY <1>1, <1>3, <1>4, <1>5, <1>6 DEF SInv

LEMMA MediatorStepInv == ASSUME SInv, MediatorStep PROVE SInv'
<1>1. IInv' /\ TypeOK'
  <2>1. Next
    BY DEF MediatorStep, Next
  <2> QED BY <2>1, MediatorInv DEF SInv
<1>2. UNCHANGED schedulerVars
  BY DEF MediatorStep
<1>3. SchedulerTypeOK'
  BY <1>1, <1>2 DEF SInv, SchedulerTypeOK, schedulerVars
<1>4. Groups' /\ \A c \in Calls : Placed(c)'
  BY <1>2 DEF SInv, Groups, Placed, schedulerVars
<1>5. ASSUME NEW c \in Calls PROVE Questions(c)'
  <2>1. \A i \in 1..Len(CapsOf[c]) :
          /\ stage[CapsOf[c][i]] = "idle" <=> stage'[CapsOf[c][i]] = "idle"
          /\ stage[CapsOf[c][i]] = "settled" =>
               stage'[CapsOf[c][i]] = "settled" /\ answer'[CapsOf[c][i]] = answer[CapsOf[c][i]]
    BY CapsFacts, MediatorStepLeaves DEF SInv
  <2> QED BY <1>2, <2>1, QuestionsKept DEF schedulerVars
<1>6. Elsewhere'
  BY MediatorStepLeaves, ElsewhereKept, MediatorAssumption DEF SInv
<1> QED BY <1>1, <1>3, <1>4, <1>5, <1>6 DEF SInv

LEMMA ToolAsksInv == ASSUME SInv, NEW c \in Calls, NEW r \in InnerOf[c], ToolAsks(c, r) PROVE SInv'
<1>1. r \in Requests /\ r \notin Watched
  BY SchedulerAssumption DEF Calls
<1>2. Decide(r) /\ UNCHANGED schedulerVars
  BY DEF ToolAsks
<1>3. IInv' /\ TypeOK'
  <2>1. Next
    BY <1>1, <1>2 DEF Next
  <2> QED BY <2>1, MediatorInv DEF SInv
<1>4. SchedulerTypeOK'
  BY <1>2, <1>3 DEF SInv, SchedulerTypeOK, schedulerVars
<1>5. Groups' /\ \A d \in Calls : Placed(d)'
  BY <1>2 DEF SInv, Groups, Placed, schedulerVars
<1>6. \A q \in Watched : q \in Requests /\ stage'[q] = stage[q] /\ answer'[q] = answer[q]
  BY <1>1, <1>2, DecideLeaves, MediatorAssumption DEF SInv
<1>7. ASSUME NEW d \in Calls PROVE Questions(d)'
  <2>1. \A i \in 1..Len(CapsOf[d]) : CapsOf[d][i] \in Watched
    BY CapsFacts
  <2> QED BY <1>2, <1>6, <2>1, QuestionsKept DEF schedulerVars
<1>8. Elsewhere'
  BY <1>6, ElsewhereKept
<1> QED BY <1>3, <1>4, <1>5, <1>7, <1>8 DEF SInv

\* The steps of a call in flight that leave the mediator alone: what is left to
\* show is what they do to that call's questions.
LEMMA CallStepInv ==
  ASSUME SInv, UNCHANGED <<mediatorVars, batch, upto, reported, at>>,
         NEW c \in Calls, call[c] \notin {"waiting", "done"},
         NEW x \in {"tool", "after", "done"}, call' = [call EXCEPT ![c] = x],
         NEW o \in Outcomes, outcome' = [outcome EXCEPT ![c] = o],
         x = "tool" => o = "none", x = "after" => o \in Executed,
         x = "tool" \/ o \in Executed =>
           /\ at[c] = Len(CapsOf[c]) /\ c \notin OverMode
           /\ \A i \in 1..Len(CapsOf[c]) : answer[CapsOf[c][i]] = "allow",
         call[c] = "permit" => stage[CapsOf[c][at[c]]] = "settled"
  PROVE  SInv'
<1>1. IInv' /\ TypeOK'
  BY MediatorInv DEF SInv
<1>2. Groups' /\ (\A d \in Calls : Placed(d)') /\ call'[c] = x
      /\ \A d \in Calls \ {c} : call'[d] = call[d]
  BY OneCallPlaced
<1>3. outcome'[c] = o /\ \A d \in Calls \ {c} : outcome'[d] = outcome[d]
  BY DEF SInv, SchedulerTypeOK
<1>4. SchedulerTypeOK'
  BY <1>1 DEF SInv, SchedulerTypeOK, Outcomes
<1>5. stage' = stage /\ answer' = answer
  BY DEF mediatorVars, callVars
<1>6. ASSUME NEW d \in Calls \ {c} PROVE Questions(d)'
  BY <1>2, <1>3, <1>5, QuestionsKept
<1>7. Questions(c)'
  <2>1. at[c] \in Nat /\ Questions(c) /\ at[c] <= Len(CapsOf[c]) /\ Len(CapsOf[c]) \in Nat
    BY LenNat DEF SInv, SchedulerTypeOK
  <2>2. HasExecuted(c)' => at[c] = Len(CapsOf[c]) /\ c \notin OverMode
          /\ \A i \in 1..Len(CapsOf[c]) : answer[CapsOf[c][i]] = "allow"
    BY <1>2, <1>3 DEF HasExecuted
  <2>3. ASSUME NEW i \in 1..Len(CapsOf[c])
        PROVE  /\ i > at[c] => stage[CapsOf[c][i]] = "idle"
               /\ i <= at[c] => stage[CapsOf[c][i]] # "idle" /\ stage[CapsOf[c][i]] = "settled"
               /\ i < at[c] => answer[CapsOf[c][i]] = "allow"
    <3>1. i \in Nat
      OBVIOUS
    <3>2. CASE call[c] = "permit"
      BY <2>1, <3>1, <3>2 DEF Questions
    <3>3. CASE call[c] # "permit"
      BY <2>1, <3>1, <3>3 DEF Questions
    <3> QED BY <3>2, <3>3
  <2>4. \A i \in 1..Len(CapsOf[c]) :
         /\ i > at'[c] => stage'[CapsOf[c][i]] = "idle"
         /\ i <= at'[c] => stage'[CapsOf[c][i]] # "idle"
         /\ i <= at'[c] /\ (i < at'[c] \/ call'[c] # "permit") => stage'[CapsOf[c][i]] = "settled"
         /\ i <= at'[c] /\ (i < at'[c] \/ HasExecuted(c)') => answer'[CapsOf[c][i]] = "allow"
    <3>1. at' = at
      OBVIOUS
    <3>2. stage' = stage /\ answer' = answer
      BY <1>5
    <3> QED BY <3>1, <3>2, <2>2, <2>3
  <2>5. /\ call'[c] \in {"waiting", "hook", "permit", "tool"} => outcome'[c] = "none"
        /\ call'[c] = "after" => outcome'[c] \in Executed
        /\ call'[c] \notin {"waiting", "hook", "permit"}
    BY <1>2, <1>3
  <2> QED BY <2>2, <2>4, <2>5 DEF Questions
<1>8. Elsewhere'
  BY <1>5, ElsewhereKept
<1> QED BY <1>1, <1>2, <1>4, <1>6, <1>7, <1>8 DEF SInv

\* Asking for the next capability, everything before having been granted.
LEMMA AskForInv ==
  ASSUME SInv, NEW c \in Calls, call[c] \in {"hook", "permit"}, c \notin OverMode,
         ~AllAsked(c), AskFor(c), UNCHANGED <<batch, upto, reported>>,
         \A i \in 1..at[c] : stage[CapsOf[c][i]] = "settled" /\ answer[CapsOf[c][i]] = "allow"
  PROVE  SInv'
<1> DEFINE n == at[c] + 1
           r == CapsOf[c][n]
<1>1. at[c] \in Nat /\ Questions(c) /\ at[c] <= Len(CapsOf[c]) /\ Len(CapsOf[c]) \in Nat
      /\ at \in [Calls -> Nat]
  BY LenNat DEF SInv, SchedulerTypeOK
<1>2. n \in 1..Len(CapsOf[c]) /\ r \in Requests /\ r \in Watched
  BY <1>1, CapsFacts DEF AllAsked
<1>3. Decide(r) /\ at' = [at EXCEPT ![c] = n] /\ outcome' = outcome
      /\ call' = [call EXCEPT ![c] = "permit"]
  BY DEF AskFor
<1>4. \A q \in Requests : answer'[q] = answer[q] /\ (q # r => stage'[q] = stage[q])
      /\ (q = r => stage[q] = "idle" /\ stage'[q] = "policy")
  BY <1>2, <1>3, DecideLeaves DEF SInv
<1>5. IInv' /\ TypeOK'
  <2>1. Next
    BY <1>2, <1>3 DEF Next
  <2> QED BY <2>1, MediatorInv DEF SInv
<1>6. Groups' /\ (\A d \in Calls : Placed(d)') /\ call'[c] = "permit"
      /\ \A d \in Calls \ {c} : call'[d] = call[d]
  BY <1>3, OneCallPlaced
<1>7. at'[c] = n /\ at' \in [Calls -> Nat] /\ \A d \in Calls \ {c} : at'[d] = at[d]
  BY <1>1, <1>3
<1>8. SchedulerTypeOK'
  <2>1. \A d \in Calls : at'[d] <= Len(CapsOf[d])
    BY <1>2, <1>7 DEF SInv, SchedulerTypeOK
  <2> QED BY <1>3, <1>5, <1>7, <2>1 DEF SInv, SchedulerTypeOK
<1> HIDE DEF n, r
<1>9. ASSUME NEW d \in Calls \ {c} PROVE Questions(d)'
  <2>1. \A i \in 1..Len(CapsOf[d]) : CapsOf[d][i] \in Requests /\ CapsOf[d][i] # r
    BY <1>2, CapsFacts DEF r
  <2> QED BY <1>3, <1>4, <1>6, <1>7, <2>1, QuestionsKept
<1>10. Questions(c)'
  <2>1. outcome[c] = "none" /\ ~HasExecuted(c)'
    BY <1>1, <1>3, <1>6 DEF Questions, HasExecuted, Executed
  <2>2. ASSUME NEW i \in 1..Len(CapsOf[c])
        PROVE  /\ i > n => stage'[CapsOf[c][i]] = "idle"
               /\ i <= n => stage'[CapsOf[c][i]] # "idle"
               /\ i <= n /\ i < n => stage'[CapsOf[c][i]] = "settled"
               /\ i <= n /\ i < n => answer'[CapsOf[c][i]] = "allow"
    <3>1. CapsOf[c][i] \in Requests /\ (i # n => CapsOf[c][i] # r)
      BY <1>2, CapsFacts DEF r
    <3>2. CASE i = n
      BY <1>2, <1>4, <3>2 DEF r
    <3>3. CASE i < n
      <4>1. i \in 1..at[c]
        BY <1>1, <3>3 DEF n
      <4> QED BY <1>1, <1>2, <1>4, <3>1, <3>3, <4>1
    <3>4. CASE i > n
      <4>1. stage[CapsOf[c][i]] = "idle"
        BY <1>1, <3>4 DEF n, Questions
      <4> QED BY <1>1, <1>2, <1>4, <3>1, <3>4, <4>1
    <3> QED BY <1>1, <1>2, <3>2, <3>3, <3>4
  <2>3. n >= 1
    BY <1>2
  <2> QED BY <1>3, <1>6, <1>7, <2>1, <2>2, <2>3 DEF Questions
<1>11. Elsewhere'
  <2>1. \A q \in Watched : stage'[q] # "idle" =>
          stage[q] # "idle" \/ \E d \in Calls : \E i \in 1..Len(CapsOf[d]) : CapsOf[d][i] = q
    BY <1>2, <1>4, MediatorAssumption DEF r
  <2> QED BY <2>1, ElsewhereKept
<1> QED BY <1>5, <1>6, <1>8, <1>9, <1>10, <1>11 DEF SInv

LEMMA ProceedInv ==
  ASSUME SInv, NEW c \in Calls, call[c] \in {"hook", "permit"}, c \notin OverMode,
         Proceed(c), UNCHANGED <<batch, upto, reported>>,
         \A i \in 1..at[c] : stage[CapsOf[c][i]] = "settled" /\ answer[CapsOf[c][i]] = "allow"
  PROVE  SInv'
<1>1. CASE ~AllAsked(c)
  BY <1>1, AskForInv DEF Proceed
<1>2. CASE AllAsked(c)
  <2>1. Execute(c) /\ at[c] = Len(CapsOf[c]) /\ UNCHANGED <<mediatorVars, at>>
    BY <1>2 DEF Proceed, AllAsked, Execute
  <2>2. \A i \in 1..Len(CapsOf[c]) : answer[CapsOf[c][i]] = "allow"
    BY <2>1
  <2>3. Questions(c) /\ outcome \in [Calls -> Outcomes] /\ outcome[c] = "none"
    BY DEF SInv, SchedulerTypeOK, Questions
  <2>4. call[c] = "permit" => stage[CapsOf[c][at[c]]] = "settled"
    <3>1. call[c] = "permit" => at[c] \in 1..at[c]
      BY <2>3 DEF SInv, SchedulerTypeOK, Questions
    <3> QED BY <3>1
  <2>5. CASE MayExecute
    <3>1. call' = [call EXCEPT ![c] = "tool"] /\ outcome' = [outcome EXCEPT ![c] = "none"]
      BY <2>1, <2>3, <2>5 DEF Execute
    <3>2. "tool" \in {"tool", "after", "done"} /\ "none" \in Outcomes
      BY DEF Outcomes
    <3> QED BY <2>1, <2>2, <2>4, <3>1, <3>2, CallStepInv
  <2>6. CASE ~MayExecute
    <3>1. call' = [call EXCEPT ![c] = "done"] /\ outcome' = [outcome EXCEPT ![c] = "aborted"]
      BY <2>1, <2>6 DEF Execute, Finish
    <3>2. "done" \in {"tool", "after", "done"} /\ "aborted" \in Outcomes /\ "aborted" \notin Executed
      BY DEF Outcomes, Executed
    <3> QED BY <2>1, <2>2, <2>4, <3>1, <3>2, CallStepInv
  <2> QED BY <2>5, <2>6
<1> QED BY <1>1, <1>2

LEMMA HookReturnsInv == ASSUME SInv, NEW c \in Calls, HookReturns(c) PROVE SInv'
<1>1. at[c] = 0 /\ at[c] \in Nat
  BY DEF HookReturns, SInv, Questions
<1>2. 1..at[c] = {}
  BY <1>1
<1> QED BY <1>2, ProceedInv DEF HookReturns

LEMMA PermitGrantedInv == ASSUME SInv, NEW c \in Calls, PermitGranted(c) PROVE SInv'
<1>1. Questions(c) /\ call[c] = "permit" /\ at[c] \in Nat /\ at[c] <= Len(CapsOf[c])
      /\ Len(CapsOf[c]) \in Nat
  BY LenNat DEF PermitGranted, SInv, SchedulerTypeOK
<1>2. stage[CapsOf[c][at[c]]] = "settled" /\ answer[CapsOf[c][at[c]]] = "allow"
  BY DEF PermitGranted, Granted, Asked
<1>3. \A i \in 1..at[c] : stage[CapsOf[c][i]] = "settled" /\ answer[CapsOf[c][i]] = "allow"
  BY <1>1, <1>2 DEF Questions
<1>4. c \notin OverMode
  BY <1>1 DEF Questions
<1> QED BY <1>1, <1>3, <1>4, ProceedInv DEF PermitGranted

\* A call that ends without having executed anything.
LEMMA CallEndsInv ==
  ASSUME SInv, UNCHANGED <<mediatorVars, batch, upto, reported, at>>,
         NEW c \in Calls, call[c] \in {"hook", "permit"},
         call[c] = "permit" => stage[CapsOf[c][at[c]]] = "settled",
         NEW o \in {"invalid", "refused", "denied"}, Finish(c, o)
  PROVE  SInv'
<1>1. o \in Outcomes /\ o \notin Executed /\ "done" \in {"tool", "after", "done"}
  BY DEF Outcomes, Executed
<1>2. call' = [call EXCEPT ![c] = "done"] /\ outcome' = [outcome EXCEPT ![c] = o]
  BY DEF Finish
<1> QED BY <1>1, <1>2, CallStepInv

\* A call whose tool has been entered.
LEMMA ToolStepInv ==
  ASSUME SInv, UNCHANGED <<mediatorVars, batch, upto, reported, at>>,
         NEW c \in Calls, call[c] \in {"tool", "after"},
         NEW x \in {"after", "done"}, call' = [call EXCEPT ![c] = x],
         NEW o \in Executed, outcome' = [outcome EXCEPT ![c] = o]
  PROVE  SInv'
<1>1. HasExecuted(c) /\ Questions(c) /\ at[c] \in Nat /\ Len(CapsOf[c]) \in Nat
  BY LenNat DEF HasExecuted, SInv, SchedulerTypeOK
<1>2. at[c] = Len(CapsOf[c]) /\ c \notin OverMode
      /\ \A i \in 1..Len(CapsOf[c]) : answer[CapsOf[c][i]] = "allow"
  BY <1>1 DEF Questions
<1>3. o \in Outcomes
  BY DEF Outcomes
<1> QED BY <1>2, <1>3, CallStepInv

LEMMA OneCallInv == ASSUME SInv, NEW c \in Calls, CallStep(c) PROVE SInv'
<1>1. CASE HookReturns(c)
  BY <1>1, HookReturnsInv
<1>2. CASE ModeDenies(c)
  BY <1>2, CallEndsInv DEF ModeDenies
<1>3. CASE HookRejects(c)
  BY <1>3, CallEndsInv DEF HookRejects
<1>4. CASE PermitGranted(c)
  BY <1>4, PermitGrantedInv
<1>5. CASE PermitDenied(c)
  BY <1>5, CallEndsInv DEF PermitDenied, Asked
<1>6. ASSUME NEW o \in Executed, ToolReturns(c, o) PROVE SInv'
  BY <1>6, ToolStepInv DEF ToolReturns
<1>7. CASE ToolThrows(c)
  BY <1>7, ToolStepInv DEF ToolThrows, Finish, Executed
<1>8. CASE AfterTool(c)
  <2>1. call[c] = "after" /\ outcome[c] \in Executed
    BY <1>8 DEF AfterTool, SInv, Questions
  <2>2. PICK o \in Executed : Finish(c, o)
    BY <1>8, <2>1 DEF AfterTool, Executed
  <2> QED BY <1>8, <2>1, <2>2, ToolStepInv DEF AfterTool, Finish
<1> QED BY <1>1, <1>2, <1>3, <1>4, <1>5, <1>6, <1>7, <1>8 DEF CallStep

\* The loop goes on after call upto, all calls so far being done.
LEMMA LoopHeadInv ==
  ASSUME SInv, LoopHead(upto + 1), UNCHANGED <<mediatorVars, at>>, reported' = upto,
         batch # "returned", \A c \in Calls : c <= upto => call[c] = "done"
  PROVE  SInv'
<1>1. IInv' /\ TypeOK'
  BY MediatorInv DEF SInv
<1>2. stage' = stage /\ answer' = answer
  BY DEF mediatorVars, callVars
<1>3. Elsewhere'
  BY <1>2, ElsewhereKept
<1>4. \A c \in Calls : c \in Nat /\ c >= 1 /\ c <= N
  BY SchedulerAssumption DEF Calls
<1>5. CASE batch' = "returned" /\ UNCHANGED <<upto, call, outcome>>
  <2>1. SchedulerTypeOK'
    BY <1>1, <1>5 DEF SInv, SchedulerTypeOK
  <2>2. Groups' /\ \A c \in Calls : Placed(c)'
    BY <1>4, <1>5, Typed DEF SInv, Groups, Placed
  <2>3. ASSUME NEW c \in Calls PROVE Questions(c)'
    BY <1>2, <1>5, QuestionsKept
  <2> QED BY <1>1, <1>3, <2>1, <2>2, <2>3 DEF SInv
<1>6. ASSUME NEW j \in upto + 1..N, EndsGroup(upto + 1, j), StartGroup(upto + 1, j),
             batch' = "running"
      PROVE  SInv'
  <2>1. upto' = j /\ j \in Nat /\ upto < j /\ j <= N
    BY <1>6, Typed DEF StartGroup
  <2>2. \A c \in Calls :
          /\ c \notin upto + 1..j => call'[c] = call[c] /\ outcome'[c] = outcome[c]
          /\ c \in upto + 1..j => \/ call'[c] = "done" /\ outcome'[c] = "invalid"
                                  \/ call'[c] = "hook" /\ outcome'[c] = outcome[c]
    BY <1>6 DEF StartGroup
  <2>3. call' \in [Calls -> {"waiting", "hook", "permit", "tool", "after", "done"}]
        /\ outcome' \in [Calls -> Outcomes]
    <3>1. call' = [c \in Calls |-> call'[c]] /\ outcome' = [c \in Calls |-> outcome'[c]]
      BY <1>6 DEF StartGroup
    <3>2. \A c \in Calls : call'[c] \in {"waiting", "hook", "permit", "tool", "after", "done"}
                         /\ outcome'[c] \in Outcomes
      BY <2>2 DEF SInv, SchedulerTypeOK, Outcomes
    <3> QED BY <3>1, <3>2
  <2>4. SchedulerTypeOK'
    BY <1>1, <1>6, <2>1, <2>3, Typed DEF SInv, SchedulerTypeOK
  <2>5. Groups'
    <3>1. j = upto + 1 \/ upto + 1..j \subseteq Safe
      BY <1>6 DEF EndsGroup
    <3> QED BY <1>6, <2>1, <3>1, Typed DEF Groups
  <2>6. \A c \in Calls : Placed(c)'
    <3> SUFFICES ASSUME NEW c \in Calls PROVE Placed(c)'
      OBVIOUS
    <3>1. Placed(c)
      BY DEF SInv
    <3> QED BY <1>4, <2>1, <2>2, <3>1, Typed DEF Placed
  <2>7. ASSUME NEW c \in Calls PROVE Questions(c)'
    <3>1. CASE c \notin upto + 1..j
      BY <1>2, <2>2, <3>1, QuestionsKept
    <3>2. CASE c \in upto + 1..j
      <4>1. call[c] = "waiting"
        BY <1>4, <2>1, <3>2, Typed DEF SInv, Placed
      <4>2. at[c] = 0 /\ outcome[c] = "none"
        BY <4>1 DEF SInv, Questions
      <4>3. \A i \in 1..Len(CapsOf[c]) : stage[CapsOf[c][i]] = "idle"
        BY <4>1, <4>2, LenNat DEF SInv, Questions
      <4>4. call'[c] \in {"hook", "done"} /\ ~HasExecuted(c)' /\ (call'[c] = "hook" => outcome'[c] = "none")
        BY <2>2, <3>2, <4>2 DEF HasExecuted, Executed
      <4>5. at'[c] = 0
        BY <4>2
      <4> QED BY <1>2, <4>3, <4>4, <4>5, LenNat DEF Questions
    <3> QED BY <3>1, <3>2
  <2> QED BY <1>1, <1>3, <2>4, <2>5, <2>6, <2>7 DEF SInv
<1> QED BY <1>5, <1>6 DEF LoopHead

LEMMA BatchStepInv == ASSUME SInv, StartBatch \/ GroupReturns PROVE SInv'
<1>1. CASE StartBatch
  <2>1. upto = 0 /\ reported = 0 /\ 1 = upto + 1
    BY <1>1, Typed DEF StartBatch, SInv, Groups
  <2>2. LoopHead(upto + 1)
    BY <1>1, <2>1 DEF StartBatch
  <2>3. \A c \in Calls : ~(c <= upto)
    BY <2>1, SchedulerAssumption DEF Calls
  <2> QED BY <1>1, <2>1, <2>2, <2>3, LoopHeadInv DEF StartBatch
<1>2. CASE GroupReturns
  <2>1. \A c \in Calls : c <= upto => call[c] = "done"
    <3> SUFFICES ASSUME NEW c \in Calls, c <= upto PROVE call[c] = "done"
      OBVIOUS
    <3>1. c \in Nat
      BY SchedulerAssumption DEF Calls
    <3>2. CASE c <= reported
      BY <3>2 DEF SInv, Placed
    <3>3. CASE c > reported
      BY <1>2, <3>1, <3>3, Typed DEF GroupReturns, GroupDone
    <3> QED BY <3>1, <3>2, <3>3, Typed
  <2> QED BY <1>2, <2>1, LoopHeadInv DEF GroupReturns
<1> QED BY <1>1, <1>2

LEMMA SchedulerNextInv == SInv /\ [SchedulerNext]_allVars => SInv'
<1> SUFFICES ASSUME SInv, [SchedulerNext]_allVars PROVE SInv'
  OBVIOUS
<1>1. ASSUME NEW c \in Calls, NEW r \in InnerOf[c], ToolAsks(c, r) PROVE SInv'
  BY <1>1, ToolAsksInv
<1>2. CASE UNCHANGED allVars
  <2>1. IInv' /\ TypeOK'
    BY <1>2, MediatorInv DEF allVars, SInv
  <2> QED BY <1>2, <2>1 DEF allVars, schedulerVars, mediatorVars, callVars, SInv,
       SchedulerTypeOK, Groups, Placed, Questions, HasExecuted, Elsewhere
<1> QED BY <1>1, <1>2, BatchStepInv, OneCallInv, MediatorStepInv DEF SchedulerNext

LEMMA SchedulerInvariance == SchedulerSpec => []SInv
BY SchedulerInitInv, SchedulerNextInv, PTL DEF SchedulerSpec

-----------------------------------------------------------------------------
(* The results. *)

\* Every variable of the scheduler, and of the mediator under it, keeps its type.
THEOREM SchedulerTypeCorrect == SchedulerSpec => []SchedulerTypeOK
BY SchedulerInvariance, PTL DEF SInv

\* No tool body is entered without the grant of every capability of its call.
THEOREM ExecutionIsPermitted == SchedulerSpec => []ExecutedIsPermitted
<1>1. SInv => ExecutedIsPermitted
  <2> SUFFICES ASSUME SInv, NEW c \in Calls, HasExecuted(c), NEW i \in DOMAIN CapsOf[c]
               PROVE  /\ c \notin OverMode
                      /\ answer[CapsOf[c][i]] = "allow"
                      /\ \/ verdict[CapsOf[c][i]] = "allow"
                         \/ Consented(CapsOf[c][i])
    <3>1. SInv => \A c \in Calls : HasExecuted(c) => c \notin OverMode
      BY DEF SInv, Questions
    <3> QED BY <3>1 DEF ExecutedIsPermitted
  <2>1. i \in 1..Len(CapsOf[c])
    BY SchedulerAssumption DEF Calls
  <2> DEFINE r == CapsOf[c][i]
  <2>2. r \in Requests
    BY <2>1, CapsFacts
  <2>3. Questions(c) /\ at[c] \in Nat /\ Len(CapsOf[c]) \in Nat
    BY LenNat DEF SInv, SchedulerTypeOK
  <2>4. answer[r] = "allow" /\ stage[r] = "settled" /\ c \notin OverMode
    <3>1. at[c] = Len(CapsOf[c]) /\ c \notin OverMode /\ call[c] # "permit"
      BY <2>3 DEF Questions, HasExecuted, Executed
    <3> QED BY <2>1, <2>3, <3>1 DEF Questions
  <2> HIDE DEF r
  <2>5. verdict[r] = "allow" \/ Consented(r)
    <3>1. Settled(r) /\ Recorded(r)
      BY <2>2 DEF SInv, IInv
    <3> QED BY <2>4, <3>1 DEF Settled, Recorded
  <2> QED BY <2>4, <2>5 DEF r
<1> QED BY <1>1, SchedulerInvariance, PTL

\* No question outlives its call.
THEOREM QuestionsBelongToCalls == SchedulerSpec => []NoOrphanQuestion
<1>1. SInv => NoOrphanQuestion
  <2> SUFFICES ASSUME SInv, NEW r \in Watched, Pending(r)
               PROVE  batch = "running"
                      /\ \E c \in reported + 1..upto : call[c] = "permit" /\ Asked(c) = r
    BY DEF NoOrphanQuestion
  <2>1. stage[r] = "asked"
    BY PendingIsOpen, MediatorAssumption DEF SInv
  <2>2. PICK c \in Calls : \E i \in 1..Len(CapsOf[c]) : CapsOf[c][i] = r
    BY <2>1 DEF SInv, Elsewhere
  <2>3. PICK i \in 1..Len(CapsOf[c]) : CapsOf[c][i] = r
    BY <2>2
  <2>4. Questions(c) /\ at[c] \in Nat /\ i \in Nat
    BY DEF SInv, SchedulerTypeOK
  <2>5. i = at[c] /\ call[c] = "permit"
    BY <2>1, <2>3, <2>4 DEF Questions
  <2>6. reported < c /\ c <= upto /\ batch = "running" /\ c \in Nat
    BY <2>5, InFlightIsInGroup, SchedulerAssumption DEF Calls
  <2> QED BY <2>3, <2>5, <2>6, Typed DEF Asked
<1> QED BY <1>1, SchedulerInvariance, PTL

\* Only safe calls overlap, and a returned batch leaves nothing behind.
THEOREM UnsafeCallsRunAlone == SchedulerSpec => []UnsafeAlone
<1>1. SInv => UnsafeAlone
  <2> SUFFICES ASSUME SInv PROVE UnsafeAlone
    OBVIOUS
  <2>1. ASSUME NEW c \in Calls, NEW d \in Calls, InFlight(c), InFlight(d), c < d
        PROVE  c..d \subseteq Safe
    <3>1. reported < c /\ c <= upto /\ reported < d /\ d <= upto /\ c \in Nat /\ d \in Nat
      BY <2>1, InFlightIsInGroup, SchedulerAssumption DEF InFlight, Calls
    <3>2. reported + 1..upto \subseteq Safe
      BY <2>1, <3>1, Typed DEF SInv, Groups
    <3> QED BY <3>1, <3>2, Typed
  <2>2. ASSUME NEW c \in Calls, batch = "returned" PROVE ~InFlight(c)
    BY <2>2, InFlightIsInGroup DEF InFlight
  <2> QED BY <2>1, <2>2 DEF UnsafeAlone
<1> QED BY <1>1, SchedulerInvariance, PTL

-----------------------------------------------------------------------------
(* A returned batch is whole. *)

\* A call that is done has an outcome, and a batch that has returned had no call left or no run.
Whole ==
  /\ \A c \in Calls : call[c] = "done" => outcome[c] # "none"
  /\ batch = "returned" => RunAborted \/ reported = N

\* A finished call has an outcome, and the others keep theirs.
LEMMA FinishKeeps ==
  ASSUME SInv, Whole, NEW c \in Calls, NEW o, o # "none", Finish(c, o), UNCHANGED <<batch, reported>>,
         RunAborted' = RunAborted
  PROVE  Whole'
<1>1. \A d \in Calls : outcome'[d] = IF d = c THEN o ELSE outcome[d]
  BY DEF Finish, SInv, SchedulerTypeOK
<1>2. \A d \in Calls : call'[d] = IF d = c THEN "done" ELSE call[d]
  BY DEF Finish, SInv, SchedulerTypeOK
<1> QED BY <1>1, <1>2 DEF Whole

\* So does a call that goes on.
LEMMA GoesOnKeeps ==
  ASSUME SInv, Whole, NEW c \in Calls, NEW x, x # "done", call' = [call EXCEPT ![c] = x],
         \A d \in Calls \ {c} : outcome'[d] = outcome[d], UNCHANGED <<batch, reported>>,
         RunAborted' = RunAborted
  PROVE  Whole'
<1>1. \A d \in Calls : call'[d] = IF d = c THEN x ELSE call[d]
  BY DEF SInv, SchedulerTypeOK
<1> QED BY <1>1 DEF Whole

LEMMA CallStepWhole ==
  ASSUME SInv, Whole, NEW c \in Calls, CallStep(c)
  PROVE  Whole'
<1>1. UNCHANGED <<batch, upto, reported>>
  BY DEF CallStep, HookReturns, ModeDenies, HookRejects, PermitGranted, PermitDenied,
         ToolReturns, ToolThrows, AfterTool
<1>2. RunAborted' = RunAborted
  BY DEF CallStep, HookReturns, ModeDenies, HookRejects, PermitGranted, PermitDenied, Proceed,
         Execute, AskFor, Decide, ToolReturns, ToolThrows, AfterTool, RunAborted,
         mediatorVars
<1>3. CASE ModeDenies(c) \/ HookRejects(c) \/ PermitDenied(c) \/ ToolThrows(c)
  <2>1. PICK o \in {"denied", "refused", "invalid", "failed"} : Finish(c, o)
    BY <1>3 DEF ModeDenies, HookRejects, PermitDenied, ToolThrows
  <2> QED BY <1>1, <1>2, <2>1, FinishKeeps
<1>4. CASE AfterTool(c)
  <2>1. outcome[c] \in Executed
    BY <1>4 DEF AfterTool, SInv, Questions
  <2>2. PICK o \in {outcome[c], "failed"} : Finish(c, o)
    BY <1>4 DEF AfterTool
  <2>3. o # "none"
    BY <2>1, <2>2 DEF Executed
  <2> QED BY <1>1, <1>2, <2>2, <2>3, FinishKeeps
<1>5. CASE HookReturns(c) \/ PermitGranted(c)
  <2>1. Execute(c) \/ AskFor(c)
    BY <1>5 DEF HookReturns, PermitGranted, Proceed
  <2>2. CASE Finish(c, "aborted")
    BY <1>1, <1>2, <2>2, FinishKeeps
  <2>3. CASE ~Finish(c, "aborted")
    <3>1. PICK x \in {"tool", "permit"} : call' = [call EXCEPT ![c] = x] /\ outcome' = outcome
      BY <2>1, <2>3 DEF Execute, AskFor
    <3> QED BY <1>1, <1>2, <3>1, GoesOnKeeps
  <2> QED BY <2>2, <2>3
<1>6. ASSUME NEW o \in Executed, ToolReturns(c, o) PROVE Whole'
  <2>1. call' = [call EXCEPT ![c] = "after"] /\ outcome' = [outcome EXCEPT ![c] = o]
    BY <1>6 DEF ToolReturns
  <2>2. \A d \in Calls \ {c} : outcome'[d] = outcome[d]
    BY <2>1 DEF SInv, SchedulerTypeOK
  <2> QED BY <1>1, <1>2, <2>1, <2>2, GoesOnKeeps
<1> QED BY <1>3, <1>4, <1>5, <1>6 DEF CallStep

\* A group starts with calls that have no outcome yet, or an invalid input; the batch returns when
\* every call has been in a group or the run was aborted.
LEMMA LoopWhole ==
  ASSUME SInv, Whole, StartBatch \/ GroupReturns
  PROVE  Whole'
<1>1. LoopHead(upto + 1) /\ reported' = upto /\ batch # "returned" /\ UNCHANGED mediatorVars
  <2>1. CASE StartBatch
    <3>1. upto = 0 /\ reported = 0 /\ 1 = upto + 1
      BY <2>1, Typed DEF StartBatch, SInv, Groups
    <3> QED BY <2>1, <3>1 DEF StartBatch
  <2>2. CASE GroupReturns
    BY <2>2 DEF GroupReturns
  <2> QED BY <2>1, <2>2
<1>2. RunAborted' = RunAborted
  BY <1>1 DEF mediatorVars, RunAborted
<1>3. CASE batch' = "returned" /\ UNCHANGED <<upto, call, outcome>> /\ ~(upto + 1 <= N /\ ~RunAborted)
  <2>1. upto = N \/ RunAborted
    BY <1>3, Typed
  <2> QED BY <1>1, <1>2, <1>3, <2>1 DEF Whole
<1>4. ASSUME NEW j \in upto + 1..N, StartGroup(upto + 1, j), batch' = "running"
      PROVE  Whole'
  <2>1. ASSUME NEW c \in Calls, call'[c] = "done" PROVE outcome'[c] # "none"
    BY <1>4, <2>1 DEF StartGroup, Whole
  <2> QED BY <1>4, <2>1 DEF Whole
<1> QED BY <1>1, <1>3, <1>4 DEF LoopHead

LEMMA MediatorStepWhole ==
  ASSUME SInv, Whole, MediatorStep \/ (\E c \in Calls : \E r \in InnerOf[c] : ToolAsks(c, r))
                                   \/ UNCHANGED allVars
  PROVE  Whole'
<1>1. UNCHANGED schedulerVars
  BY DEF MediatorStep, ToolAsks, allVars
<1>2. aborted \subseteq aborted'
  BY DEF MediatorStep, ToolAsks, allVars, mediatorVars, callVars, mapVars, ruleVars, Decide,
         DecideWithoutAsking, Ask, Timeout, AskAnsweredInline, Respond, RespondUnsaved, Abort
<1>3. RunAborted => RunAborted'
  BY <1>2 DEF RunAborted
<1> QED BY <1>1, <1>3 DEF schedulerVars, Whole

(* What executeBatch returns (src/core/tools/scheduler.ts) has an outcome for   *)
(* every call that started, and leaves calls out only when the run was aborted: *)
(* on this AgentRun relies when it pairs every call of an answer with a result. *)
THEOREM BatchIsWhole == SchedulerSpec => []ReturnedWhole
<1>1. SchedulerInit => Whole
  BY DEF SchedulerInit, Whole
<1>2. SInv /\ Whole /\ [SchedulerNext]_allVars => Whole'
  BY CallStepWhole, LoopWhole, MediatorStepWhole DEF SchedulerNext
<1>3. SInv /\ Whole => ReturnedWhole
  <2> SUFFICES ASSUME SInv, Whole, batch = "returned", NEW c \in 1..reported
               PROVE  call[c] = "done" /\ outcome[c] # "none"
    BY DEF Whole, ReturnedWhole
  <2>1. c \in Calls /\ c <= reported
    BY Typed DEF Calls
  <2> QED BY <2>1 DEF SInv, Placed, Whole
<1> QED BY <1>1, <1>2, <1>3, SchedulerInvariance, PTL DEF SchedulerSpec

-----------------------------------------------------------------------------
(* The scheduler implements ToolBatch. *)

LEMMA InitRefines == SchedulerInit => Batch!Init
BY SchedulerAssumption DEF SchedulerInit, Init, Batch!Init, HasExecuted, Calls, RunAborted, Executed

\* A step that changes no call's state and does not abort the run is a stutter;
\* a call's step enters at most that call's tool.
LEMMA CallStepRefines ==
  ASSUME SInv, NEW c \in Calls, CallStep(c)
  PROVE  [Batch!Next]_(Batch!batchVars)
<1> DEFINE E == {d \in Calls : HasExecuted(d)}
<1>1. UNCHANGED <<batch, upto, reported>>
  BY DEF CallStep, HookReturns, ModeDenies, HookRejects, PermitGranted, PermitDenied,
         ToolReturns, ToolThrows, AfterTool
<1>2. RunAborted' = RunAborted
  BY DEF CallStep, HookReturns, ModeDenies, HookRejects, PermitGranted, PermitDenied, Proceed,
         Execute, AskFor, Decide, ToolReturns, ToolThrows, AfterTool, RunAborted,
         mediatorVars
<1>3. call[c] \notin {"waiting", "done"} /\ outcome \in [Calls -> Outcomes]
      /\ call \in [Calls -> {"waiting", "hook", "permit", "tool", "after", "done"}]
  BY DEF CallStep, HookReturns, ModeDenies, HookRejects, PermitGranted, PermitDenied,
         ToolReturns, ToolThrows, AfterTool, SInv, SchedulerTypeOK
<1>4. reported < c /\ c <= upto /\ batch = "running" /\ c \in Nat
  BY <1>3, InFlightIsInGroup, SchedulerAssumption DEF Calls
<1>5. \A d \in Calls \ {c} : call'[d] = call[d] /\ outcome'[d] = outcome[d]
  BY <1>3 DEF CallStep, HookReturns, ModeDenies, HookRejects, PermitGranted, PermitDenied, Proceed,
         Execute, AskFor, ToolReturns, ToolThrows, AfterTool, Finish
<1>6. HasExecuted(c) => HasExecuted(c)'
  <2>1. HasExecuted(c) => call[c] \in {"tool", "after"}
    BY <1>3 DEF SInv, Questions, HasExecuted, Executed
  <2>2. call[c] = "after" => outcome[c] \in Executed
    BY DEF SInv, Questions
  <2> QED BY <1>3, <2>1, <2>2 DEF CallStep, HookReturns, ModeDenies, HookRejects, PermitGranted,
        PermitDenied, ToolReturns, ToolThrows, AfterTool, Finish, HasExecuted, Executed
<1>7. ~HasExecuted(c) /\ HasExecuted(c)' => ~RunAborted
  <2>1. ~HasExecuted(c) => call[c] \notin {"tool", "after"}
    BY DEF HasExecuted
  <2>2. call[c] \in {"hook", "permit"} => outcome[c] = "none"
    BY DEF SInv, Questions
  <2> QED BY <1>3, <2>1, <2>2 DEF CallStep, HookReturns, ModeDenies, HookRejects, PermitGranted,
        PermitDenied, ToolReturns, ToolThrows, AfterTool, Finish, Proceed, Execute, AskFor,
        MayExecute, HasExecuted, Executed
<1>8. \A d \in Calls \ {c} : HasExecuted(d)' <=> HasExecuted(d)
  BY <1>5 DEF HasExecuted
<1>9. CASE HasExecuted(c)' <=> HasExecuted(c)
  <2>1. E' = E
    BY <1>8, <1>9
  <2> QED BY <1>1, <1>2, <2>1 DEF Batch!batchVars
<1>10. CASE ~HasExecuted(c) /\ HasExecuted(c)'
  <2>1. E' = E \cup {c} /\ c \notin E
    BY <1>8, <1>10
  <2>2. Batch!Execute(c)
    BY <1>1, <1>2, <1>4, <1>7, <1>10, <2>1 DEF Batch!Execute
  <2> QED BY <1>4, <2>2, Typed DEF Batch!Next
<1> QED BY <1>6, <1>9, <1>10

LEMMA LoopRefines ==
  ASSUME SInv, StartBatch \/ GroupReturns
  PROVE  [Batch!Next]_(Batch!batchVars)
<1> DEFINE E == {d \in Calls : HasExecuted(d)}
<1>1. LoopHead(upto + 1) /\ reported' = upto /\ batch # "returned" /\ UNCHANGED mediatorVars
  <2>1. CASE StartBatch
    <3>1. upto = 0 /\ reported = 0 /\ 1 = upto + 1
      BY <2>1, Typed DEF StartBatch, SInv, Groups
    <3> QED BY <2>1, <3>1 DEF StartBatch
  <2>2. CASE GroupReturns
    BY <2>2 DEF GroupReturns
  <2> QED BY <2>1, <2>2
<1>2. RunAborted' = RunAborted
  BY <1>1 DEF mediatorVars, RunAborted
<1>3. \A c \in Calls : c \in Nat
  BY SchedulerAssumption DEF Calls
<1>4. CASE batch' = "returned" /\ UNCHANGED <<upto, call, outcome>> /\ ~(upto + 1 <= N /\ ~RunAborted)
  <2>1. E' = E
    BY <1>4 DEF HasExecuted
  <2>2. upto = N \/ RunAborted
    BY <1>4, Typed
  <2>3. Batch!Return
    BY <1>1, <1>2, <1>4, <2>1, <2>2 DEF Batch!Return
  <2> QED BY <2>3 DEF Batch!Next
<1>5. ASSUME NEW j \in upto + 1..N, EndsGroup(upto + 1, j), StartGroup(upto + 1, j),
             batch' = "running", ~RunAborted
      PROVE  Batch!Advance(j) /\ j \in 1..N
  <2>1. \A c \in Calls :
          /\ c \notin upto + 1..j => call'[c] = call[c] /\ outcome'[c] = outcome[c]
          /\ c \in upto + 1..j => \/ call'[c] = "done" /\ outcome'[c] = "invalid"
                                  \/ call'[c] = "hook" /\ outcome'[c] = outcome[c]
    BY <1>5 DEF StartGroup
  <2>2. \A c \in Calls : c \in upto + 1..j => call[c] = "waiting" /\ outcome[c] = "none"
    BY <1>3, Typed DEF SInv, Placed, Questions
  <2>3. \A c \in Calls : HasExecuted(c)' <=> HasExecuted(c)
    BY <2>1, <2>2 DEF HasExecuted, Executed
  <2>4. E' = E
    BY <2>3
  <2>5. upto' = j /\ upto < j /\ j \in 1..N
    BY <1>5, Typed DEF StartGroup
  <2>6. Batch!MayOverlap(upto + 1, j)
    BY <1>5 DEF EndsGroup, Batch!MayOverlap
  <2> QED BY <1>1, <1>2, <1>5, <2>4, <2>5, <2>6 DEF Batch!Advance
<1> QED BY <1>1, <1>4, <1>5 DEF LoopHead, Batch!Next

LEMMA MediatorStepRefines ==
  ASSUME SInv, MediatorStep \/ (\E c \in Calls : \E r \in InnerOf[c] : ToolAsks(c, r))
                            \/ UNCHANGED allVars
  PROVE  [Batch!Next]_(Batch!batchVars)
<1> DEFINE E == {d \in Calls : HasExecuted(d)}
<1>1. UNCHANGED schedulerVars
  BY DEF MediatorStep, ToolAsks, allVars
<1>2. E' = E /\ batch' = batch /\ upto' = upto /\ reported' = reported
  BY <1>1 DEF schedulerVars, HasExecuted
<1>3. aborted \subseteq aborted'
  BY DEF MediatorStep, ToolAsks, allVars, mediatorVars, callVars, mapVars, ruleVars, Decide,
         DecideWithoutAsking, Ask, Timeout, AskAnsweredInline, Respond, RespondUnsaved, Abort
<1>4. CASE RunAborted' = RunAborted
  BY <1>2, <1>4 DEF Batch!batchVars
<1>5. CASE RunAborted' # RunAborted
  <2>1. ~RunAborted /\ RunAborted'
    BY <1>3, <1>5 DEF RunAborted
  <2>2. Batch!Stop
    BY <1>2, <2>1 DEF Batch!Stop
  <2> QED BY <2>2 DEF Batch!Next
<1> QED BY <1>4, <1>5

\* Every batch the scheduler runs is a batch as ToolBatch promises it.
THEOREM SchedulerImplementsBatch == SchedulerSpec => ImplementsBatch
<1>1. SInv /\ [SchedulerNext]_allVars => [Batch!Next]_(Batch!batchVars)
  BY CallStepRefines, LoopRefines, MediatorStepRefines DEF SchedulerNext
<1> QED BY <1>1, InitRefines, SchedulerInvariance, PTL DEF SchedulerSpec, ImplementsBatch, Batch!Spec
-----------------------------------------------------------------------------
(* Liveness: the questions of a call come to an end, one by one. *)

\* A step of the batch is one of the mediator's, or leaves the mediator alone.
LEMMA StepOfTheMediator ==
  ASSUME SInv, [SchedulerNext]_allVars
  PROVE  [Next]_mediatorVars
<1>1. CASE MediatorStep
  BY <1>1 DEF MediatorStep, Next
<1>2. ASSUME NEW c \in Calls, NEW r \in InnerOf[c], ToolAsks(c, r) PROVE [Next]_mediatorVars
  <2>1. r \in Requests
    BY <1>2, SchedulerAssumption DEF Calls
  <2> QED BY <1>2, <2>1 DEF ToolAsks, Next
<1>3. ASSUME NEW c \in Calls, CallStep(c) PROVE [Next]_mediatorVars
  <2>1. ASSUME Proceed(c) PROVE [Next]_mediatorVars
    <3>1. CASE AllAsked(c)
      BY <2>1, <3>1 DEF Proceed, Execute
    <3>2. CASE ~AllAsked(c)
      <4>1. at[c] + 1 \in 1..Len(CapsOf[c])
        BY <1>3, <3>2, LenNat DEF SInv, SchedulerTypeOK, AllAsked
      <4>2. CapsOf[c][at[c] + 1] \in Requests
        BY <1>3, <4>1, CapsFacts
      <4> QED BY <2>1, <3>2, <4>2 DEF Proceed, AskFor, Next
    <3> QED BY <3>1, <3>2
  <2> QED BY <1>3, <2>1 DEF CallStep, HookReturns, ModeDenies, HookRejects, PermitGranted, PermitDenied,
             ToolReturns, ToolThrows, AfterTool
<1>4. CASE StartBatch \/ GroupReturns
  BY <1>4 DEF StartBatch, GroupReturns
<1>5. CASE UNCHANGED allVars
  BY <1>5 DEF allVars
<1> QED BY <1>1, <1>2, <1>3, <1>4, <1>5 DEF SchedulerNext

\* Call c waits for its k-th question; it got beyond it.
AtQuestion(c, k) == call[c] = "permit" /\ at[c] = k
Beyond(c, k) == call[c] \in {"tool", "done"} \/ at[c] = k + 1

\* The question is with the policy, with a client, or settled.
AtPolicy(c, k) == AtQuestion(c, k) /\ stage[CapsOf[c][k]] = "policy"
AtClient(c, k) == AtQuestion(c, k) /\ Armed(CapsOf[c][k])
AtAnswer(c, k) == AtQuestion(c, k) /\ stage[CapsOf[c][k]] = "settled"

\* Only its own step takes a call away from its question.
LEMMA QuestionStays ==
  ASSUME SInv, NEW c \in Calls, NEW k \in Nat, AtQuestion(c, k), [SchedulerNext]_allVars, ~CallStep(c)
  PROVE  AtQuestion(c, k)'
<1>1. ASSUME NEW d \in Calls, d # c, CallStep(d) PROVE call'[c] = call[c] /\ at'[c] = at[c]
  BY <1>1 DEF SInv, SchedulerTypeOK, CallStep, HookReturns, ModeDenies, HookRejects, ToolReturns,
     ToolThrows, AfterTool, PermitGranted, PermitDenied, Proceed, Execute, AskFor, Finish
<1>2. CASE MediatorStep \/ (\E d \in Calls : \E r \in InnerOf[d] : ToolAsks(d, r)) \/ UNCHANGED allVars
  <2>1. UNCHANGED schedulerVars
    BY <1>2 DEF MediatorStep, ToolAsks, allVars
  <2> QED BY <2>1 DEF schedulerVars, AtQuestion
<1>3. CASE StartBatch \/ GroupReturns
  <2>1. batch = "running" /\ c <= upto /\ c \in Nat
    BY InFlightIsInGroup, SchedulerAssumption DEF AtQuestion, Calls
  <2>2. GroupReturns
    BY <1>3, <2>1 DEF StartBatch
  <2>3. at' = at
    BY <2>2 DEF GroupReturns
  <2>4. call'[c] = call[c]
    <3>1. ASSUME NEW j \in upto + 1..N, StartGroup(upto + 1, j) PROVE call'[c] = call[c]
      <4>1. c \notin upto + 1..j
        BY <2>1, <3>1, Typed
      <4> QED BY <3>1, <4>1 DEF StartGroup
    <3>2. (\E j \in upto + 1..N : StartGroup(upto + 1, j)) \/ call' = call
      BY <2>2 DEF GroupReturns, LoopHead
    <3> QED BY <3>1, <3>2
  <2> QED BY <2>3, <2>4 DEF AtQuestion
<1>4. call'[c] = call[c] /\ at'[c] = at[c] => AtQuestion(c, k)'
  BY DEF AtQuestion
<1> QED BY <1>1, <1>2, <1>3, <1>4 DEF SchedulerNext

\* And that step comes with the answer: the next question, the tool, or the end.
LEMMA QuestionAnswered ==
  ASSUME SInv, NEW c \in Calls, NEW k \in Nat, AtQuestion(c, k), CallStep(c)
  PROVE  stage[CapsOf[c][k]] = "settled" /\ Beyond(c, k)'
<1>1. call \in [Calls -> {"waiting", "hook", "permit", "tool", "after", "done"}] /\ at \in [Calls -> Nat]
  BY DEF SInv, SchedulerTypeOK
<1>2. call[c] = "permit" /\ at[c] = k
  BY DEF AtQuestion
<1>3. PermitGranted(c) \/ PermitDenied(c)
  BY <1>2 DEF CallStep, HookReturns, ModeDenies, HookRejects, ToolReturns, ToolThrows, AfterTool
<1>4. stage[CapsOf[c][k]] = "settled"
  BY <1>2, <1>3 DEF PermitGranted, PermitDenied, Asked
<1>5. ASSUME NEW o, Finish(c, o) PROVE Beyond(c, k)'
  BY <1>1, <1>5 DEF Finish, Beyond
<1>6. CASE PermitDenied(c)
  BY <1>4, <1>5, <1>6 DEF PermitDenied
<1>7. CASE PermitGranted(c)
  <2>1. CASE Execute(c)
    BY <1>1, <1>4, <1>5, <2>1 DEF Execute, Beyond
  <2>2. CASE AskFor(c)
    BY <1>1, <1>2, <1>4, <2>2 DEF AskFor, Beyond
  <2> QED BY <1>7, <2>1, <2>2 DEF PermitGranted, Proceed
<1> QED BY <1>3, <1>4, <1>6, <1>7

\* What the mediator does to the question meanwhile: it moves on, or it is kept.
LEMMA DecidesOrLeaves ==
  ASSUME SInv, [SchedulerNext]_allVars
  PROVE  MediatorStep \/ (\E q \in Requests : Decide(q)) \/ stage' = stage
<1>1. ASSUME NEW c \in Calls, NEW r \in InnerOf[c], ToolAsks(c, r) PROVE \E q \in Requests : Decide(q)
  BY <1>1, SchedulerAssumption DEF ToolAsks, Calls
<1>2. ASSUME NEW c \in Calls, CallStep(c) PROVE (\E q \in Requests : Decide(q)) \/ stage' = stage
  <2>1. ASSUME AskFor(c), ~AllAsked(c) PROVE \E q \in Requests : Decide(q)
    <3>1. at[c] + 1 \in 1..Len(CapsOf[c])
      BY <1>2, <2>1, LenNat DEF SInv, SchedulerTypeOK, AllAsked
    <3> QED BY <1>2, <2>1, <3>1, CapsFacts DEF AskFor
  <2> QED BY <1>2, <2>1 DEF CallStep, HookReturns, ModeDenies, HookRejects, PermitGranted, PermitDenied,
             ToolReturns, ToolThrows, AfterTool, Proceed, Execute, mediatorVars, callVars
<1> QED BY <1>1, <1>2 DEF SchedulerNext, StartBatch, GroupReturns, allVars, mediatorVars, callVars

LEMMA QuestionMoves ==
  ASSUME SInv, NEW r \in Requests, [SchedulerNext]_allVars
  PROVE  /\ stage[r] = "policy" => stage'[r] \in {"policy", "asked", "settled"}
         /\ stage[r] = "asked" => stage'[r] \in {"asked", "settled"}
         /\ stage[r] = "settled" => stage'[r] = "settled"
<1>1. TypeOK /\ IInv /\ [Next]_mediatorVars
  BY StepOfTheMediator DEF SInv, IInv
<1>2. stage[r] = "policy" => stage'[r] \in {"policy", "asked", "settled"}
  BY <1>1, PolicyStep
<1>3. stage[r] = "asked" => stage'[r] \in {"asked", "settled"}
  BY <1>1, AskedOrSettled
<1>4. stage[r] = "settled" => stage'[r] = "settled"
  <2>1. CASE MediatorStep
    BY <1>1, <2>1, MediatorStepLeaves
  <2>2. ASSUME NEW q \in Requests, Decide(q), stage[r] = "settled" PROVE stage'[r] = "settled"
    BY <1>1, <2>2, DecideLeaves
  <2>3. MediatorStep \/ (\E q \in Requests : Decide(q)) \/ stage' = stage
    BY DecidesOrLeaves
  <2> QED BY <2>1, <2>2, <2>3
<1> QED BY <1>2, <1>3, <1>4

\* The policy's answer, or its timer, moves it for sure.
LEMMA QuestionStepMoves ==
  ASSUME SInv, NEW r \in Requests, QuestionStep(r)
  PROVE  /\ stage[r] = "policy" => stage'[r] \in {"asked", "settled"}
         /\ stage[r] = "asked" => stage'[r] = "settled"
<1>1. TypeOK
  BY DEF SInv, SchedulerTypeOK
<1> QED BY <1>1 DEF TypeOK, QuestionStep, DecideWithoutAsking, Ask, Timeout, Settle

\* Every question of every call comes to its end: the policy, a client, an abort or
\* the timer answers it, and the call goes on to the next one, to its tool or to its
\* result, however the other calls, the replies and the aborts interleave. Only a
\* reply "always" that could not be saved keeps one open.
THEOREM QuestionEnds ==
  ASSUME NEW c \in Calls, NEW k \in 1..Len(CapsOf[c]), NEW r \in Requests, r = CapsOf[c][k]
  PROVE  SchedulerSpec /\ []QuestionsCanStep
           => (AtQuestion(c, k) ~> (Beyond(c, k) \/ Kept(r)))
<1>1. r \in Requests /\ k \in Nat /\ r = CapsOf[c][k]
  OBVIOUS
<1>2. SInv /\ AtQuestion(c, k) => AtPolicy(c, k) \/ AtClient(c, k) \/ AtAnswer(c, k) \/ Kept(r)
  <2> SUFFICES ASSUME SInv, AtQuestion(c, k)
               PROVE  AtPolicy(c, k) \/ AtClient(c, k) \/ AtAnswer(c, k) \/ Kept(r)
    OBVIOUS
  <2>1. stage[r] # "idle"
    <3>1. Questions(c) /\ call[c] = "permit" /\ at[c] = k /\ k <= Len(CapsOf[c])
      BY <1>1 DEF SInv, AtQuestion, SchedulerTypeOK
    <3>2. k \in 1..Len(CapsOf[c])
      BY <1>1, <3>1, LenNat DEF Questions
    <3> QED BY <1>1, <3>1, <3>2 DEF Questions
  <2>2. stage[r] \in {"policy", "asked", "settled"}
    BY <1>1, <2>1 DEF SInv, SchedulerTypeOK, TypeOK
  <2>3. stage[r] = "asked" => Armed(r) \/ Kept(r)
    BY <1>1 DEF SInv, IInv, Waiting, Armed, Kept, Pending
  <2> QED BY <2>2, <2>3 DEF AtPolicy, AtClient, AtAnswer
<1>3. SInv /\ (AtPolicy(c, k) \/ AtClient(c, k)) /\ [SchedulerNext]_allVars => AtQuestion(c, k)'
  BY <1>1, QuestionStays, QuestionAnswered DEF AtPolicy, AtClient, Armed
<1>4. SInv /\ AtClient(c, k) /\ [SchedulerNext]_allVars => ~AtPolicy(c, k)'
  BY <1>1, QuestionMoves DEF AtPolicy, AtClient, Armed
<1>5. SInv /\ AtAnswer(c, k) /\ [SchedulerNext]_allVars => (AtAnswer(c, k) \/ Beyond(c, k))'
  BY <1>1, QuestionStays, QuestionAnswered, QuestionMoves DEF AtAnswer
<1>6. SInv /\ AtPolicy(c, k) /\ <<QuestionStep(r)>>_allVars => ~AtPolicy(c, k)'
  BY <1>1, QuestionStepMoves DEF AtPolicy
<1>7. SInv /\ AtClient(c, k) /\ <<QuestionStep(r)>>_allVars => AtAnswer(c, k)'
  BY <1>1, QuestionStepMoves
     DEF AtClient, AtAnswer, AtQuestion, Armed, QuestionStep, schedulerVars
<1>8. SInv /\ AtAnswer(c, k) /\ <<CallStep(c)>>_allVars => Beyond(c, k)'
  BY <1>1, QuestionAnswered DEF AtAnswer
<1>9. QuestionsCanStep /\ (AtPolicy(c, k) \/ AtClient(c, k)) => ENABLED <<QuestionStep(r)>>_allVars
  BY <1>1 DEF QuestionsCanStep, AtPolicy, AtClient, Armed
<1>10. QuestionsCanStep /\ AtAnswer(c, k) => ENABLED <<CallStep(c)>>_allVars
  BY DEF QuestionsCanStep, AtAnswer, AtQuestion, Asked
<1>11. SchedulerFairness => QuestionFairness(r) /\ CallFairness(c)
  BY <1>1 DEF SchedulerFairness
<1> QED
  BY <1>2, <1>3, <1>4, <1>5, <1>6, <1>7, <1>8, <1>9, <1>10, <1>11, SchedulerInvariance, PTL
     DEF SchedulerSpec, QuestionFairness, CallFairness
=============================================================================

--------------------------- MODULE AgentRunProofs ---------------------------
(***************************************************************************)
(* Safety of a session's runs for every number of prompts and iterations   *)
(* and every interleaving with clients. A run is in the manager's map from *)
(* the step that starts it until it has returned and said so: that is why  *)
(* start's check suffices, and why nobody else writes the status that the  *)
(* run's finished event must agree with.                                   *)
(***************************************************************************)
EXTENDS AgentRun, FiniteSetTheorems, SequenceTheorems, WellFoundedInduction, TLAPS

Ended(p) == pc[p] \in {"onStop", "returned", "published"}

\* The manager's map holds exactly the run that has not finished its business.
MapHoldsRun ==
  \A p \in Prompts :
    /\ Working(p) \/ Ended(p) <=> active = p
    /\ request[p] # "accepted" => pc[p] = "none"

\* Once the loop is left, the stop reason and the stored status agree.
StatusOfStop ==
  /\ \A p \in Prompts :
       /\ Ended(p) => stop[p] \in Reasons \cup {"thrown"}
       /\ Ended(p) /\ stop[p] = "thrown" => deleted
       /\ pc[p] = "published" /\ stop[p] # "thrown" => finished[p] = Outcome(p)
       /\ Ended(p) /\ ~deleted => status = StatusFor(stop[p])
  /\ ~deleted /\ (\A p \in Prompts : ~Working(p)) => status # "running"
  /\ ~deleted /\ (\E p \in Prompts : Working(p)) => status = "running"

IInv == TypeOK /\ MapHoldsRun /\ StatusOfStop

\* While the calls 1..n of a turn are executed, theirs are the only results that are missing.
Executing(t, turn, n) ==
  /\ \A i \in DOMAIN t : \A c \in 1..t[i].calls :
       t[i].role = "assistant" =>
         \/ \E j \in i + 1..Len(t) : t[j] = ToolMessage(t[i].turn, c)
         \/ t[i].turn = turn /\ c <= n
  /\ ResultsAsked(t) /\ ResultsOnce(t)
  /\ \E i \in DOMAIN t : t[i] = Assistant(turn, n)

\* The iterations a run has not ended yet have no results.
NoResultsYet(p) ==
  \A k \in iter[p]..maxIterations - 1 : \A j \in DOMAIN transcript :
    transcript[j].role = "tool" => transcript[j].turn # <<p, k>>

\* What the store holds, as long as nothing harmed it behind the run's back.
TranscriptWhole ==
  /\ deleted => transcript = << >>
  /\ \A p \in Prompts : pc[p] \in {"none", "init"} => iter[p] = 0
  /\ harmed = {} =>
       /\ (\A p \in Prompts : pc[p] # "tools") => Paired(transcript)
       /\ \A p \in Prompts :
            /\ pc[p] = "tools" /\ ~deleted => Executing(transcript, Turn(p), calls[p])
            /\ pc[p] \in {"hook", "budget", "stream", "fallback"} => Paired(view[p])
            /\ Working(p) \/ pc[p] = "none" => NoResultsYet(p)

-----------------------------------------------------------------------------
(* Transcripts. *)

\* What appending a message does to the positions of a transcript.
LEMMA Appended ==
  ASSUME NEW t \in Seq(Message), NEW m \in Message
  PROVE  /\ Append(t, m) \in Seq(Message)
         /\ Len(Append(t, m)) = Len(t) + 1 /\ Len(t) \in Nat
         /\ DOMAIN t = 1..Len(t) /\ DOMAIN Append(t, m) = 1..Len(t) + 1
         /\ \A i \in DOMAIN t : Append(t, m)[i] = t[i]
         /\ Append(t, m)[Len(t) + 1] = m
OBVIOUS

\* What is in a joined sequence is in one of its parts.
LEMMA Joined ==
  ASSUME NEW t \in Seq(Message), NEW r \in Seq(Message), NEW j \in DOMAIN (t \o r)
  PROVE  \/ j \in DOMAIN t /\ (t \o r)[j] = t[j]
         \/ j - Len(t) \in DOMAIN r /\ (t \o r)[j] = r[j - Len(t)]
<1>1. /\ Len(t \o r) = Len(t) + Len(r) /\ Len(t) \in Nat /\ Len(r) \in Nat
      /\ \A i \in 1..Len(t) + Len(r) :
           (t \o r)[i] = IF i <= Len(t) THEN t[i] ELSE r[i - Len(t)]
  BY ConcatProperties, LenProperties
<1>2. DOMAIN t = 1..Len(t) /\ DOMAIN r = 1..Len(r) /\ DOMAIN (t \o r) = 1..Len(t) + Len(r)
  BY <1>1
<1> QED BY <1>1, <1>2

LEMMA UserMessageKeeps ==
  ASSUME NEW t \in Seq(Message), NEW p \in Prompts
  PROVE  /\ Append(t, UserMessage(p)) \in Seq(Message)
         /\ Paired(t) => Paired(Append(t, UserMessage(p)))
         /\ \A turn, n : Executing(t, turn, n) => Executing(Append(t, UserMessage(p)), turn, n)
<1> DEFINE m == UserMessage(p)
           u == Append(t, m)
<1>1. m \in Message /\ m.role = "user" /\ m.calls = 0
  BY DEF UserMessage, Message, MessagesOf, Turns
<1>2. /\ u \in Seq(Message) /\ Len(u) = Len(t) + 1 /\ Len(t) \in Nat
      /\ DOMAIN t = 1..Len(t) /\ DOMAIN u = 1..Len(t) + 1
      /\ \A i \in DOMAIN t : u[i] = t[i]
      /\ u[Len(t) + 1] = m
  BY <1>1, Appended
<1> HIDE DEF m, u
<1>3. CallsAnswered(t) => CallsAnswered(u)
  BY <1>1, <1>2 DEF CallsAnswered
<1>4. ResultsAsked(t) => ResultsAsked(u)
  BY <1>1, <1>2 DEF ResultsAsked
<1>5. ResultsOnce(t) => ResultsOnce(u)
  BY <1>1, <1>2 DEF ResultsOnce
<1>6. ASSUME NEW turn, NEW n, Executing(t, turn, n) PROVE Executing(u, turn, n)
  BY <1>1, <1>2, <1>4, <1>5, <1>6 DEF Executing
<1> QED BY <1>2, <1>3, <1>4, <1>5, <1>6 DEF Paired, u, m

LEMMA AnswerStarts ==
  ASSUME NEW t \in Seq(Message), NEW turn \in Turns(Prompts), NEW n \in Nat, Paired(t)
  PROVE  /\ Append(t, Assistant(turn, n)) \in Seq(Message)
         /\ Executing(Append(t, Assistant(turn, n)), turn, n)
         /\ n = 0 => Paired(Append(t, Assistant(turn, n)))
<1> DEFINE m == Assistant(turn, n)
           u == Append(t, m)
<1>1. m \in Message /\ m.role = "assistant" /\ m.calls = n /\ m.turn = turn
  BY DEF Assistant, Message, MessagesOf, Turns
<1>2. /\ u \in Seq(Message) /\ Len(u) = Len(t) + 1 /\ Len(t) \in Nat
      /\ DOMAIN t = 1..Len(t) /\ DOMAIN u = 1..Len(t) + 1
      /\ \A i \in DOMAIN t : u[i] = t[i]
      /\ u[Len(t) + 1] = m
  BY <1>1, Appended
<1>3. m = Assistant(turn, n)
  OBVIOUS
<1> HIDE DEF m, u
<1>4. ResultsAsked(u)
  BY <1>1, <1>2 DEF ResultsAsked, Paired
<1>5. ResultsOnce(u)
  BY <1>1, <1>2 DEF ResultsOnce, Paired
<1>6. ASSUME NEW i \in DOMAIN u, NEW c \in 1..u[i].calls, u[i].role = "assistant"
      PROVE  \/ \E j \in i + 1..Len(u) : u[j] = ToolMessage(u[i].turn, c)
             \/ u[i].turn = turn /\ c <= n
  <2>1. CASE i \in DOMAIN t
    BY <1>2, <1>6, <2>1 DEF Paired, CallsAnswered
  <2>2. CASE i \notin DOMAIN t
    BY <1>1, <1>2, <1>6, <2>2
  <2> QED BY <2>1, <2>2
<1>7. ASSUME n = 0 PROVE CallsAnswered(u)
  BY <1>1, <1>2, <1>7 DEF Paired, CallsAnswered
<1>8. Executing(u, turn, n)
  BY <1>2, <1>3, <1>4, <1>5, <1>6 DEF Executing
<1> QED BY <1>2, <1>4, <1>5, <1>7, <1>8 DEF Paired, u, m

\* A result for every call that is being executed makes the transcript whole again.
LEMMA ResultsComplete ==
  ASSUME NEW t \in Seq(Message), NEW turn \in Turns(Prompts), NEW n \in Nat, Executing(t, turn, n),
         \A j \in DOMAIN t : t[j].role = "tool" => t[j].turn # turn,
         NEW r \in Seq(Message), r = [c \in 1..n |-> ToolMessage(turn, c)]
  PROVE  t \o r \in Seq(Message) /\ Paired(t \o r)
<1> DEFINE u == t \o r
<1>1. /\ u \in Seq(Message) /\ Len(u) = Len(t) + n /\ Len(t) \in Nat /\ Len(r) = n
      /\ DOMAIN t = 1..Len(t) /\ DOMAIN u = 1..Len(t) + n
      /\ \A i \in DOMAIN t : u[i] = t[i]
      /\ \A i \in Len(t) + 1..Len(t) + n : u[i] = ToolMessage(turn, i - Len(t))
  OBVIOUS
<1>2. \A c \in 1..n : u[Len(t) + c] = ToolMessage(turn, c)
  BY <1>1
<1>3. \A c : ToolMessage(turn, c).role = "tool" /\ ToolMessage(turn, c).turn = turn
             /\ ToolMessage(turn, c).calls = c
  BY DEF ToolMessage
<1> HIDE DEF u
<1>4. CallsAnswered(u)
  <2> SUFFICES ASSUME NEW i \in DOMAIN u, NEW c \in 1..u[i].calls, u[i].role = "assistant"
               PROVE  \E j \in i + 1..Len(u) : u[j] = ToolMessage(u[i].turn, c)
    BY DEF CallsAnswered
  <2>1. i \in DOMAIN t /\ u[i] = t[i]
    BY <1>1, <1>3
  <2>2. CASE \E j \in i + 1..Len(t) : t[j] = ToolMessage(t[i].turn, c)
    BY <1>1, <2>1, <2>2
  <2>3. CASE t[i].turn = turn /\ c <= n
    <3>1. c \in 1..n
      <4>1. t[i] \in Message
        BY <2>1
      <4>2. t[i].calls \in Nat
        BY <4>1 DEF Message, MessagesOf
      <4> QED BY <2>1, <2>3, <4>2
    <3>2. Len(t) + c \in i + 1..Len(u)
      BY <1>1, <2>1, <3>1
    <3> QED BY <1>2, <2>1, <2>3, <3>1, <3>2
  <2> QED BY <2>1, <2>2, <2>3 DEF Executing
<1>5. ResultsAsked(u)
  <2> SUFFICES ASSUME NEW j \in DOMAIN u, u[j].role = "tool"
               PROVE  \E i \in 1..j - 1 : u[i].role = "assistant" /\ u[i].turn = u[j].turn
                                          /\ u[j].calls \in 1..u[i].calls
    BY DEF ResultsAsked
  <2>1. CASE j \in DOMAIN t
    <3>1. t[j].role = "tool" /\ u[j] = t[j] /\ ResultsAsked(t)
      BY <1>1, <2>1 DEF Executing
    <3>2. PICK i \in 1..j - 1 : t[i].role = "assistant" /\ t[i].turn = t[j].turn
                               /\ t[j].calls \in 1..t[i].calls
      BY <2>1, <3>1 DEF ResultsAsked
    <3>3. i \in DOMAIN t
      BY <1>1, <2>1
    <3> QED BY <1>1, <3>1, <3>2, <3>3
  <2>2. CASE j \notin DOMAIN t
    <3>1. PICK i \in DOMAIN t : t[i] = Assistant(turn, n)
      BY DEF Executing
    <3>2. i \in 1..j - 1 /\ u[i] = Assistant(turn, n)
      BY <1>1, <2>2, <3>1
    <3>3. u[i].role = "assistant" /\ u[i].turn = turn /\ u[i].calls = n
      BY <3>2 DEF Assistant
    <3>4. u[j].turn = turn /\ u[j].calls = j - Len(t) /\ j - Len(t) \in 1..n
      BY <1>1, <1>3, <2>2
    <3> QED BY <3>2, <3>3, <3>4
  <2> QED BY <2>1, <2>2
<1>6. ResultsOnce(u)
  <2> SUFFICES ASSUME NEW j \in DOMAIN u, NEW k \in DOMAIN u, u[j].role = "tool", u[j] = u[k]
               PROVE  j = k
    BY DEF ResultsOnce
  <2>1. CASE j \in DOMAIN t /\ k \in DOMAIN t
    BY <1>1, <2>1 DEF Executing, ResultsOnce
  <2>2. CASE j \notin DOMAIN t /\ k \notin DOMAIN t
    <3>1. u[j].calls = j - Len(t) /\ u[k].calls = k - Len(t)
      BY <1>1, <1>3, <2>2
    <3> QED BY <1>1, <3>1
  <2>3. CASE (j \in DOMAIN t) # (k \in DOMAIN t)
    BY <1>1, <1>3, <2>3
  <2> QED BY <2>1, <2>2, <2>3
<1> QED BY <1>1, <1>4, <1>5, <1>6 DEF Paired, u


\* By well-foundedness of strict inclusion on the parts of a finite set.
LEMMA Least ==
  ASSUME NEW n \in Nat, NEW S \in SUBSET (1..n), S # {}
  PROVE  \E l \in S : \A k \in S : l <= k
<1> DEFINE Below(m) == {k \in S : k < m}
           Sets == {Below(m) : m \in S}
<1>1. IsFiniteSet(S)
  <2>1. IsFiniteSet(1..n)
    BY FS_Interval
  <2> QED BY <2>1, FS_Subset
<1>2. Sets \subseteq FiniteSubsetsOf(S) /\ Sets # {}
  <2>1. FiniteSubsetsOf(S) = SUBSET S
    BY <1>1, FS_FiniteSubsetsOfFinite
  <2>2. Sets \subseteq SUBSET S /\ Sets # {}
    OBVIOUS
  <2> QED BY <2>1, <2>2
<1>3. PICK X \in Sets : \A Y \in Sets : ~(<<Y, X>> \in StrictSubsetOrdering(S))
  <2>1. IsWellFoundedOn(StrictSubsetOrdering(S), FiniteSubsetsOf(S))
    BY FS_StrictSubsetOrderingWellFounded
  <2> HIDE DEF Sets
  <2> QED BY <1>2, <2>1, WFMin
<1>4. PICK l \in S : X = Below(l)
  OBVIOUS
<1>5. Below(l) = {}
  <2> SUFFICES ASSUME NEW k \in Below(l) PROVE FALSE
    OBVIOUS
  <2>1. (\A m \in S : m \in Nat) /\ k \in S /\ k \in Nat /\ l \in Nat /\ k < l
    OBVIOUS
  <2>2. Below(k) \subseteq Below(l) /\ k \notin Below(k) /\ k \in Below(l)
    <3>1. \A m \in S : m < k => m < l
      BY <2>1
    <3>2. ~(k < k)
      BY <2>1
    <3> QED BY <2>1, <3>1, <3>2
  <2>3. <<Below(k), Below(l)>> \in StrictSubsetOrdering(S)
    BY <2>2 DEF StrictSubsetOrdering
  <2> QED BY <1>3, <1>4, <2>3
<1> QED BY <1>5

\* Compaction: what is before a group whose predecessors are removable leaves nothing behind.
LEMMA GroupBefore ==
  ASSUME NEW t \in Seq(Message), NEW i \in DOMAIN t
  PROVE  \E g \in GroupStarts(t) : g <= i /\ i \in GroupOf(t, g)
<1> DEFINE Before == {g \in 1..i : \A k \in g + 1..i : t[k].role # "user"}
<1>1. i \in Nat /\ i >= 1 /\ DOMAIN t = 1..Len(t) /\ Len(t) \in Nat
  OBVIOUS
<1>2. i \in Before
  BY <1>1
<1>3. PICK g \in Before : \A h \in Before : g <= h
  <2>1. Before \in SUBSET (1..i) /\ Before # {}
    BY <1>2
  <2> HIDE DEF Before
  <2> QED BY <1>1, <2>1, Least
<1>4. g \in GroupStarts(t)
  <2>1. CASE g = 1
    BY <1>1, <2>1 DEF GroupStarts
  <2>2. CASE g # 1
    <3>1. g - 1 \in 1..i /\ g - 1 \notin Before
      BY <1>1, <1>3, <2>2
    <3>2. PICK k \in g..i : t[k].role = "user"
      BY <1>1, <3>1
    <3>3. k = g
      BY <1>1, <1>3, <3>2
    <3> QED BY <1>1, <3>2, <3>3 DEF GroupStarts
  <2> QED BY <2>1, <2>2
<1>5. i \in GroupOf(t, g)
  BY <1>1, <1>3 DEF GroupOf
<1> QED BY <1>1, <1>3, <1>4, <1>5

LEMMA LaterGroup ==
  ASSUME NEW t \in Seq(Message), NEW g \in DOMAIN t, NEW i \in GroupStarts(t), g < i, i # 1
  PROVE  \A k \in GroupOf(t, g) : k < i
BY DEF GroupOf, GroupStarts

LEMMA CompactionKeepsPaired ==
  ASSUME NEW t \in Seq(Message), Paired(t), NEW n \in KeepCounts(t)
  PROVE  n \in Nat /\ n < Len(t) /\ KeepLast(t, n) \in Seq(Message) /\ Paired(KeepLast(t, n))
<1>1. PICK g \in GroupStarts(t) \ {1} :
        /\ n = Len(t) - g + 1
        /\ \A h \in GroupStarts(t) : h < g => Removable(t, h)
  BY DEF KeepCounts
<1> DEFINE u == KeepLast(t, n)
<1>2. g \in DOMAIN t /\ Len(t) \in Nat /\ DOMAIN t = 1..Len(t) /\ g \in 2..Len(t)
  BY <1>1 DEF GroupStarts
<1>3. n \in Nat /\ n < Len(t) /\ u = SubSeq(t, g, Len(t))
  <2>1. n \in Nat /\ n < Len(t) /\ (Len(t) - n) + 1 = g
    BY <1>1, <1>2
  <2> QED BY <2>1 DEF KeepLast
<1> HIDE DEF u
<1>d. PICK d \in Nat : d + 1 = g
  <2>1. g - 1 \in Nat /\ (g - 1) + 1 = g
    BY <1>2
  <2> QED BY <2>1
<1>4. /\ u \in Seq(Message) /\ Len(u) = Len(t) - d
      /\ DOMAIN u = 1..Len(t) - d
      /\ \A j \in 1..Len(t) - d : u[j] = t[j + d]
  <2> DEFINE m == (Len(t) - g) + 1
  <2>1. u \in Seq(Message) /\ Len(u) = m /\ \A j \in 1..m : u[j] = t[(g + j) - 1]
    BY <1>2, <1>3, SubSeqProperties
  <2>2. DOMAIN u = 1..m
    BY <2>1, LenProperties
  <2>3. m = Len(t) - d /\ \A j \in 1..m : (g + j) - 1 = j + d
    BY <1>2, <1>d
  <2> HIDE DEF m
  <2> QED BY <2>1, <2>2, <2>3
<1>5. \A j \in DOMAIN u : j + d \in DOMAIN t
  BY <1>2, <1>4, <1>d
<1>6. CallsAnswered(u)
  <2> SUFFICES ASSUME NEW i \in DOMAIN u, NEW c \in 1..u[i].calls, u[i].role = "assistant"
               PROVE  \E j \in i + 1..Len(u) : u[j] = ToolMessage(u[i].turn, c)
    BY DEF CallsAnswered
  <2>1. PICK j \in i + d + 1..Len(t) : t[j] = ToolMessage(t[i + d].turn, c)
    BY <1>4, <1>5 DEF Paired, CallsAnswered
  <2>2. j - d \in i + 1..Len(u) /\ (j - d) + d = j
    BY <1>2, <1>4, <1>d, <2>1
  <2>3. u[j - d] = t[j] /\ u[i] = t[i + d]
    <3>1. j - d \in 1..Len(t) - d
      BY <1>4, <2>2
    <3> QED BY <1>4, <2>2, <3>1
  <2> QED BY <2>1, <2>2, <2>3
<1>7. ResultsAsked(u)
  <2> SUFFICES ASSUME NEW j \in DOMAIN u, u[j].role = "tool"
               PROVE  \E i \in 1..j - 1 : u[i].role = "assistant" /\ u[i].turn = u[j].turn
                                          /\ u[j].calls \in 1..u[i].calls
    BY DEF ResultsAsked
  <2>1. u[j] = t[j + d] /\ j + d \in DOMAIN t /\ t[j + d] \in Message
    BY <1>4, <1>5
  <2>2. PICK i \in 1..(j + d) - 1 : /\ t[i].role = "assistant" /\ t[i].turn = t[j + d].turn
                                   /\ t[j + d].calls \in 1..t[i].calls
    BY <2>1 DEF Paired, ResultsAsked
  <2>3. i \in DOMAIN t
    BY <1>2, <1>d, <2>1
  <2>4. ~(i < g)
    <3> SUFFICES ASSUME i < g PROVE FALSE
      OBVIOUS
    <3>1. PICK h \in GroupStarts(t) : h <= i /\ i \in GroupOf(t, h)
      BY <2>3, GroupBefore
    <3>2. h \in DOMAIN t /\ h < g
      BY <1>2, <2>3, <3>1 DEF GroupStarts
    <3>3. Removable(t, h)
      BY <1>1, <3>2
    <3>4. PICK k \in GroupOf(t, h) : t[k] = ToolMessage(t[i].turn, t[j + d].calls)
      BY <2>2, <3>1, <3>3 DEF Removable
    <3>5. k < g /\ k \in DOMAIN t
      <4>1. k < g
        BY <1>1, <3>2, LaterGroup
      <4> QED BY <1>2, <3>2, <4>1 DEF GroupOf
    <3>6. t[k] = t[j + d]
      <4>1. t[j + d] = ToolMessage(t[j + d].turn, t[j + d].calls)
        BY <2>1 DEF ToolMessage, Message, MessagesOf
      <4> QED BY <2>2, <3>4, <4>1
    <3>7. k = j + d
      BY <2>1, <3>5, <3>6 DEF Paired, ResultsOnce
    <3> QED BY <1>2, <1>d, <1>4, <3>5, <3>7
  <2>5. i - d \in 1..j - 1 /\ i - d \in DOMAIN u /\ u[i - d] = t[i]
    <3>1. i \in Nat /\ d < i /\ i <= Len(t) /\ i < j + d /\ j \in Nat
      BY <1>2, <1>4, <1>d, <2>2, <2>3, <2>4
    <3>2. i - d \in 1..Len(t) - d /\ (i - d) + d = i /\ i - d \in 1..j - 1
      BY <1>2, <1>d, <3>1
    <3> QED BY <1>4, <3>2
  <2> QED BY <2>1, <2>2, <2>5
<1>8. ResultsOnce(u)
  <2> SUFFICES ASSUME NEW j \in DOMAIN u, NEW k \in DOMAIN u, u[j].role = "tool", u[j] = u[k]
               PROVE  j = k
    BY DEF ResultsOnce
  <2>1. j + d = k + d
    BY <1>4, <1>5 DEF Paired, ResultsOnce
  <2> QED BY <1>d, <1>4, <2>1
<1> QED BY <1>3, <1>4, <1>6, <1>7, <1>8 DEF Paired, u

LEMMA KeepLastTyped ==
  ASSUME NEW t \in Seq(Message), NEW n \in Nat, n < Len(t)
  PROVE  KeepLast(t, n) \in Seq(Message)
BY DEF KeepLast

LEMMA KeptAreOld ==
  ASSUME NEW t \in Seq(Message), NEW n \in Nat, n < Len(t)
  PROVE  \A j \in DOMAIN KeepLast(t, n) : \E i \in DOMAIN t : t[i] = KeepLast(t, n)[j]
<1> DEFINE m == (Len(t) - n) + 1
           u == KeepLast(t, n)
<1>1. DOMAIN t = 1..Len(t) /\ Len(t) \in Nat /\ m \in Int /\ m >= 1
  OBVIOUS
<1>2. u = SubSeq(t, m, Len(t))
  BY DEF KeepLast
<1> HIDE DEF m, u
<1>3. /\ DOMAIN u = 1..Len(u)
      /\ Len(u) = IF m <= Len(t) THEN Len(t) - m + 1 ELSE 0
      /\ \A j \in 1..Len(t) - m + 1 : u[j] = t[m + j - 1]
  BY <1>1, <1>2, SubSeqProperties, LenProperties
<1> SUFFICES ASSUME NEW j \in DOMAIN u PROVE \E i \in DOMAIN t : t[i] = u[j]
  BY DEF u
<1>4. j \in 1..Len(t) - m + 1 /\ m + j - 1 \in DOMAIN t
  BY <1>1, <1>3
<1> QED BY <1>3, <1>4

LEMMA KeepCountsTyped ==
  ASSUME NEW t \in Seq(Message), NEW n \in KeepCounts(t)
  PROVE  n \in Nat
BY DEF KeepCounts, GroupStarts

LEMMA TurnTyped ==
  ASSUME TypeOK, NEW p \in Prompts
  PROVE  Turn(p) = <<p, iter[p]>> /\ Turn(p) \in Turns(Prompts) /\ Turn(p) \in Turns(Prompts \cup Earlier)
BY DEF Turn, Turns, TypeOK

LEMMA ResultsTyped ==
  ASSUME TypeOK, NEW p \in Prompts
  PROVE  /\ ResultsOf(p) \in Seq(Message)
         /\ \A n \in 0..MaxCalls : n < calls[p] => SubSeq(ResultsOf(p), 1, n) \in Seq(Message)
<1>1. calls[p] \in Nat /\ \A c \in 1..calls[p] : ToolMessage(Turn(p), c) \in Message
  <2>1. calls[p] \in Nat
    BY RunAssumption DEF TypeOK
  <2> QED BY <2>1, TurnTyped DEF ToolMessage, Message, MessagesOf
<1>2. ResultsOf(p) \in Seq(Message) /\ Len(ResultsOf(p)) = calls[p]
  BY <1>1 DEF ResultsOf
<1> QED BY <1>2

-----------------------------------------------------------------------------
(* The manager's map, the status and the stop reason. *)

Statuses == {"idle", "running", "cancelled", "error"}

LEMMA StatusForStops ==
  ASSUME NEW reason \in Reasons
  PROVE  /\ StatusFor(reason) \in {"idle", "cancelled", "error"}
         /\ StatusFor(reason) = "idle" <=> reason = "completed"
         /\ StatusFor(reason) = "cancelled" <=> reason = "cancelled"
BY DEF StatusFor, Reasons

\* Leaving the loop.
LEMMA FinishStep ==
  ASSUME IInv, NEW p \in Prompts, Working(p), NEW reason \in Reasons, Finish(p, reason),
         request' = request, active' = active, finished' = finished, aborted' = aborted,
         deleted' = deleted
  PROVE  /\ pc' \in [Prompts -> Waits \cup {"none", "onStop", "returned", "published", "gone"}]
         /\ stop' \in [Prompts -> Reasons \cup {"none", "thrown"}]
         /\ status' \in Statuses
         /\ MapHoldsRun' /\ StatusOfStop'
<1>1. active = p /\ \A q \in Prompts \ {p} : ~Working(q) /\ ~Ended(q)
  BY DEF IInv, MapHoldsRun
<1>2. /\ pc' \in [Prompts -> Waits \cup {"none", "onStop", "returned", "published", "gone"}]
      /\ stop' \in [Prompts -> Reasons \cup {"none", "thrown"}]
      /\ status' \in Statuses
  BY StatusForStops DEF Finish, IInv, TypeOK, Statuses
<1>3. /\ pc'[p] = (IF deleted THEN "returned" ELSE "onStop")
      /\ stop'[p] = (IF deleted THEN "thrown" ELSE reason)
      /\ \A q \in Prompts \ {p} : pc'[q] = pc[q] /\ stop'[q] = stop[q]
  BY DEF Finish, IInv, TypeOK
<1>4. MapHoldsRun'
  BY <1>1, <1>3 DEF IInv, MapHoldsRun, Working, Ended, Waits
<1>5. ~deleted => status' = StatusFor(reason) /\ status' # "running"
  BY StatusForStops DEF Finish
<1>6. \A q \in Prompts : ~Working(q)'
  BY <1>1, <1>3 DEF Working, Waits
<1>7. ~deleted => StatusFor(stop[p])' = status'
  <2> SUFFICES ASSUME ~deleted PROVE StatusFor(stop'[p]) = status'
    BY DEF StatusFor
  <2> QED BY <1>3, <1>5
<1>8. StatusOfStop'
  BY <1>1, <1>3, <1>5, <1>6, <1>7 DEF StatusOfStop, IInv, Ended, Working, Outcome, Reasons
<1> QED BY <1>2, <1>4, <1>8

\* Going on to another wait of the loop.
LEMMA WaitStep ==
  ASSUME IInv, NEW p \in Prompts, Working(p), NEW w \in Waits, pc' = [pc EXCEPT ![p] = w],
         stop' = stop, status' = status,
         request' = request, active' = active, finished' = finished, aborted' = aborted,
         deleted' = deleted
  PROVE  /\ pc' \in [Prompts -> Waits \cup {"none", "onStop", "returned", "published", "gone"}]
         /\ stop' \in [Prompts -> Reasons \cup {"none", "thrown"}]
         /\ status' \in Statuses
         /\ MapHoldsRun' /\ StatusOfStop'
<1>1. pc'[p] = w /\ \A q \in Prompts \ {p} : pc'[q] = pc[q]
  BY DEF IInv, TypeOK
<1>2. \A q \in Prompts : (Working(q)' <=> Working(q)) /\ (Ended(q)' <=> Ended(q))
  BY <1>1 DEF Working, Ended, Waits
<1>3. MapHoldsRun'
  BY <1>1, <1>2 DEF IInv, MapHoldsRun, Working, Waits
<1>4. \A q \in Prompts : pc'[q] = "published" => pc[q] = "published"
  BY <1>1 DEF Waits
<1>5. StatusOfStop'
  BY <1>2, <1>4 DEF IInv, StatusOfStop, Outcome, StatusFor
<1> QED BY <1>3, <1>5 DEF IInv, TypeOK, Statuses

THEOREM InitInv == Init => IInv
<1> SUFFICES ASSUME Init PROVE IInv
  OBVIOUS
<1>1. 0 \in 0..maxIterations - 1 /\ 0 \in 0..MaxCalls
  BY RunAssumption
<1>2. TypeOK
  <2>1. transcript \in Seq(Message)
    <3>1. Turns(Earlier) \subseteq Turns(Prompts \cup Earlier)
      BY DEF Turns
    <3>2. MessagesOf(Earlier) \subseteq Message
      BY <3>1 DEF MessagesOf, Message
    <3> QED BY <3>2, RunAssumption DEF Init
  <2>2. harmed \subseteq {"torn", "drift", "cut", "results_lost"} /\ view \in [Prompts -> Seq(Message)]
    BY DEF Init
  <2> QED BY <1>1, <2>1, <2>2 DEF Init, TypeOK
<1>3. MapHoldsRun /\ StatusOfStop
  BY RunAssumption DEF Init, MapHoldsRun, StatusOfStop, Working, Ended, Waits
<1> QED BY <1>2, <1>3 DEF IInv

\* The variables FinishStep and WaitStep leave to the action that uses them.
RestTyped ==
  /\ request' = request /\ active' = active /\ finished' = finished /\ aborted' = aborted
  /\ deleted' = deleted
  /\ iter' \in [Prompts -> 0..maxIterations - 1]
  /\ calls' \in [Prompts -> 0..MaxCalls]
  /\ harmed' \subseteq {"torn", "drift", "cut", "results_lost"}
  /\ transcript' \in Seq(Message) /\ view' \in [Prompts -> Seq(Message)]

\* Every step of a working run stays in the loop or leaves it.
LEMMA LoopStep ==
  ASSUME IInv, NEW p \in Prompts, Working(p), RestTyped,
         \/ \E reason \in Reasons : Finish(p, reason)
         \/ \E w \in Waits : pc' = [pc EXCEPT ![p] = w] /\ stop' = stop /\ status' = status
  PROVE  IInv'
BY FinishStep, WaitStep DEF RestTyped, IInv, TypeOK, Statuses

LEMMA CatchStep ==
  ASSUME NEW p \in Prompts, Catch(p) PROVE \E reason \in Reasons : Finish(p, reason)
BY DEF Catch, Reasons

LEMMA ClientInv ==
  ASSUME IInv, NEW p \in Prompts,
         CheckPrompt(p) \/ SubmitPrompt(p) \/ SubmitToDeleted(p) \/ Abort(p)
  PROVE  IInv'
<1>1. CASE CheckPrompt(p)
  BY <1>1 DEF CheckPrompt, localVars, storeVars, IInv, TypeOK, MapHoldsRun, StatusOfStop,
     Working, Ended, Outcome, StatusFor
<1>2. CASE SubmitPrompt(p)
  <2>1. pc[p] = "none"
    BY <1>2 DEF SubmitPrompt, IInv, MapHoldsRun
  <2>2. CASE MayStart
    <3>1. \A q \in Prompts : ~Working(q) /\ ~Ended(q)
      BY <2>2, RunAssumption DEF MayStart, IInv, MapHoldsRun
    <3>2. pc'[p] = "init" /\ active' = p /\ request'[p] = "accepted" /\ status' = "running"
          /\ \A q \in Prompts \ {p} : pc'[q] = pc[q] /\ request'[q] = request[q]
      BY <1>2, <2>2 DEF SubmitPrompt, IInv, TypeOK
    <3>3. TypeOK'
      <4>1. transcript' \in Seq(Message)
        BY <1>2, UserMessageKeeps DEF SubmitPrompt, IInv, TypeOK
      <4> QED BY <1>2, <2>2, <4>1 DEF SubmitPrompt, localVars, IInv, TypeOK, Waits
    <3>4. MapHoldsRun'
      BY <3>1, <3>2 DEF IInv, MapHoldsRun, Working, Ended, Waits
    <3>5. StatusOfStop'
      BY <1>2, <3>1, <3>2 DEF SubmitPrompt, StatusOfStop, Working, Ended, Waits
    <3> QED BY <3>3, <3>4, <3>5 DEF IInv
  <2>3. CASE ~MayStart
    <3>1. /\ request' = [request EXCEPT ![p] = "refused"]
          /\ UNCHANGED <<active, pc, status, finished, aborted, localVars, stop, deleted, harmed>>
      BY <1>2, <2>3 DEF SubmitPrompt
    <3>2. TypeOK'
      <4>1. transcript' \in Seq(Message)
        BY <1>2, UserMessageKeeps DEF SubmitPrompt, IInv, TypeOK
      <4> QED BY <3>1, <4>1 DEF IInv, TypeOK, localVars
    <3>3. MapHoldsRun'
      BY <2>1, <3>1 DEF IInv, TypeOK, MapHoldsRun, Working, Ended
    <3>4. StatusOfStop'
      BY <3>1 DEF IInv, StatusOfStop, Working, Ended, Outcome, StatusFor
    <3> QED BY <3>2, <3>3, <3>4 DEF IInv
  <2> QED BY <2>2, <2>3
<1>3. CASE SubmitToDeleted(p)
  BY <1>3 DEF SubmitToDeleted, localVars, storeVars, IInv, TypeOK, MapHoldsRun, StatusOfStop,
     Working, Ended, Outcome, StatusFor
<1>4. CASE Abort(p)
  <2>1. \A q \in Prompts : stop[q] # "thrown" => Outcome(q)' = Outcome(q)
    BY <1>4 DEF Abort, Outcome
  <2> QED BY <1>4, <2>1 DEF Abort, localVars, storeVars, IInv, TypeOK, MapHoldsRun, StatusOfStop,
     Working, Ended, StatusFor
<1> QED BY <1>1, <1>2, <1>3, <1>4

LEMMA LoopInv ==
  ASSUME IInv, NEW p \in Prompts,
         \/ Initialized(p) \/ SystemContextReady(p) \/ HooksReturn(p) \/ HooksReject(p)
         \/ BudgetReady(p) \/ BudgetLimit(p) \/ BudgetCompacts(p) \/ RereadMessages(p)
         \/ (\E n \in 0..MaxCalls : StreamEnds(p, n) \/ ResultsLost(p, n))
         \/ StreamFallsBack(p) \/ StreamFails(p) \/ AwaitThrows(p)
         \/ (\E rejected \in BOOLEAN : BatchReturns(p, rejected))
  PROVE  IInv'
<1> DEFINE Leaves2 == \E reason \in Reasons : Finish(p, reason)
           Stays == \E w \in Waits : pc' = [pc EXCEPT ![p] = w] /\ stop' = stop /\ status' = status
<1>1. /\ TypeOK
      /\ iter \in [Prompts -> 0..maxIterations - 1] /\ calls \in [Prompts -> 0..MaxCalls]
      /\ harmed \subseteq {"torn", "drift", "cut", "results_lost"}
      /\ transcript \in Seq(Message) /\ view \in [Prompts -> Seq(Message)]
  BY DEF IInv, TypeOK
<1>2. ASSUME NEW i \in 0..maxIterations - 1, TopOfLoop(p, i)
      PROVE  (Leaves2 \/ Stays) /\ iter' \in [Prompts -> 0..maxIterations - 1]
  <2>1. CASE p \in aborted \/ deleted
    BY <1>1, <1>2, <2>1, CatchStep DEF TopOfLoop
  <2>2. CASE ~(p \in aborted \/ deleted)
    BY <1>1, <1>2, <2>2 DEF TopOfLoop, Waits
  <2> QED BY <2>1, <2>2
<1>3. Working(p) /\ RestTyped /\ (Leaves2 \/ Stays)
  <2>1. CASE Initialized(p)
    <3>1. 0 \in 0..maxIterations - 1
      BY RunAssumption
    <3> QED BY <1>1, <1>2, <2>1, <3>1 DEF Initialized, Working, Waits, RestTyped, managerVars, TypeOK
  <2>2. CASE HooksReturn(p) \/ BudgetReady(p) \/ StreamFallsBack(p)
    BY <1>1, <2>2 DEF HooksReturn, BudgetReady, StreamFallsBack, Working, Waits, RestTyped,
       managerVars, localVars, storeVars
  <2>8. CASE SystemContextReady(p) \/ RereadMessages(p)
    BY <1>1, <2>8 DEF SystemContextReady, RereadMessages, Working, Waits, RestTyped, managerVars,
       storeVars
  <2>9. CASE BudgetCompacts(p)
    <3>1. transcript' \in Seq(Message)
      <4>1. PICK n \in KeepCounts(view[p]) :
              transcript' = IF n < Len(transcript) THEN KeepLast(transcript, n) ELSE transcript
        BY <2>9 DEF BudgetCompacts
      <4>2. n \in Nat
        BY <1>1, KeepCountsTyped
      <4> QED BY <1>1, <4>1, <4>2, KeepLastTyped
    <3> QED BY <1>1, <2>9, <3>1 DEF BudgetCompacts, Working, Waits, RestTyped, managerVars, localVars
  <2>3. CASE HooksReject(p) \/ BudgetLimit(p) \/ StreamFails(p)
    BY <1>1, <2>3 DEF HooksReject, BudgetLimit, StreamFails, Working, Waits, RestTyped, managerVars,
       localVars, Reasons
  <2>4. CASE AwaitThrows(p)
    BY <1>1, <2>4, CatchStep DEF AwaitThrows, Working, Waits, RestTyped, managerVars, localVars
  <2>5. ASSUME NEW n \in 0..MaxCalls, StreamEnds(p, n) PROVE Working(p) /\ RestTyped /\ (Leaves2 \/ Stays)
    <3>1. Working(p) /\ RestTyped
      <4>1. calls' = calls \/ calls' = [calls EXCEPT ![p] = n]
        BY <2>5 DEF StreamEnds
      <4>2. calls' \in [Prompts -> 0..MaxCalls]
        BY <1>1, <4>1
      <4>3. transcript' \in Seq(Message)
        <5>1. n \in Nat
          BY RunAssumption
        <5>2. Assistant(Turn(p), n) \in Message
          BY <1>1, <5>1, TurnTyped DEF Assistant, Message, MessagesOf
        <5>3. Append(transcript, Assistant(Turn(p), n)) \in Seq(Message)
          BY <1>1, <5>2, Appended
        <5> QED BY <1>1, <2>5, <5>3 DEF StreamEnds
      <4> QED BY <1>1, <2>5, <4>2, <4>3 DEF StreamEnds, Working, Waits, RestTyped, managerVars
    <3>2. CASE StopsAfterStream(p) \/ deleted
      BY <2>5, <3>1, <3>2, CatchStep DEF StreamEnds
    <3>3. CASE ~(StopsAfterStream(p) \/ deleted)
      BY <2>5, <3>1, <3>3 DEF StreamEnds, Reasons, Waits
    <3> QED BY <3>2, <3>3
  <2>6. ASSUME NEW n \in 0..MaxCalls, ResultsLost(p, n) PROVE Working(p) /\ RestTyped /\ (Leaves2 \/ Stays)
    <3>1. transcript' \in Seq(Message)
      BY <1>1, <2>6, ResultsTyped DEF ResultsLost
    <3> QED BY <1>1, <2>6, <3>1, CatchStep DEF ResultsLost, Working, Waits, RestTyped, managerVars,
       localVars
  <2>7. ASSUME NEW rejected \in BOOLEAN, BatchReturns(p, rejected)
        PROVE  Working(p) /\ RestTyped /\ (Leaves2 \/ Stays)
    <3>1. Working(p) /\ request' = request /\ active' = active /\ finished' = finished
          /\ aborted' = aborted /\ deleted' = deleted
          /\ calls' \in [Prompts -> 0..MaxCalls]
          /\ harmed' \subseteq {"torn", "drift", "cut", "results_lost"}
          /\ transcript' \in Seq(Message) /\ view' \in [Prompts -> Seq(Message)]
      <4>1. transcript' \in Seq(Message)
        <5>1. ResultsOf(p) \in Seq(Message)
          BY <1>1, ResultsTyped
        <5>2. transcript \o ResultsOf(p) \in Seq(Message)
          BY <1>1, <5>1, ConcatProperties
        <5> QED BY <1>1, <2>7, <5>2 DEF BatchReturns
      <4> QED BY <1>1, <2>7, <4>1 DEF BatchReturns, Working, Waits, managerVars
    <3>2. CASE deleted
      BY <1>1, <2>7, <3>1, <3>2, CatchStep DEF BatchReturns, RestTyped
    <3>3. CASE ~deleted /\ p \notin aborted /\ ~rejected /\ MoreIterations(p)
      <4>1. iter[p] + 1 \in 0..maxIterations - 1
        BY <1>1, <3>3, RunAssumption DEF MoreIterations
      <4>2. TopOfLoop(p, iter[p] + 1)
        BY <2>7, <3>3 DEF BatchReturns
      <4> QED BY <1>2, <3>1, <4>1, <4>2 DEF RestTyped
    <3>4. CASE ~deleted /\ ~(p \notin aborted /\ ~rejected /\ MoreIterations(p))
      <4>1. iter' = iter /\ \E reason \in {"cancelled", "hook_rejected", "iteration_limit"} : Finish(p, reason)
        BY <2>7, <3>4 DEF BatchReturns
      <4> QED BY <1>1, <3>1, <4>1 DEF RestTyped, Reasons
    <3> QED BY <3>2, <3>3, <3>4
  <2> QED BY <2>1, <2>2, <2>3, <2>4, <2>5, <2>6, <2>7, <2>8, <2>9
<1> QED BY <1>3, LoopStep

LEMMA EndInv ==
  ASSUME IInv, NEW p \in Prompts, OnStopReturns(p) \/ PublishFinished(p) \/ RemoveRun(p)
  PROVE  IInv'
<1>1. Ended(p) /\ active = p /\ pc[p] # "none" /\ \A q \in Prompts \ {p} : ~Working(q) /\ ~Ended(q)
  BY DEF OnStopReturns, PublishFinished, RemoveRun, IInv, MapHoldsRun, Ended, Working
<1>2. ~Working(p)
  BY <1>1 DEF Ended, Working, Waits
<1>3. CASE OnStopReturns(p)
  <2>1. pc'[p] = "returned" /\ \A q \in Prompts \ {p} : pc'[q] = pc[q]
    BY <1>3 DEF OnStopReturns, IInv, TypeOK
  <2>2. \A q \in Prompts : (Working(q)' <=> Working(q)) /\ (Ended(q)' <=> Ended(q))
    BY <1>1, <1>2, <2>1 DEF Working, Ended, Waits
  <2>3. TypeOK'
    BY <1>3 DEF OnStopReturns, managerVars, localVars, storeVars, IInv, TypeOK
  <2>4. MapHoldsRun'
    BY <1>1, <1>3, <2>1, <2>2 DEF OnStopReturns, managerVars, IInv, MapHoldsRun
  <2>5. StatusOfStop'
    BY <1>3, <2>1, <2>2 DEF OnStopReturns, managerVars, storeVars, IInv, StatusOfStop, Outcome, StatusFor
  <2> QED BY <2>3, <2>4, <2>5 DEF IInv
<1>4. CASE PublishFinished(p)
  <2>1. /\ pc'[p] = "published" /\ finished'[p] = Outcome(p)
        /\ \A q \in Prompts \ {p} : pc'[q] = pc[q] /\ finished'[q] = finished[q]
    BY <1>4 DEF PublishFinished, IInv, TypeOK
  <2>2. \A q \in Prompts : (Working(q)' <=> Working(q)) /\ (Ended(q)' <=> Ended(q))
    BY <1>1, <1>2, <2>1 DEF Working, Ended, Waits
  <2>3. TypeOK'
    <3>1. 0 \in 0..maxIterations - 1 /\ 0 \in 0..MaxCalls
      BY RunAssumption
    <3>2. Outcome(p) \in {"completed", "cancelled", "error"}
      BY DEF Outcome
    <3> QED BY <1>4, <3>1, <3>2 DEF PublishFinished, storeVars, IInv, TypeOK
  <2>4. MapHoldsRun'
    BY <1>1, <1>4, <2>1, <2>2 DEF PublishFinished, IInv, MapHoldsRun
  <2>5. StatusOfStop'
    BY <1>1, <1>4, <2>1, <2>2 DEF PublishFinished, storeVars, IInv, StatusOfStop, Outcome, StatusFor, Ended
  <2> QED BY <2>3, <2>4, <2>5 DEF IInv
<1>5. CASE RemoveRun(p)
  <2>1. pc'[p] = "gone" /\ active' = NoRun /\ \A q \in Prompts \ {p} : pc'[q] = pc[q]
    BY <1>1, <1>5 DEF RemoveRun, Leaves, IInv, TypeOK
  <2>2. \A q \in Prompts : ~Working(q)' /\ ~Ended(q)'
    BY <1>1, <2>1 DEF Working, Ended, Waits
  <2>3. TypeOK'
    BY <1>5 DEF RemoveRun, localVars, storeVars, IInv, TypeOK
  <2>4. MapHoldsRun'
    BY <1>1, <1>5, <2>1, <2>2, RunAssumption DEF RemoveRun, IInv, MapHoldsRun
  <2>5. StatusOfStop'
    BY <1>1, <1>2, <1>5, <2>1, <2>2 DEF RemoveRun, storeVars, IInv, StatusOfStop, Ended
  <2> QED BY <2>3, <2>4, <2>5 DEF IInv
<1> QED BY <1>3, <1>4, <1>5

LEMMA NextInv == IInv /\ [Next]_runVars => IInv'
<1> SUFFICES ASSUME IInv, [Next]_runVars PROVE IInv'
  OBVIOUS
<1>1. ASSUME NEW p \in Prompts,
             CheckPrompt(p) \/ SubmitPrompt(p) \/ SubmitToDeleted(p) \/ Abort(p)
      PROVE  IInv'
  BY <1>1, ClientInv
<1>2. ASSUME NEW p \in Prompts, RunStep(p) PROVE IInv'
  BY <1>2, LoopInv, EndInv DEF RunStep
<1>3. CASE DeleteSession
  BY <1>3 DEF DeleteSession, managerVars, localVars, IInv, TypeOK, MapHoldsRun, StatusOfStop,
     Working, Ended, Outcome
<1>4. ASSUME NEW n \in 0..1, CutTranscript(n) PROVE IInv'
  <2>1. transcript' \in Seq(Message)
    BY <1>4, KeepLastTyped DEF CutTranscript, IInv, TypeOK
  <2> QED BY <1>4, <2>1 DEF CutTranscript, managerVars, localVars, IInv, TypeOK, MapHoldsRun, StatusOfStop,
     Working, Ended, Outcome, StatusFor
<1>5. CASE UNCHANGED runVars
  BY <1>5 DEF runVars, managerVars, localVars, storeVars, IInv, TypeOK, MapHoldsRun, StatusOfStop,
     Working, Ended, Outcome, StatusFor
<1> QED BY <1>1, <1>2, <1>3, <1>4, <1>5 DEF Next

-----------------------------------------------------------------------------
(* The stored transcript. *)

Reading == {"hook", "budget", "stream", "fallback"}

LEMMA EmptyIsPaired == Paired(<< >>)
BY DEF Paired, CallsAnswered, ResultsAsked, ResultsOnce

LEMMA WholeInit == Init => TranscriptWhole
<1> SUFFICES ASSUME Init PROVE TranscriptWhole
  OBVIOUS
<1>1. ASSUME NEW q \in Prompts PROVE NoResultsYet(q)
  <2> SUFFICES ASSUME NEW k \in iter[q]..maxIterations - 1, NEW j \in DOMAIN transcript
               PROVE  transcript[j].turn # <<q, k>>
    BY DEF NoResultsYet
  <2>1. transcript \in Seq(MessagesOf(Earlier))
    BY RunAssumption DEF Init
  <2>2. transcript[j].turn \in Turns(Earlier)
    <3>1. transcript[j] \in MessagesOf(Earlier)
      BY <2>1
    <3> QED BY <3>1 DEF MessagesOf
  <2>3. <<q, k>> \notin Turns(Earlier)
    BY RunAssumption DEF Turns
  <2> QED BY <2>2, <2>3
<1>2. \A q \in Prompts : iter[q] = 0 /\ pc[q] = "none"
  BY DEF Init
<1>3. harmed = {} => Paired(transcript)
  BY DEF Init
<1> QED BY <1>1, <1>2, <1>3 DEF Init, TranscriptWhole

\* Results of turns to come appear only by being appended.
LEMMA StillNoResults ==
  ASSUME TypeOK, TypeOK', NEW q \in Prompts, NoResultsYet(q), iter[q] <= iter'[q],
         \A j \in DOMAIN transcript' : transcript'[j].role = "tool" =>
           \/ \E i \in DOMAIN transcript : transcript[i] = transcript'[j]
           \/ \A k \in iter'[q]..maxIterations - 1 : transcript'[j].turn # <<q, k>>
  PROVE  NoResultsYet(q)'
<1>1. iter[q] \in Nat /\ iter'[q] \in Nat /\ maxIterations \in Nat
  BY RunAssumption DEF TypeOK
<1>2. iter'[q]..maxIterations - 1 \subseteq iter[q]..maxIterations - 1
  BY <1>1
<1> QED BY <1>2 DEF NoResultsYet

\* A working run is the only one.
LEMMA OthersRest ==
  ASSUME IInv, NEW p \in Prompts, Working(p) \/ Ended(p)
  PROVE  \A q \in Prompts \ {p} : ~Working(q) /\ ~Ended(q) /\ pc[q] \notin Reading \cup {"tools", "init"}
BY DEF IInv, MapHoldsRun, Working, Waits, Reading

\* A step that leaves the transcript alone and reads nothing.
LEMMA QuietStep ==
  ASSUME IInv, IInv', TranscriptWhole, NEW p \in Prompts, NEW w, pc' = [pc EXCEPT ![p] = w],
         pc[p] \notin {"tools", "none"}, w \notin {"none", "init", "tools"},
         w \in Reading => pc[p] \in Reading, w \in Waits => pc[p] \in Waits,
         iter' = iter, view' = view, calls' = calls, transcript' = transcript,
         deleted' = deleted, harmed' = harmed
  PROVE  TranscriptWhole'
<1>1. pc'[p] = w /\ \A q \in Prompts \ {p} : pc'[q] = pc[q]
  BY DEF IInv, TypeOK
<1>2. (\A q \in Prompts : pc'[q] # "tools") => \A q \in Prompts : pc[q] # "tools"
  BY <1>1
<1>3. \A q \in Prompts : NoResultsYet(q)' <=> NoResultsYet(q)
  BY DEF NoResultsYet
<1>4. ASSUME harmed = {}, NEW q \in Prompts
      PROVE  /\ pc'[q] = "tools" /\ ~deleted' => Executing(transcript', Turn(q)', calls'[q])
             /\ pc'[q] \in Reading => Paired(view'[q])
             /\ Working(q)' \/ pc'[q] = "none" => NoResultsYet(q)'
  BY <1>1, <1>3, <1>4 DEF TranscriptWhole, Reading, Turn, Working
<1> QED BY <1>1, <1>2, <1>4 DEF TranscriptWhole, Reading

LEMMA FinishIsQuiet ==
  ASSUME IInv, IInv', TranscriptWhole, NEW p \in Prompts, Working(p), pc[p] # "tools",
         NEW reason, Finish(p, reason),
         iter' = iter, view' = view, calls' = calls, transcript' = transcript,
         deleted' = deleted, harmed' = harmed
  PROVE  TranscriptWhole'
<1>1. pc' = [pc EXCEPT ![p] = IF deleted THEN "returned" ELSE "onStop"]
  BY DEF Finish
<1>2. pc[p] \notin {"tools", "none"}
  BY DEF Working, Waits
<1>3. (IF deleted THEN "returned" ELSE "onStop") \notin {"none", "init", "tools"} \cup Reading \cup Waits
  BY DEF Waits, Reading
<1> QED BY <1>1, <1>2, <1>3, QuietStep

\* The messages are read while no batch is executed.
LEMMA ReadStep ==
  ASSUME IInv, IInv', TranscriptWhole, NEW p \in Prompts, pc[p] \in {"system", "resystem"},
         NEW w \in Reading, pc' = [pc EXCEPT ![p] = w], view' = [view EXCEPT ![p] = transcript],
         iter' = iter, calls' = calls, transcript' = transcript, deleted' = deleted, harmed' = harmed
  PROVE  TranscriptWhole'
<1>1. /\ pc'[p] = w /\ \A q \in Prompts \ {p} : pc'[q] = pc[q]
      /\ view'[p] = transcript /\ \A q \in Prompts \ {p} : view'[q] = view[q]
  BY DEF IInv, TypeOK
<1>2. Working(p) /\ \A q \in Prompts : pc[q] # "tools"
  BY OthersRest DEF Working, Waits
<1>3. harmed = {} => Paired(transcript)
  BY <1>2 DEF TranscriptWhole
<1>4. \A q \in Prompts : NoResultsYet(q)' <=> NoResultsYet(q)
  BY DEF NoResultsYet
<1>5. ASSUME harmed = {}, NEW q \in Prompts
      PROVE  /\ pc'[q] = "tools" /\ ~deleted' => Executing(transcript', Turn(q)', calls'[q])
             /\ pc'[q] \in Reading => Paired(view'[q])
             /\ Working(q)' \/ pc'[q] = "none" => NoResultsYet(q)'
  BY <1>1, <1>2, <1>3, <1>4, <1>5 DEF TranscriptWhole, Reading, Working
<1> QED BY <1>1, <1>3, <1>5 DEF TranscriptWhole, Reading

LEMMA CompactsStep ==
  ASSUME IInv, IInv', TranscriptWhole, NEW p \in Prompts, BudgetCompacts(p)
  PROVE  TranscriptWhole'
<1>1. /\ pc'[p] = "resystem" /\ \A q \in Prompts \ {p} : pc'[q] = pc[q]
      /\ iter' = iter /\ view' = view /\ calls' = calls /\ deleted' = deleted /\ ~deleted
      /\ pc[p] = "budget" /\ view[p] \in Seq(Message)
  BY DEF BudgetCompacts, IInv, TypeOK, managerVars, localVars
<1>2. Working(p) /\ \A q \in Prompts : pc'[q] # "tools" /\ pc'[q] \notin Reading
  BY <1>1, OthersRest DEF Working, Waits, Reading
<1>3. ASSUME harmed' = {}
      PROVE  /\ Paired(transcript')
             /\ \A j \in DOMAIN transcript' : \E i \in DOMAIN transcript : transcript[i] = transcript'[j]
  <2>1. harmed = {} /\ transcript = view[p]
    BY <1>3 DEF BudgetCompacts
  <2>2. Paired(transcript)
    BY <1>1, <2>1 DEF TranscriptWhole
  <2>3. PICK n \in KeepCounts(transcript) :
          transcript' = IF n < Len(transcript) THEN KeepLast(transcript, n) ELSE transcript
    BY <2>1 DEF BudgetCompacts
  <2>4. n \in Nat /\ n < Len(transcript) /\ Paired(KeepLast(transcript, n))
    BY <1>1, <2>1, <2>2, CompactionKeepsPaired
  <2>5. transcript' = KeepLast(transcript, n)
    BY <2>3, <2>4
  <2>6. \A j \in DOMAIN transcript' : \E i \in DOMAIN transcript : transcript[i] = transcript'[j]
    BY <1>1, <2>1, <2>4, <2>5, KeptAreOld
  <2> QED BY <2>4, <2>5, <2>6
<1>4. ASSUME harmed' = {}, NEW q \in Prompts, Working(q)' \/ pc'[q] = "none"
      PROVE  NoResultsYet(q)'
  <2>1. harmed = {} /\ (Working(q) \/ pc[q] = "none")
    BY <1>1, <1>2, <1>4 DEF BudgetCompacts, Working
  <2>2. NoResultsYet(q) /\ iter[q] \in Nat
    BY <2>1 DEF TranscriptWhole, IInv, TypeOK
  <2> QED BY <1>1, <1>3, <1>4, <2>2, StillNoResults DEF IInv
<1> QED BY <1>1, <1>2, <1>3, <1>4 DEF TranscriptWhole, Reading

\* The answer is stored; its calls, if it has any, are executed next.
LEMMA AnswerStep ==
  ASSUME IInv, IInv', TranscriptWhole, NEW p \in Prompts, NEW n \in 0..MaxCalls, StreamEnds(p, n)
  PROVE  TranscriptWhole'
<1>1. /\ Working(p) /\ pc[p] \in Reading /\ pc[p] # "tools" /\ iter' = iter /\ view' = view
      /\ deleted' = deleted /\ harmed' = harmed /\ n \in Nat
  BY RunAssumption DEF StreamEnds, Working, Waits, Reading
<1>2. CASE StopsAfterStream(p) \/ deleted
  <2>1. calls' = calls /\ transcript' = transcript /\ \E reason \in Reasons : Finish(p, reason)
    BY <1>2, CatchStep DEF StreamEnds
  <2> QED BY <1>1, <2>1, FinishIsQuiet
<1>3. CASE ~(StopsAfterStream(p) \/ deleted)
  <2>1. /\ transcript' = Append(transcript, Assistant(Turn(p), n))
        /\ calls' = [calls EXCEPT ![p] = n]
        /\ pc' = [pc EXCEPT ![p] = IF n = 0 THEN "onStop" ELSE "tools"]
    BY <1>3 DEF StreamEnds, Finish
  <2>2. /\ calls'[p] = n /\ pc'[p] = IF n = 0 THEN "onStop" ELSE "tools"
        /\ \A q \in Prompts \ {p} : pc'[q] = pc[q]
    BY <2>1 DEF IInv, TypeOK
  <2>3. \A q \in Prompts : pc[q] # "tools" /\ (q # p => ~Working(q) /\ pc[q] \notin Reading)
    BY <1>1, OthersRest
  <2>4. TypeOK /\ TypeOK' /\ transcript \in Seq(Message) /\ Turn(p)' = Turn(p)
    BY <1>1 DEF IInv, TypeOK, Turn
  <2>5. ASSUME harmed = {}
        PROVE  /\ Executing(transcript', Turn(p), n)
               /\ n = 0 => Paired(transcript')
    <3>1. Paired(transcript)
      BY <2>3, <2>5 DEF TranscriptWhole
    <3> QED BY <1>1, <2>1, <2>4, <3>1, AnswerStarts, TurnTyped
  <2>6. ASSUME harmed = {}, NEW q \in Prompts, Working(q)' \/ pc'[q] = "none" PROVE NoResultsYet(q)'
    <3>1. Working(q) \/ pc[q] = "none"
      BY <1>1, <2>2, <2>3, <2>6 DEF Working, Waits
    <3>2. NoResultsYet(q) /\ iter[q] <= iter'[q]
      <4>1. iter[q] \in Nat
        BY <2>4 DEF TypeOK
      <4> QED BY <1>1, <2>6, <3>1, <4>1 DEF TranscriptWhole
    <3>3. \A j \in DOMAIN transcript' : transcript'[j].role = "tool" =>
            \E i \in DOMAIN transcript : transcript[i] = transcript'[j]
      <4>1. Assistant(Turn(p), n) \in Message /\ Assistant(Turn(p), n).role # "tool"
        BY <1>1, <2>4, TurnTyped DEF Assistant, Message, MessagesOf
      <4> QED BY <2>1, <2>4, <4>1, Appended
    <3> QED BY <2>4, <3>2, <3>3, StillNoResults
  <2>7. ASSUME harmed = {}, NEW q \in Prompts
        PROVE  /\ pc'[q] = "tools" /\ ~deleted' => Executing(transcript', Turn(q)', calls'[q])
               /\ pc'[q] \in Reading => Paired(view'[q])
               /\ Working(q)' \/ pc'[q] = "none" => NoResultsYet(q)'
    BY <1>1, <2>2, <2>3, <2>4, <2>5, <2>6, <2>7 DEF Reading
  <2>8. harmed = {} /\ (\A q \in Prompts : pc'[q] # "tools") => Paired(transcript')
    BY <2>2, <2>5
  <2>9. /\ deleted' => transcript' = << >>
        /\ \A q \in Prompts : pc'[q] \in {"none", "init"} => iter'[q] = 0
    BY <1>1, <1>3, <2>2 DEF TranscriptWhole
  <2> QED BY <1>1, <2>7, <2>8, <2>9 DEF TranscriptWhole, Reading
<1> QED BY <1>2, <1>3

\* Every call has got its result when the batch returns.
LEMMA BatchStep ==
  ASSUME IInv, IInv', TranscriptWhole, NEW p \in Prompts,
         NEW rejected \in BOOLEAN, BatchReturns(p, rejected)
  PROVE  TranscriptWhole'
<1>1. /\ Working(p) /\ pc[p] = "tools" /\ view' = view /\ calls' = calls
      /\ deleted' = deleted /\ harmed' = harmed
  BY DEF BatchReturns, Working, Waits
<1>2. /\ TypeOK /\ TypeOK' /\ transcript \in Seq(Message) /\ iter[p] \in 0..maxIterations - 1
      /\ iter[p] \in Nat /\ maxIterations \in Nat
  <2>1. TypeOK /\ TypeOK' /\ maxIterations \in Nat
    BY RunAssumption DEF IInv
  <2>2. iter \in [Prompts -> 0..maxIterations - 1] /\ transcript \in Seq(Message)
    BY <2>1 DEF TypeOK
  <2>3. iter[p] \in 0..maxIterations - 1
    BY <2>2
  <2> QED BY <2>1, <2>2, <2>3
<1>3. \A q \in Prompts \ {p} : ~Working(q) /\ pc[q] \notin Reading \cup {"tools", "init"}
  BY <1>1, OthersRest
<1>4. PICK w \in {"onStop", "returned", "system"} :
        /\ pc' = [pc EXCEPT ![p] = w]
        /\ iter' = iter \/ iter' = [iter EXCEPT ![p] = iter[p] + 1]
        /\ w = "system" => iter' = [iter EXCEPT ![p] = iter[p] + 1]
        /\ transcript' = IF deleted THEN transcript ELSE transcript \o ResultsOf(p)
  BY DEF BatchReturns, TopOfLoop, Catch, Finish
<1>5. pc'[p] = w /\ \A q \in Prompts \ {p} : pc'[q] = pc[q] /\ iter'[q] = iter[q]
  BY <1>4 DEF IInv, TypeOK
<1>6. \A q \in Prompts : pc'[q] # "tools" /\ pc'[q] \notin Reading
  BY <1>3, <1>5 DEF Reading
<1>7. /\ deleted' => transcript' = << >>
      /\ \A q \in Prompts : pc'[q] \in {"none", "init"} => iter'[q] = 0
  BY <1>1, <1>4, <1>5 DEF TranscriptWhole
<1>8. ASSUME harmed = {} PROVE Paired(transcript')
  <2>1. CASE deleted
    BY <1>1, <1>7, <2>1, EmptyIsPaired
  <2>2. CASE ~deleted
    <3>1. Executing(transcript, Turn(p), calls[p])
      BY <1>1, <1>8, <2>2 DEF TranscriptWhole
    <3>2. \A j \in DOMAIN transcript : transcript[j].role = "tool" => transcript[j].turn # Turn(p)
      <4>1. NoResultsYet(p) /\ iter[p] \in iter[p]..maxIterations - 1
        BY <1>1, <1>2, <1>8 DEF TranscriptWhole
      <4> QED BY <1>2, <4>1, TurnTyped DEF NoResultsYet
    <3>3. calls[p] \in Nat /\ Turn(p) \in Turns(Prompts)
      BY <1>2, TurnTyped, RunAssumption DEF TypeOK
    <3>4. ResultsOf(p) \in Seq(Message) /\ ResultsOf(p) = [c \in 1..calls[p] |-> ToolMessage(Turn(p), c)]
      BY <1>2, ResultsTyped DEF ResultsOf
    <3>5. Paired(transcript \o ResultsOf(p))
      BY <1>2, <3>1, <3>2, <3>3, <3>4, ResultsComplete
    <3> QED BY <1>4, <2>2, <3>5
  <2> QED BY <2>1, <2>2
<1>9. ASSUME harmed = {}, NEW q \in Prompts, Working(q)' \/ pc'[q] = "none" PROVE NoResultsYet(q)'
  <2>1. Working(q) \/ pc[q] = "none"
    BY <1>1, <1>3, <1>5, <1>9 DEF Working, Waits
  <2>2. NoResultsYet(q) /\ iter[q] <= iter'[q] /\ (q = p => iter'[q] = iter[q] + 1)
    <3>1. q = p => w = "system"
      BY <1>5, <1>9 DEF Working, Waits
    <3>2. iter[q] \in Nat /\ (q = p => iter'[q] = iter[q] + 1) /\ (q # p => iter'[q] = iter[q])
      BY <1>2, <1>4, <1>5, <3>1 DEF TypeOK
    <3> QED BY <1>9, <2>1, <3>2 DEF TranscriptWhole
  <2>3. ASSUME NEW j \in DOMAIN transcript', transcript'[j].role = "tool"
        PROVE  \/ \E i \in DOMAIN transcript : transcript[i] = transcript'[j]
               \/ \A k \in iter'[q]..maxIterations - 1 : transcript'[j].turn # <<q, k>>
    <3>1. CASE deleted
      BY <1>4, <2>3, <3>1
    <3>2. CASE ~deleted
      <4> DEFINE r == ResultsOf(p)
      <4>1. r \in Seq(Message) /\ r = [c \in 1..calls[p] |-> ToolMessage(Turn(p), c)]
        BY <1>2, ResultsTyped DEF ResultsOf
      <4>2. \A c \in DOMAIN r : r[c].turn = <<p, iter[p]>>
        BY <1>2, <4>1, TurnTyped DEF ToolMessage
      <4> HIDE DEF r
      <4>3. transcript' = transcript \o r
        BY <1>4, <3>2 DEF r
      <4>4. (\E i \in DOMAIN transcript : transcript[i] = transcript'[j])
            \/ (\E c \in DOMAIN r : r[c] = transcript'[j])
        <5>1. \/ j \in DOMAIN transcript /\ transcript'[j] = transcript[j]
              \/ j - Len(transcript) \in DOMAIN r /\ transcript'[j] = r[j - Len(transcript)]
          BY <1>2, <2>3, <4>1, <4>3, Joined
        <5> QED BY <5>1
      <4>5. \A k \in iter'[q]..maxIterations - 1 : <<p, iter[p]>> # <<q, k>>
        BY <1>2, <2>2
      <4> QED BY <4>2, <4>4, <4>5
    <3> QED BY <3>1, <3>2
  <2> QED BY <1>2, <2>2, <2>3, StillNoResults
<1> QED BY <1>1, <1>6, <1>7, <1>8, <1>9 DEF TranscriptWhole, Reading

\* What harms the transcript behind the run's back is on record.
LEMMA HarmedStep ==
  ASSUME IInv, IInv', TranscriptWhole, harmed' # {}, deleted' => transcript' = << >>,
         \A q \in Prompts : pc'[q] \in {"none", "init"} => pc[q] = pc'[q] /\ iter'[q] = iter[q]
  PROVE  TranscriptWhole'
BY DEF TranscriptWhole

LEMMA LoopWhole ==
  ASSUME IInv, IInv', TranscriptWhole, NEW p \in Prompts,
         \/ Initialized(p) \/ SystemContextReady(p) \/ HooksReturn(p) \/ HooksReject(p)
         \/ BudgetReady(p) \/ BudgetLimit(p) \/ BudgetCompacts(p) \/ RereadMessages(p)
         \/ (\E n \in 0..MaxCalls : StreamEnds(p, n) \/ ResultsLost(p, n))
         \/ StreamFallsBack(p) \/ StreamFails(p) \/ AwaitThrows(p)
         \/ (\E rejected \in BOOLEAN : BatchReturns(p, rejected))
  PROVE  TranscriptWhole'
<1>1. CASE Initialized(p)
  <2>1. /\ Working(p) /\ pc[p] = "init" /\ view' = view /\ calls' = calls
        /\ transcript' = transcript /\ deleted' = deleted /\ harmed' = harmed
    BY <1>1 DEF Initialized, Working, Waits
  <2>2. CASE p \in aborted \/ deleted
    <3>1. iter' = iter /\ \E reason \in Reasons : Finish(p, reason)
      BY <1>1, <2>2, CatchStep DEF Initialized, TopOfLoop
    <3> QED BY <2>1, <3>1, FinishIsQuiet
  <2>3. CASE ~(p \in aborted \/ deleted)
    <3>1. pc' = [pc EXCEPT ![p] = "system"] /\ iter' = [iter EXCEPT ![p] = 0]
      BY <1>1, <2>3 DEF Initialized, TopOfLoop
    <3>2. iter' = iter
      BY <2>1, <3>1 DEF TranscriptWhole, IInv, TypeOK
    <3>3. "system" \notin {"none", "init", "tools"} /\ "system" \notin Reading
      BY DEF Reading
    <3>4. pc[p] \notin {"tools", "none"} /\ pc[p] \in Waits
      BY <2>1 DEF Waits
    <3> QED BY <2>1, <3>1, <3>2, <3>3, <3>4, QuietStep
  <2> QED BY <2>2, <2>3
<1>2. CASE HooksReturn(p) \/ BudgetReady(p) \/ StreamFallsBack(p)
  <2>1. /\ pc[p] \in Reading /\ iter' = iter /\ view' = view /\ calls' = calls
        /\ transcript' = transcript /\ deleted' = deleted /\ harmed' = harmed
        /\ \E w \in {"budget", "stream", "fallback"} : pc' = [pc EXCEPT ![p] = w]
    BY <1>2 DEF HooksReturn, BudgetReady, StreamFallsBack, localVars, storeVars, Reading
  <2>2. pc[p] \notin {"tools", "none"} /\ pc[p] \in Waits
    BY <2>1 DEF Reading, Waits
  <2> QED BY <2>1, <2>2, QuietStep
<1>3. CASE SystemContextReady(p) \/ RereadMessages(p)
  <2>1. /\ pc[p] \in {"system", "resystem"} /\ iter' = iter /\ calls' = calls
        /\ view' = [view EXCEPT ![p] = transcript]
        /\ transcript' = transcript /\ deleted' = deleted /\ harmed' = harmed
        /\ \E w \in {"hook", "stream"} : pc' = [pc EXCEPT ![p] = w]
    BY <1>3 DEF SystemContextReady, RereadMessages, storeVars
  <2>2. {"hook", "stream"} \subseteq Reading
    BY DEF Reading
  <2> QED BY <2>1, <2>2, ReadStep
<1>4. CASE HooksReject(p) \/ BudgetLimit(p) \/ StreamFails(p) \/ AwaitThrows(p)
  <2>1. /\ Working(p) /\ pc[p] # "tools" /\ iter' = iter /\ view' = view /\ calls' = calls
        /\ transcript' = transcript /\ deleted' = deleted /\ harmed' = harmed
    BY <1>4 DEF HooksReject, BudgetLimit, StreamFails, AwaitThrows, localVars, Working, Waits
  <2>2. \E reason : Finish(p, reason)
    BY <1>4 DEF HooksReject, BudgetLimit, StreamFails, AwaitThrows, Catch
  <2> QED BY <2>1, <2>2, FinishIsQuiet
<1>5. CASE BudgetCompacts(p)
  BY <1>5, CompactsStep
<1>6. ASSUME NEW n \in 0..MaxCalls, StreamEnds(p, n) PROVE TranscriptWhole'
  BY <1>6, AnswerStep
<1>7. ASSUME NEW n \in 0..MaxCalls, ResultsLost(p, n) PROVE TranscriptWhole'
  <2>1. harmed' # {} /\ ~deleted' /\ iter' = iter /\ \E reason \in Reasons : Finish(p, reason)
    BY <1>7, CatchStep DEF ResultsLost, localVars
  <2>2. \A q \in Prompts : pc'[q] \in {"none", "init"} => pc[q] = pc'[q] /\ iter'[q] = iter[q]
    BY <2>1 DEF Finish, IInv, TypeOK
  <2> QED BY <2>1, <2>2, HarmedStep
<1>8. ASSUME NEW rejected \in BOOLEAN, BatchReturns(p, rejected) PROVE TranscriptWhole'
  BY <1>8, BatchStep
<1> QED BY <1>1, <1>2, <1>3, <1>4, <1>5, <1>6, <1>7, <1>8

LEMMA EndWhole ==
  ASSUME IInv, IInv', TranscriptWhole, NEW p \in Prompts,
         OnStopReturns(p) \/ PublishFinished(p) \/ RemoveRun(p)
  PROVE  TranscriptWhole'
<1>1. CASE OnStopReturns(p) \/ RemoveRun(p)
  <2>1. /\ pc[p] \in {"onStop", "published"} /\ iter' = iter /\ view' = view /\ calls' = calls
        /\ transcript' = transcript /\ deleted' = deleted /\ harmed' = harmed
        /\ \E w \in {"returned", "gone"} : pc' = [pc EXCEPT ![p] = w]
    BY <1>1 DEF OnStopReturns, RemoveRun, localVars, storeVars
  <2>2. \A w \in {"returned", "gone"} : w \notin {"none", "init", "tools"} \cup Reading \cup Waits
    BY DEF Reading, Waits
  <2> QED BY <2>1, <2>2, QuietStep
<1>2. CASE PublishFinished(p)
  <2>1. /\ pc[p] = "returned" /\ pc'[p] = "published" /\ \A q \in Prompts \ {p} : pc'[q] = pc[q]
        /\ \A q \in Prompts \ {p} : iter'[q] = iter[q] /\ view'[q] = view[q] /\ calls'[q] = calls[q]
        /\ transcript' = transcript /\ deleted' = deleted /\ harmed' = harmed
    BY <1>2 DEF PublishFinished, storeVars, IInv, TypeOK
  <2>2. \A q \in Prompts \ {p} : (NoResultsYet(q)' <=> NoResultsYet(q)) /\ Turn(q)' = Turn(q)
    BY <2>1 DEF NoResultsYet, Turn
  <2>3. ASSUME harmed = {}, NEW q \in Prompts
        PROVE  /\ pc'[q] = "tools" /\ ~deleted' => Executing(transcript', Turn(q)', calls'[q])
               /\ pc'[q] \in Reading => Paired(view'[q])
               /\ Working(q)' \/ pc'[q] = "none" => NoResultsYet(q)'
    <3>1. CASE q = p
      BY <2>1, <3>1 DEF Reading, Working, Waits
    <3>2. CASE q # p
      BY <2>1, <2>2, <2>3, <3>2 DEF TranscriptWhole, Reading, Working
    <3> QED BY <3>1, <3>2
  <2>4. (\A q \in Prompts : pc'[q] # "tools") => \A q \in Prompts : pc[q] # "tools"
    BY <2>1
  <2> QED BY <2>1, <2>3, <2>4 DEF TranscriptWhole, Reading
<1> QED BY <1>1, <1>2

\* The user's message is stored before the manager is asked, between two messages of
\* a run of another prompt, or in the middle of its batch.
LEMMA SubmitStep ==
  ASSUME IInv, IInv', TranscriptWhole, NEW p \in Prompts, SubmitPrompt(p)
  PROVE  TranscriptWhole'
<1>1. /\ transcript' = Append(transcript, UserMessage(p)) /\ ~deleted /\ deleted' = deleted
      /\ iter' = iter /\ view' = view /\ calls' = calls /\ harmed' = harmed
      /\ pc' = pc \/ pc' = [pc EXCEPT ![p] = "init"]
  BY DEF SubmitPrompt, localVars
<1>2. TypeOK /\ TypeOK' /\ transcript \in Seq(Message) /\ pc[p] = "none"
  BY DEF IInv, MapHoldsRun, SubmitPrompt, TypeOK
<1>3. /\ \A q \in Prompts : pc'[q] = pc[q] \/ (q = p /\ pc'[q] = "init")
      /\ \A q \in Prompts : pc'[q] = "tools" <=> pc[q] = "tools"
      /\ \A q \in Prompts : pc'[q] \in Reading <=> pc[q] \in Reading
  <2>1. \A q \in Prompts : pc'[q] = pc[q] \/ (q = p /\ pc'[q] = "init")
    BY <1>1, <1>2 DEF TypeOK
  <2> QED BY <1>2, <2>1 DEF Reading
<1>4. \A q \in Prompts : pc'[q] \in {"none", "init"} => iter'[q] = 0
  BY <1>1, <1>2, <1>3 DEF TranscriptWhole
<1>5. ASSUME NEW q \in Prompts, harmed = {}, Working(q)' \/ pc'[q] = "none" PROVE NoResultsYet(q)'
  <2>1. Working(q) \/ pc[q] = "none"
    BY <1>2, <1>3, <1>5 DEF Working
  <2>2. NoResultsYet(q) /\ iter[q] <= iter'[q]
    <3>1. iter[q] \in Nat
      BY <1>2 DEF TypeOK
    <3> QED BY <1>1, <1>5, <2>1, <3>1 DEF TranscriptWhole
  <2>3. \A j \in DOMAIN transcript' : transcript'[j].role = "tool" =>
          \E i \in DOMAIN transcript : transcript[i] = transcript'[j]
    <3>1. UserMessage(p) \in Message /\ UserMessage(p).role # "tool"
      BY DEF UserMessage, Message, MessagesOf, Turns
    <3> QED BY <1>1, <1>2, <3>1, Appended
  <2> QED BY <1>2, <2>2, <2>3, StillNoResults
<1>6. ASSUME NEW q \in Prompts, harmed = {}
      PROVE  /\ pc'[q] = "tools" /\ ~deleted' => Executing(transcript', Turn(q)', calls'[q])
             /\ pc'[q] \in Reading => Paired(view'[q])
             /\ Working(q)' \/ pc'[q] = "none" => NoResultsYet(q)'
  <2>1. Turn(q)' = Turn(q)
    BY <1>1 DEF Turn
  <2>2. pc[q] = "tools" => Executing(transcript, Turn(q), calls[q])
    BY <1>1, <1>6 DEF TranscriptWhole
  <2>3. pc[q] = "tools" => Executing(transcript', Turn(q), calls[q])
    BY <1>1, <1>2, <2>2, UserMessageKeeps
  <2>4. pc[q] \in Reading => Paired(view[q])
    BY <1>6 DEF TranscriptWhole, Reading
  <2> QED BY <1>1, <1>3, <1>5, <1>6, <2>1, <2>3, <2>4
<1>7. harmed = {} /\ (\A q \in Prompts : pc'[q] # "tools") => Paired(transcript')
  <2>1. harmed = {} /\ (\A q \in Prompts : pc[q] # "tools") => Paired(transcript)
    BY DEF TranscriptWhole
  <2> QED BY <1>1, <1>2, <1>3, <2>1, UserMessageKeeps
<1> QED BY <1>1, <1>4, <1>6, <1>7 DEF TranscriptWhole, Reading

\* A client that only looks, or signals, changes nothing of it.
LEMMA SameWhole ==
  ASSUME TranscriptWhole, pc' = pc, iter' = iter, view' = view, calls' = calls,
         transcript' = transcript, deleted' = deleted, harmed' = harmed
  PROVE  TranscriptWhole'
<1>1. \A q \in Prompts : /\ NoResultsYet(q)' <=> NoResultsYet(q)
                         /\ Turn(q)' = Turn(q) /\ (Working(q)' <=> Working(q))
  BY DEF NoResultsYet, Turn, Working
<1> QED BY <1>1 DEF TranscriptWhole

LEMMA DeleteStep ==
  ASSUME TranscriptWhole, DeleteSession
  PROVE  TranscriptWhole'
<1>1. /\ transcript' = << >> /\ deleted' = TRUE /\ pc' = pc /\ iter' = iter /\ view' = view
      /\ calls' = calls /\ harmed' = harmed
  BY DEF DeleteSession, localVars
<1>2. \A q \in Prompts : NoResultsYet(q)' /\ (Working(q)' <=> Working(q))
  BY <1>1 DEF NoResultsYet, Working
<1> QED BY <1>1, <1>2, EmptyIsPaired DEF TranscriptWhole

LEMMA NextWhole == IInv /\ IInv' /\ TranscriptWhole /\ [Next]_runVars => TranscriptWhole'
<1> SUFFICES ASSUME IInv, IInv', TranscriptWhole, [Next]_runVars PROVE TranscriptWhole'
  OBVIOUS
<1>1. ASSUME NEW p \in Prompts, CheckPrompt(p) \/ SubmitToDeleted(p) \/ Abort(p) \/ SubmitPrompt(p)
      PROVE  TranscriptWhole'
  <2>1. CASE CheckPrompt(p) \/ SubmitToDeleted(p) \/ Abort(p)
    BY <2>1, SameWhole DEF CheckPrompt, SubmitToDeleted, Abort, localVars, storeVars
  <2>2. CASE SubmitPrompt(p)
    BY <2>2, SubmitStep
  <2> QED BY <1>1, <2>1, <2>2
<1>2. ASSUME NEW p \in Prompts, RunStep(p) PROVE TranscriptWhole'
  BY <1>2, LoopWhole, EndWhole DEF RunStep
<1>3. CASE DeleteSession
  BY <1>3, DeleteStep
<1>4. ASSUME NEW n \in 0..1, CutTranscript(n) PROVE TranscriptWhole'
  <2>1. harmed' # {} /\ ~deleted' /\ pc' = pc /\ iter' = iter
    BY <1>4 DEF CutTranscript, localVars
  <2> QED BY <2>1, HarmedStep
<1>5. CASE UNCHANGED runVars
  BY <1>5, SameWhole DEF runVars, localVars, storeVars
<1> QED BY <1>1, <1>2, <1>3, <1>4, <1>5 DEF Next

LEMMA Invariance == Spec => []IInv
BY InitInv, NextInv, PTL DEF Spec

LEMMA WholeInvariance == Spec => []TranscriptWhole
BY WholeInit, NextWhole, Invariance, PTL DEF Spec

\* Between batches every stored call has its result, whatever aborts, hooks and
\* compactions did, for transcripts, batches and sessions of any length.
THEOREM TranscriptStaysPaired == Spec => []TranscriptPaired
<1>1. TranscriptWhole => TranscriptPaired
  BY DEF TranscriptWhole, TranscriptPaired
<1> QED BY <1>1, WholeInvariance, PTL

\* The provider is only given messages whose calls have their results.
THEOREM ProviderGetsPaired == Spec => []ProviderSeesPaired
<1>1. TranscriptWhole => ProviderSeesPaired
  BY DEF TranscriptWhole, ProviderSeesPaired
<1> QED BY <1>1, WholeInvariance, PTL

\* Every variable keeps its type; no run begins more iterations than it may.
THEOREM TypeCorrect == Spec => []TypeOK
BY Invariance, PTL DEF IInv

\* A session never has two runs at once.
THEOREM OneRunAtATime == Spec => []OneRun
<1>1. IInv => OneRun
  BY DEF IInv, MapHoldsRun, OneRun, Live, Ended
<1> QED BY <1>1, Invariance, PTL

\* The stored status is "running" exactly while a run works.
THEOREM StatusIsRunning == Spec => []StatusFollowsRun
<1>1. IInv => StatusFollowsRun
  BY DEF IInv, StatusOfStop, StatusFollowsRun
<1> QED BY <1>1, Invariance, PTL

\* The finished event and the stored status tell clients the same.
THEOREM EventAgreesWithStatus == Spec => []EventMatchesStatus
<1>1. IInv => EventMatchesStatus
  <2> SUFFICES ASSUME IInv, NEW p \in Prompts, pc[p] = "published", ~deleted, stop[p] # "thrown"
               PROVE  /\ finished[p] = "completed" <=> status = "idle"
                      /\ finished[p] = "cancelled" <=> status = "cancelled"
    BY DEF EventMatchesStatus
  <2>1. stop[p] \in Reasons /\ finished[p] = Outcome(p) /\ status = StatusFor(stop[p])
    BY DEF IInv, StatusOfStop, Ended
  <2> QED BY <2>1, StatusForStops DEF Outcome
<1> QED BY <1>1, Invariance, PTL
-----------------------------------------------------------------------------
(* What is said after an abort. *)

\* A step adds no message of the assistant's, but one of a run that was not aborted.
AddsNoneOf ==
  \A i \in DOMAIN transcript' : transcript'[i].role = "assistant" =>
    \/ \E j \in DOMAIN transcript : transcript[j] = transcript'[i]
    \/ transcript'[i].turn[1] \notin aborted

LEMMA ResultsAddNone ==
  ASSUME TypeOK, NEW p \in Prompts, NEW r \in Seq(Message), \A c \in DOMAIN r : r[c].role = "tool",
         transcript' = transcript \o r
  PROVE  AddsNoneOf
<1>1. transcript \in Seq(Message)
  BY DEF TypeOK
<1> QED BY <1>1, Joined DEF AddsNoneOf

LEMMA StepAddsNone == IInv /\ [Next]_runVars => AddsNoneOf
<1> SUFFICES ASSUME IInv, [Next]_runVars PROVE AddsNoneOf
  OBVIOUS
<1>1. TypeOK /\ transcript \in Seq(Message)
  BY DEF IInv, TypeOK
<1>2. CASE transcript' = transcript
  BY <1>2 DEF AddsNoneOf
<1>3. ASSUME NEW p \in Prompts, SubmitPrompt(p) PROVE AddsNoneOf
  <2>1. UserMessage(p) \in Message /\ UserMessage(p).role = "user"
    BY DEF UserMessage, Message, MessagesOf, Turns
  <2>2. transcript' = Append(transcript, UserMessage(p))
    BY <1>3 DEF SubmitPrompt
  <2> QED BY <1>1, <2>1, <2>2, Appended DEF AddsNoneOf
<1>4. ASSUME NEW p \in Prompts, NEW n \in 0..MaxCalls, StreamEnds(p, n) PROVE AddsNoneOf
  <2>1. CASE StopsAfterStream(p) \/ deleted
    BY <1>2, <1>4, <2>1 DEF StreamEnds
  <2>2. CASE ~(StopsAfterStream(p) \/ deleted)
    <3>1. n \in Nat /\ p \notin aborted /\ transcript' = Append(transcript, Assistant(Turn(p), n))
      BY <1>4, <2>2, RunAssumption DEF StreamEnds, StopsAfterStream
    <3>2. Assistant(Turn(p), n) \in Message /\ Assistant(Turn(p), n).turn[1] = p
      BY <1>1, <3>1, TurnTyped DEF Assistant, Message, MessagesOf, Turn
    <3> QED BY <1>1, <3>1, <3>2, Appended DEF AddsNoneOf
  <2> QED BY <2>1, <2>2
<1>5. ASSUME NEW n \in Nat, n < Len(transcript), transcript' = KeepLast(transcript, n) PROVE AddsNoneOf
  BY <1>1, <1>5, KeptAreOld DEF AddsNoneOf
<1>6. ASSUME NEW p \in Prompts, BudgetCompacts(p) PROVE AddsNoneOf
  <2>1. PICK n \in KeepCounts(view[p]) :
          transcript' = IF n < Len(transcript) THEN KeepLast(transcript, n) ELSE transcript
    BY <1>6 DEF BudgetCompacts
  <2>2. n \in Nat
    <3>1. view[p] \in Seq(Message)
      BY <1>1 DEF TypeOK
    <3> QED BY <3>1, KeepCountsTyped
  <2> QED BY <1>2, <1>5, <2>1, <2>2
<1>7. ASSUME NEW p \in Prompts, NEW rejected \in BOOLEAN, BatchReturns(p, rejected) PROVE AddsNoneOf
  <2>1. CASE deleted
    BY <1>2, <1>7, <2>1 DEF BatchReturns
  <2>2. CASE ~deleted
    <3>1. ResultsOf(p) \in Seq(Message) /\ transcript' = transcript \o ResultsOf(p)
      BY <1>1, <1>7, <2>2, ResultsTyped DEF BatchReturns
    <3>2. \A c \in DOMAIN ResultsOf(p) : ResultsOf(p)[c].role = "tool"
      BY DEF ResultsOf, ToolMessage
    <3> QED BY <1>1, <3>1, <3>2, ResultsAddNone
  <2> QED BY <2>1, <2>2
<1>8. ASSUME NEW p \in Prompts, NEW n \in 0..MaxCalls, ResultsLost(p, n) PROVE AddsNoneOf
  <2> DEFINE r == SubSeq(ResultsOf(p), 1, n)
  <2>1. /\ ResultsOf(p) \in Seq(Message) /\ n \in Nat /\ n < calls[p] /\ calls[p] \in Nat
        /\ transcript' = transcript \o r
    <3>1. calls \in [Prompts -> 0..MaxCalls] /\ MaxCalls \in Nat
      BY <1>1, RunAssumption DEF TypeOK
    <3>2. calls[p] \in Nat /\ n \in Nat
      BY <3>1
    <3> QED BY <1>1, <1>8, <3>2, ResultsTyped DEF ResultsLost
  <2>2. Len(ResultsOf(p)) = calls[p] /\ \A c \in 1..calls[p] : ResultsOf(p)[c].role = "tool"
    BY <2>1 DEF ResultsOf, ToolMessage
  <2>3. r \in Seq(Message) /\ \A c \in DOMAIN r : r[c].role = "tool"
    <3> DEFINE s == ResultsOf(p)
    <3>1. s \in Seq(Message) /\ Len(s) = calls[p] /\ \A c \in 1..calls[p] : s[c].role = "tool"
      BY <2>1, <2>2
    <3> HIDE DEF s
    <3>2. /\ SubSeq(s, 1, n) \in Seq(Message)
          /\ Len(SubSeq(s, 1, n)) = n /\ \A c \in 1..n : SubSeq(s, 1, n)[c] = s[c]
      BY <2>1, <3>1
    <3>3. DOMAIN SubSeq(s, 1, n) = 1..n
      BY <3>2, LenProperties
    <3>4. \A c \in 1..n : c \in 1..calls[p]
      BY <2>1
    <3> QED BY <3>1, <3>2, <3>3, <3>4 DEF s
  <2> QED BY <1>1, <2>1, <2>3, ResultsAddNone
<1>9. ASSUME NEW p \in Prompts, RunStep(p) PROVE AddsNoneOf
  <2>1. CASE \/ Initialized(p) \/ SystemContextReady(p) \/ HooksReturn(p) \/ HooksReject(p)
             \/ BudgetReady(p) \/ BudgetLimit(p) \/ RereadMessages(p)
             \/ StreamFallsBack(p) \/ StreamFails(p) \/ AwaitThrows(p)
             \/ OnStopReturns(p) \/ PublishFinished(p) \/ RemoveRun(p)
    BY <1>2, <2>1 DEF Initialized, SystemContextReady, HooksReturn, HooksReject, BudgetReady,
       BudgetLimit, RereadMessages, StreamFallsBack, StreamFails, AwaitThrows, OnStopReturns,
       PublishFinished, RemoveRun, storeVars
  <2> QED BY <1>4, <1>6, <1>7, <1>8, <1>9, <2>1 DEF RunStep
<1>10. CASE DeleteSession
  BY <1>10 DEF DeleteSession, AddsNoneOf
<1>11. ASSUME NEW n \in 0..1, CutTranscript(n) PROVE AddsNoneOf
  BY <1>5, <1>11 DEF CutTranscript
<1>12. ASSUME NEW p \in Prompts, CheckPrompt(p) \/ SubmitToDeleted(p) \/ Abort(p) PROVE AddsNoneOf
  BY <1>2, <1>12 DEF CheckPrompt, SubmitToDeleted, Abort, storeVars
<1>13. CASE UNCHANGED runVars
  BY <1>2, <1>13 DEF runVars, storeVars
<1> QED BY <1>3, <1>9, <1>10, <1>11, <1>12, <1>13 DEF Next

\* Nothing the provider says for an aborted run is stored: collectStream and the
\* check behind it see the signal, so no tool call of the answer is started.
THEOREM NothingAfterAbort == Spec => SilentAfterAbort
<1> DEFINE Silent == \A p \in aborted : \A i \in AssistantTurns(transcript', p) :
                       \E j \in AssistantTurns(transcript, p) : transcript[j] = transcript'[i]
<1>1. AddsNoneOf => Silent
  BY DEF AddsNoneOf, AssistantTurns
<1>2. IInv /\ [Next]_runVars => [Silent]_runVars
  BY <1>1, StepAddsNone
<1> QED BY <1>2, Invariance, PTL DEF Spec, SilentAfterAbort
-----------------------------------------------------------------------------
(* Liveness. An iteration goes through a run's awaits in one order, and so does *)
(* the end of the run; only the step from the batch to the next iteration goes  *)
(* back, and an aborted run does not take it.                                   *)

\* The awaits of a run in their order, up to its removal from the map.
Place ==
  [none |-> 0, init |-> 1, system |-> 2, hook |-> 3, budget |-> 4, resystem |-> 5, stream |-> 6,
   fallback |-> 7, tools |-> 8, onStop |-> 9, returned |-> 10, published |-> 11, gone |-> 12]

\* It has said how it ended, and the manager has forgotten it.
RunOver(p) == finished[p] # "none" /\ active # p

\* It is at the k-th await or a later one, in its iteration i if it still works.
Reaches(p, k, i) == Place[pc[p]] >= k /\ (Working(p) => iter[p] = i)

\* It begins the iteration after i; no aborted run does.
GoesOn(p, i) == pc[p] = "system" /\ iter[p] = i + 1 /\ p \notin aborted

\* What a run that ends has left behind, and what there is of one that has begun.
RunRecorded ==
  \A p \in Prompts :
    /\ pc[p] \in {"published", "gone"} => finished[p] # "none"
    /\ p \in aborted \/ request[p] = "accepted" => pc[p] # "none"

LEMMA Places ==
  /\ Place["none"] = 0 /\ Place["init"] = 1 /\ Place["system"] = 2 /\ Place["hook"] = 3
  /\ Place["budget"] = 4 /\ Place["resystem"] = 5 /\ Place["stream"] = 6 /\ Place["fallback"] = 7
  /\ Place["tools"] = 8 /\ Place["onStop"] = 9 /\ Place["returned"] = 10
  /\ Place["published"] = 11 /\ Place["gone"] = 12
BY DEF Place

LEMMA FinishEnds ==
  ASSUME TypeOK, NEW p \in Prompts, NEW reason, Finish(p, reason)
  PROVE  pc'[p] \in {"onStop", "returned"}
BY DEF TypeOK, Finish

LEMMA CatchEnds ==
  ASSUME TypeOK, NEW p \in Prompts, Catch(p)
  PROVE  pc'[p] \in {"onStop", "returned"}
BY FinishEnds DEF Catch

\* Every step of a run takes it further, but the one into its next iteration.
LEMMA RunStepMoves ==
  ASSUME TypeOK, NEW p \in Prompts, RunStep(p), pc[p] = "init" => iter[p] = 0
  PROVE  \/ Place[pc'[p]] > Place[pc[p]] /\ (Working(p)' => iter'[p] = iter[p])
         \/ /\ pc[p] = "tools" /\ p \notin aborted
            /\ pc'[p] = "system" /\ iter'[p] = iter[p] + 1
<1> DEFINE Moves ==
      \/ Place[pc'[p]] > Place[pc[p]] /\ (Working(p)' => iter'[p] = iter[p])
      \/ /\ pc[p] = "tools" /\ p \notin aborted
         /\ pc'[p] = "system" /\ iter'[p] = iter[p] + 1
<1>1. ASSUME pc[p] \in Waits, pc'[p] \in {"onStop", "returned"} PROVE Moves
  BY <1>1, Places DEF Waits, Working
<1>2. CASE Initialized(p)
  <2>1. CASE p \in aborted \/ deleted
    BY <1>1, <1>2, <2>1, CatchEnds DEF Initialized, TopOfLoop, Waits
  <2>2. CASE ~(p \in aborted \/ deleted)
    BY <1>2, <2>2, Places DEF Initialized, TopOfLoop, TypeOK
  <2> QED BY <2>1, <2>2
<1>3. CASE SystemContextReady(p) \/ HooksReturn(p) \/ BudgetReady(p) \/ BudgetCompacts(p)
           \/ RereadMessages(p) \/ StreamFallsBack(p)
  BY <1>3, Places DEF SystemContextReady, HooksReturn, BudgetReady, BudgetCompacts, RereadMessages,
     StreamFallsBack, TypeOK, localVars
<1>4. CASE HooksReject(p) \/ BudgetLimit(p) \/ StreamFails(p)
  BY <1>1, <1>4, FinishEnds DEF HooksReject, BudgetLimit, StreamFails, Waits
<1>5. CASE AwaitThrows(p)
  BY <1>1, <1>5, CatchEnds DEF AwaitThrows, Waits
<1>6. ASSUME NEW n \in 0..MaxCalls, StreamEnds(p, n) PROVE Moves
  <2>1. CASE StopsAfterStream(p) \/ deleted
    BY <1>1, <1>6, <2>1, CatchEnds DEF StreamEnds, Waits
  <2>2. CASE ~(StopsAfterStream(p) \/ deleted) /\ n = 0
    BY <1>1, <1>6, <2>2, FinishEnds DEF StreamEnds, Waits
  <2>3. CASE ~(StopsAfterStream(p) \/ deleted) /\ n # 0
    BY <1>6, <2>3, Places DEF StreamEnds, TypeOK
  <2> QED BY <2>1, <2>2, <2>3
<1>7. ASSUME NEW n \in 0..MaxCalls, ResultsLost(p, n) PROVE Moves
  BY <1>1, <1>7, CatchEnds DEF ResultsLost, Waits
<1>8. ASSUME NEW rejected \in BOOLEAN, BatchReturns(p, rejected) PROVE Moves
  <2>1. CASE deleted
    BY <1>1, <1>8, <2>1, CatchEnds DEF BatchReturns, Waits
  <2>2. CASE ~deleted /\ (p \in aborted \/ rejected \/ ~MoreIterations(p))
    BY <1>1, <1>8, <2>2, FinishEnds DEF BatchReturns, Waits
  <2>3. CASE ~deleted /\ p \notin aborted /\ ~rejected /\ MoreIterations(p)
    BY <1>8, <2>3 DEF BatchReturns, TopOfLoop, TypeOK
  <2> QED BY <2>1, <2>2, <2>3
<1>9. CASE OnStopReturns(p) \/ PublishFinished(p) \/ RemoveRun(p)
  <2>1. \/ pc[p] = "onStop" /\ pc'[p] = "returned"
        \/ pc[p] = "returned" /\ pc'[p] = "published"
        \/ pc[p] = "published" /\ pc'[p] = "gone"
    BY <1>9 DEF OnStopReturns, PublishFinished, RemoveRun, TypeOK
  <2> QED BY <2>1, Places DEF Working, Waits
<1> QED BY <1>2, <1>3, <1>4, <1>5, <1>6, <1>7, <1>8, <1>9 DEF RunStep

\* A step of one run moves no other.
LEMMA OneRunMoves ==
  ASSUME TypeOK, NEW p \in Prompts, NEW q \in Prompts, p # q, RunStep(q)
  PROVE  pc'[p] = pc[p] /\ iter'[p] = iter[p]
BY DEF RunStep, Initialized, SystemContextReady, HooksReturn, HooksReject,
   BudgetReady, BudgetLimit, BudgetCompacts, RereadMessages, StreamEnds, StreamFallsBack,
   StreamFails, BatchReturns, ResultsLost, AwaitThrows, OnStopReturns, PublishFinished,
   RemoveRun, TopOfLoop, Catch, Finish, localVars, TypeOK

\* A step leaves a run where it is, or is the run's own, or begins it.
LEMMA OthersStay ==
  ASSUME IInv, NEW p \in Prompts, [Next]_runVars, ~RunStep(p), pc[p] # "none"
  PROVE  pc'[p] = pc[p] /\ iter'[p] = iter[p]
<1>1. ASSUME NEW q \in Prompts, CheckPrompt(q) \/ SubmitToDeleted(q) \/ Abort(q)
      PROVE  pc'[p] = pc[p] /\ iter'[p] = iter[p]
  BY <1>1 DEF CheckPrompt, SubmitToDeleted, Abort, localVars
<1>2. ASSUME NEW q \in Prompts, SubmitPrompt(q) PROVE pc'[p] = pc[p] /\ iter'[p] = iter[p]
  <2>1. p # q
    BY <1>2 DEF SubmitPrompt, IInv, MapHoldsRun
  <2> QED BY <1>2, <2>1 DEF SubmitPrompt, localVars, IInv, TypeOK
<1>3. ASSUME NEW q \in Prompts, RunStep(q) PROVE pc'[p] = pc[p] /\ iter'[p] = iter[p]
  <2>1. p # q
    BY <1>3
  <2> QED BY <1>3, <2>1, OneRunMoves DEF IInv
<1>4. CASE DeleteSession \/ UNCHANGED runVars \/ \E n \in 0..1 : CutTranscript(n)
  BY <1>4 DEF DeleteSession, CutTranscript, runVars, localVars
<1> QED BY <1>1, <1>2, <1>3, <1>4 DEF Next

\* Nobody takes an abort back.
LEMMA AbortedStays == ASSUME [Next]_runVars PROVE aborted \subseteq aborted'
BY DEF Next, CheckPrompt, SubmitPrompt, SubmitToDeleted, Abort, DeleteSession, CutTranscript, RunStep,
   Initialized, SystemContextReady, HooksReturn, HooksReject, BudgetReady, BudgetLimit, BudgetCompacts,
   RereadMessages, StreamEnds, StreamFallsBack, StreamFails, BatchReturns, ResultsLost, AwaitThrows,
   OnStopReturns, PublishFinished, RemoveRun, managerVars, runVars

LEMMA RecordedStep == IInv /\ IInv' /\ RunRecorded /\ [Next]_runVars => RunRecorded'
<1> SUFFICES ASSUME IInv, IInv', RunRecorded, [Next]_runVars PROVE RunRecorded'
  OBVIOUS
<1> USE DEF RunRecorded
<1>1. ASSUME NEW q \in Prompts, CheckPrompt(q) \/ SubmitToDeleted(q)
      PROVE  RunRecorded'
  <2>1. pc' = pc /\ finished' = finished /\ aborted' = aborted
    BY <1>1 DEF CheckPrompt, SubmitToDeleted
  <2>2. request'[q] # "accepted" /\ \A p \in Prompts \ {q} : request'[p] = request[p]
    <3>1. CASE CheckPrompt(q)
      BY <3>1 DEF CheckPrompt, IInv, TypeOK
    <3>2. CASE SubmitToDeleted(q)
      BY <3>2 DEF SubmitToDeleted, IInv, TypeOK
    <3> QED BY <1>1, <3>1, <3>2
  <2> QED BY <2>1, <2>2
<1>2. ASSUME NEW q \in Prompts, SubmitPrompt(q) PROVE RunRecorded'
  <2>1. /\ finished' = finished /\ aborted' = aborted
        /\ \A p \in Prompts \ {q} : pc'[p] = pc[p] /\ request'[p] = request[p]
    BY <1>2 DEF SubmitPrompt, IInv, TypeOK
  <2>2. \/ pc'[q] = "init"
        \/ pc'[q] = pc[q] /\ request'[q] # "accepted"
    <3>1. CASE MayStart
      BY <1>2, <3>1 DEF SubmitPrompt, IInv, TypeOK
    <3>2. CASE ~MayStart
      BY <1>2, <3>2 DEF SubmitPrompt, IInv, TypeOK
    <3> QED BY <3>1, <3>2
  <2> QED BY <2>1, <2>2
<1>3. ASSUME NEW q \in Prompts, Abort(q) PROVE RunRecorded'
  <2>1. pc[q] # "none"
    BY <1>3 DEF Abort, IInv, MapHoldsRun, Working, Ended, Waits
  <2> QED BY <1>3, <2>1 DEF Abort
<1>4. ASSUME NEW q \in Prompts, RunStep(q) PROVE RunRecorded'
  <2>1. request' = request /\ aborted' = aborted
    BY <1>4 DEF RunStep, Initialized, SystemContextReady, HooksReturn, HooksReject, BudgetReady,
       BudgetLimit, BudgetCompacts, RereadMessages, StreamEnds, StreamFallsBack, StreamFails,
       BatchReturns, ResultsLost, AwaitThrows, OnStopReturns, PublishFinished, RemoveRun, managerVars
  <2>2. \A p \in Prompts \ {q} : pc'[p] = pc[p]
    BY <1>4, OneRunMoves DEF IInv
  <2>3. CASE PublishFinished(q)
    BY <2>1, <2>2, <2>3 DEF PublishFinished, Outcome, IInv, TypeOK
  <2>4. CASE RemoveRun(q)
    BY <2>1, <2>2, <2>4 DEF RemoveRun, IInv, TypeOK
  <2>5. CASE ~PublishFinished(q) /\ ~RemoveRun(q)
    <3>1. finished' = finished
      BY <1>4, <2>5 DEF RunStep, Initialized, SystemContextReady, HooksReturn, HooksReject, BudgetReady,
         BudgetLimit, BudgetCompacts, RereadMessages, StreamEnds, StreamFallsBack, StreamFails,
         BatchReturns, ResultsLost, AwaitThrows, OnStopReturns, managerVars
    <3>2. pc'[q] \in Waits \cup {"onStop", "returned"}
      BY <1>4, <2>5, FinishEnds, CatchEnds
         DEF RunStep, Initialized, SystemContextReady, HooksReturn, HooksReject,
         BudgetReady, BudgetLimit, BudgetCompacts, RereadMessages, StreamEnds, StreamFallsBack,
         StreamFails, BatchReturns, ResultsLost, AwaitThrows, OnStopReturns,
         TopOfLoop, IInv, TypeOK, Waits
    <3> QED BY <2>1, <2>2, <3>1, <3>2 DEF Waits
  <2> QED BY <2>3, <2>4, <2>5
<1>5. CASE DeleteSession \/ UNCHANGED runVars \/ \E n \in 0..1 : CutTranscript(n)
  BY <1>5 DEF DeleteSession, CutTranscript, runVars, managerVars
<1> QED BY <1>1, <1>2, <1>3, <1>4, <1>5 DEF Next

LEMMA RecordedInvariance == Spec => []RunRecorded
<1>1. Init => RunRecorded
  BY DEF Init, RunRecorded
<1> QED BY <1>1, RecordedStep, Invariance, PTL DEF Spec

\* Where a run may be, and in which order.
LEMMA PlaceIsKnown ==
  ASSUME NEW a \in Waits \cup {"none", "onStop", "returned", "published", "gone"}
  PROVE  /\ Place[a] \in Nat
         /\ Place[a] = 0 <=> a = "none"
         /\ Place[a] <= 12 /\ (Place[a] = 12 <=> a = "gone")
         /\ a \in Waits <=> Place[a] \in 1..8
<1>1. a \in {"none", "init", "system", "hook", "budget", "resystem", "stream", "fallback",
             "tools", "onStop", "returned", "published", "gone"}
  BY DEF Waits
<1> QED BY <1>1, Places DEF Waits

LEMMA PcTyped ==
  ASSUME NEW p \in Prompts
  PROVE  /\ TypeOK => pc[p] \in Waits \cup {"none", "onStop", "returned", "published", "gone"}
         /\ TypeOK' => pc'[p] \in Waits \cup {"none", "onStop", "returned", "published", "gone"}
BY DEF TypeOK

\* A step of a run that has reached an await keeps what it has reached, and its own step, taken
\* there, leads on.
LEMMA ReachStep ==
  ASSUME IInv, TranscriptWhole, IInv', NEW p \in Prompts, NEW i \in Nat, NEW k \in 1..11,
         Reaches(p, k, i), [Next]_runVars
  PROVE  /\ Reaches(p, k, i)' \/ GoesOn(p, i)'
         /\ RunStep(p) /\ ~Reaches(p, k + 1, i) => Reaches(p, k + 1, i)' \/ GoesOn(p, i)'
<1>1. /\ Place[pc[p]] \in Nat /\ Place[pc'[p]] \in Nat /\ Place[pc[p]] >= k /\ k \in Nat
      /\ pc[p] # "none" /\ (Working(p) => iter[p] = i)
  BY PlaceIsKnown, PcTyped DEF IInv, Reaches
<1>2. CASE ~RunStep(p)
  BY <1>1, <1>2, OthersStay DEF Reaches, Working
<1>3. CASE RunStep(p)
  <2>1. pc[p] = "init" => iter[p] = 0
    BY DEF TranscriptWhole
  <2>2. CASE Place[pc'[p]] > Place[pc[p]] /\ (Working(p)' => iter'[p] = iter[p])
    <3>1. Place[pc'[p]] >= k + 1
      BY <1>1, <2>2
    <3>2. Working(p)' => Working(p)
      <4>1. /\ Working(p) <=> Place[pc[p]] \in 1..8
            /\ Working(p)' <=> Place[pc'[p]] \in 1..8
        BY PlaceIsKnown, PcTyped DEF IInv, Working
      <4> QED BY <1>1, <2>2, <4>1
    <3> QED BY <1>1, <2>2, <3>1, <3>2 DEF Reaches
  <2>3. CASE pc[p] = "tools" /\ p \notin aborted /\ pc'[p] = "system" /\ iter'[p] = iter[p] + 1
    <3>1. aborted' = aborted
      BY <1>3 DEF RunStep, Initialized, SystemContextReady, HooksReturn, HooksReject, BudgetReady,
         BudgetLimit, BudgetCompacts, RereadMessages, StreamEnds, StreamFallsBack, StreamFails,
         BatchReturns, ResultsLost, AwaitThrows, OnStopReturns, PublishFinished, RemoveRun, managerVars
    <3> QED BY <1>1, <2>3, <3>1 DEF GoesOn, Working, Waits
  <2> QED BY <1>3, <2>1, <2>2, <2>3, RunStepMoves DEF IInv
<1> QED BY <1>2, <1>3

\* A run at an await gets beyond it, or into its next iteration.
Leads(p, i, k, n) == Reaches(p, k, i) ~> (Reaches(p, n, i) \/ GoesOn(p, i))

LEMMA GetsFurther ==
  ASSUME NEW p \in Prompts, NEW i \in Nat, NEW k \in 1..11, NEW n, n = k + 1
  PROVE  Spec /\ []RunsCanStep => Leads(p, i, k, n)
<1>1. IInv /\ TranscriptWhole /\ IInv' /\ Reaches(p, k, i) /\ [Next]_runVars
        => Reaches(p, k, i)' \/ GoesOn(p, i)'
  BY ReachStep
<1>2. IInv /\ TranscriptWhole /\ IInv' /\ Reaches(p, k, i) /\ ~Reaches(p, n, i)
          /\ <<RunStep(p)>>_runVars
        => Reaches(p, n, i)' \/ GoesOn(p, i)'
  BY ReachStep DEF Next
<1>3. IInv /\ Reaches(p, k, i) /\ ~Reaches(p, n, i) /\ RunsCanStep
        => ENABLED <<RunStep(p)>>_runVars
  <2>1. IInv /\ Reaches(p, k, i) /\ ~Reaches(p, n, i) => pc[p] \notin {"none", "gone"}
    BY PlaceIsKnown, PcTyped DEF IInv, Reaches, Working
  <2> QED BY <2>1 DEF RunsCanStep
<1>4. Fairness => RunFairness(p)
  BY DEF Fairness
<1> QED BY <1>1, <1>2, <1>3, <1>4, Invariance, WholeInvariance, PTL DEF Spec, RunFairness, Leads

LEMMA LastPlace ==
  ASSUME IInv, RunRecorded, NEW p \in Prompts, Place[pc[p]] >= 12
  PROVE  RunOver(p)
<1>1. pc[p] = "gone"
  BY PlaceIsKnown, PcTyped DEF IInv
<1> QED BY <1>1 DEF RunRecorded, RunOver, IInv, MapHoldsRun, Working, Ended, Waits

\* Every iteration of every run ends: the run is over, said how and is no longer the session's,
\* or it begins the iteration after, which maxIterations bounds (TypeCorrect). Nothing a client
\* does in between, a deletion included, leaves it at an await (SessionRunner.run).
THEOREM IterationEnds ==
  ASSUME NEW p \in Prompts, NEW i \in Nat
  PROVE  Spec /\ []RunsCanStep
           => (Working(p) /\ iter[p] = i ~> (RunOver(p) \/ GoesOn(p, i)))
<1>1. Spec /\ []RunsCanStep => Leads(p, i, 1, 2)
  BY GetsFurther
<1>2. Spec /\ []RunsCanStep => Leads(p, i, 2, 3)
  BY GetsFurther
<1>3. Spec /\ []RunsCanStep => Leads(p, i, 3, 4)
  BY GetsFurther
<1>4. Spec /\ []RunsCanStep => Leads(p, i, 4, 5)
  BY GetsFurther
<1>5. Spec /\ []RunsCanStep => Leads(p, i, 5, 6)
  BY GetsFurther
<1>6. Spec /\ []RunsCanStep => Leads(p, i, 6, 7)
  BY GetsFurther
<1>7. Spec /\ []RunsCanStep => Leads(p, i, 7, 8)
  BY GetsFurther
<1>8. Spec /\ []RunsCanStep => Leads(p, i, 8, 9)
  BY GetsFurther
<1>9. Spec /\ []RunsCanStep => Leads(p, i, 9, 10)
  BY GetsFurther
<1>10. Spec /\ []RunsCanStep => Leads(p, i, 10, 11)
  BY GetsFurther
<1>11. Spec /\ []RunsCanStep => Leads(p, i, 11, 12)
  BY GetsFurther
<1>12. IInv /\ Working(p) /\ iter[p] = i => Reaches(p, 1, i)
  BY PlaceIsKnown, PcTyped DEF IInv, Working, Reaches
<1>13. IInv /\ RunRecorded /\ Reaches(p, 12, i) => RunOver(p)
  BY LastPlace DEF Reaches
<1> QED
  BY <1>1, <1>2, <1>3, <1>4, <1>5, <1>6, <1>7, <1>8, <1>9, <1>10, <1>11, <1>12, <1>13,
     Invariance, RecordedInvariance, PTL DEF Leads

\* An aborted run at the k-th await or a later one.
Leaving(p, k) == p \in aborted /\ Place[pc[p]] >= k
LeavesFor(p, k, n) == Leaving(p, k) ~> Leaving(p, n)

LEMMA AbortedGetsFurther ==
  ASSUME NEW p \in Prompts, NEW k \in 1..11, NEW n, n = k + 1
  PROVE  Spec /\ []RunsCanStep => LeavesFor(p, k, n)
<1>1. ASSUME IInv, TranscriptWhole, IInv', Leaving(p, k), [Next]_runVars
      PROVE  /\ Leaving(p, k)'
             /\ RunStep(p) /\ ~Leaving(p, n) => Leaving(p, n)'
  <2>1. p \in aborted'
    BY <1>1, AbortedStays DEF Leaving
  <2>2. PICK i \in Nat : i = iter[p]
    BY <1>1, RunAssumption DEF IInv, TypeOK
  <2>3. Reaches(p, k, i)
    BY <1>1, <2>2 DEF Leaving, Reaches
  <2>4. ~GoesOn(p, i)'
    BY <2>1 DEF GoesOn
  <2>5. Leaving(p, k)'
    BY <1>1, <2>1, <2>3, <2>4, ReachStep DEF Reaches, Leaving
  <2>6. RunStep(p) /\ ~Leaving(p, n) => Leaving(p, n)'
    BY <1>1, <2>1, <2>3, <2>4, ReachStep DEF Reaches, Leaving
  <2> QED BY <2>5, <2>6
<1>2. IInv /\ TranscriptWhole /\ IInv' /\ Leaving(p, k) /\ [Next]_runVars => Leaving(p, k)'
  BY <1>1
<1>3. IInv /\ TranscriptWhole /\ IInv' /\ Leaving(p, k) /\ ~Leaving(p, n) /\ <<RunStep(p)>>_runVars
        => Leaving(p, n)'
  BY <1>1 DEF Next
<1>4. IInv /\ Leaving(p, k) /\ ~Leaving(p, n) /\ RunsCanStep => ENABLED <<RunStep(p)>>_runVars
  <2>1. IInv /\ Leaving(p, k) /\ ~Leaving(p, n) => pc[p] \notin {"none", "gone"}
    BY PlaceIsKnown, PcTyped DEF IInv, Leaving
  <2> QED BY <2>1 DEF RunsCanStep
<1>5. Fairness => RunFairness(p)
  BY DEF Fairness
<1> QED
  BY <1>2, <1>3, <1>4, <1>5, Invariance, WholeInvariance, PTL DEF Spec, RunFairness, LeavesFor

\* An abort ends its run, at whatever await it finds it and in whatever iteration: the run says
\* so and leaves the manager's map, so that the session can be prompted again.
THEOREM AbortedRunEnds ==
  ASSUME NEW p \in Prompts
  PROVE  Spec /\ []RunsCanStep => (p \in aborted ~> RunOver(p))
<1>1. Spec /\ []RunsCanStep => LeavesFor(p, 1, 2)
  BY AbortedGetsFurther
<1>2. Spec /\ []RunsCanStep => LeavesFor(p, 2, 3)
  BY AbortedGetsFurther
<1>3. Spec /\ []RunsCanStep => LeavesFor(p, 3, 4)
  BY AbortedGetsFurther
<1>4. Spec /\ []RunsCanStep => LeavesFor(p, 4, 5)
  BY AbortedGetsFurther
<1>5. Spec /\ []RunsCanStep => LeavesFor(p, 5, 6)
  BY AbortedGetsFurther
<1>6. Spec /\ []RunsCanStep => LeavesFor(p, 6, 7)
  BY AbortedGetsFurther
<1>7. Spec /\ []RunsCanStep => LeavesFor(p, 7, 8)
  BY AbortedGetsFurther
<1>8. Spec /\ []RunsCanStep => LeavesFor(p, 8, 9)
  BY AbortedGetsFurther
<1>9. Spec /\ []RunsCanStep => LeavesFor(p, 9, 10)
  BY AbortedGetsFurther
<1>10. Spec /\ []RunsCanStep => LeavesFor(p, 10, 11)
  BY AbortedGetsFurther
<1>11. Spec /\ []RunsCanStep => LeavesFor(p, 11, 12)
  BY AbortedGetsFurther
<1>12. IInv /\ RunRecorded /\ p \in aborted => Leaving(p, 1)
  BY PlaceIsKnown, PcTyped DEF IInv, RunRecorded, Leaving
<1>13. IInv /\ RunRecorded /\ Leaving(p, 12) => RunOver(p)
  BY LastPlace DEF Leaving
<1> QED
  BY <1>1, <1>2, <1>3, <1>4, <1>5, <1>6, <1>7, <1>8, <1>9, <1>10, <1>11, <1>12, <1>13,
     Invariance, RecordedInvariance, PTL DEF LeavesFor
=============================================================================

---------------------------- MODULE RuntimeProofs ---------------------------
(* What createRuntime puts together. However creation fails and whenever       *)
(* dispose is called, no more is left open than the code forgets, and no       *)
(* provider is disposed twice, for any hook and tool providers; the store that *)
(* keeps its sessions in one file does what the store in memory does; and a    *)
(* response of a model yields its tool calls whole, for any calls, however     *)
(* their fragments are interleaved.                                            *)
EXTENDS RuntimeLifecycle, FileSessionStore, ProviderCall,
        FiniteSetTheorems, SequenceTheorems, WellFoundedInduction, TLAPS

(***************************************************************************)
(* Sequences without repetition                                            *)
(***************************************************************************)
(* What dispose goes through last is what was initialised first: reversing a   *)
(* list of providers keeps its members, each once.                             *)
LEMMA ReverseKeeps ==
  ASSUME NEW S, NEW s \in Seq(S)
  PROVE  /\ Reverse(s) \in Seq(S)
         /\ Range(Reverse(s)) = Range(s)
         /\ IsInjective(s) => IsInjective(Reverse(s))
<1> DEFINE n == Len(s)
<1>1. n \in Nat /\ DOMAIN s = 1..n /\ \A i \in 1..n : s[i] \in S
  BY LenProperties, ElementOfSeq
<1>2. DOMAIN Reverse(s) = 1..n /\ \A i \in 1..n : Reverse(s)[i] = s[n - i + 1]
  BY <1>1 DEF Reverse
<1>3. \A i \in 1..n : n - i + 1 \in 1..n /\ n - (n - i + 1) + 1 = i
  BY <1>1
<1> HIDE DEF n
<1>4. Reverse(s) \in Seq(S)
  <2>1. Reverse(s) = [i \in 1..n |-> s[n - i + 1]]
    BY DEF Reverse, n
  <2>2. \A i \in 1..n : s[n - i + 1] \in S
    BY <1>1, <1>3
  <2>3. Reverse(s) \in [1..n -> S]
    BY <2>1, <2>2
  <2> QED
    BY <1>1, <2>3, SeqDef
<1>5. Range(Reverse(s)) = Range(s)
  <2>1. \A i \in 1..n : Reverse(s)[i] \in Range(s)
    BY <1>1, <1>2, <1>3 DEF Range
  <2>2. \A i \in 1..n : s[i] \in Range(Reverse(s))
    <3> SUFFICES ASSUME NEW i \in 1..n PROVE s[i] \in Range(Reverse(s))
      OBVIOUS
    <3>1. n - i + 1 \in 1..n /\ Reverse(s)[n - i + 1] = s[i]
      BY <1>2, <1>3
    <3> QED
      BY <1>2, <3>1 DEF Range
  <2> QED
    BY <1>1, <1>2, <2>1, <2>2 DEF Range
<1>6. ASSUME IsInjective(s) PROVE IsInjective(Reverse(s))
  <2> SUFFICES ASSUME NEW i \in 1..n, NEW j \in 1..n, Reverse(s)[i] = Reverse(s)[j] PROVE i = j
    BY <1>2 DEF IsInjective
  <2>1. n - i + 1 = n - j + 1
    BY <1>1, <1>2, <1>3, <1>6 DEF IsInjective
  <2> QED
    BY <1>1, <2>1
<1> QED
  BY <1>4, <1>5, <1>6

(* Two lists without a common member, one after the other, have none twice.    *)
LEMMA ConcatInjective ==
  ASSUME NEW S, NEW s \in Seq(S), NEW t \in Seq(S),
         IsInjective(s), IsInjective(t), Range(s) \cap Range(t) = {}
  PROVE  IsInjective(s \o t)
<1>1. /\ Len(s) \in Nat /\ Len(t) \in Nat
      /\ DOMAIN s = 1..Len(s) /\ DOMAIN t = 1..Len(t) /\ DOMAIN (s \o t) = 1..(Len(s) + Len(t))
      /\ \A i \in 1..(Len(s) + Len(t)) : (s \o t)[i] = IF i <= Len(s) THEN s[i] ELSE t[i - Len(s)]
  BY ConcatProperties, LenProperties
<1> SUFFICES ASSUME NEW i \in 1..(Len(s) + Len(t)), NEW j \in 1..(Len(s) + Len(t)),
                    (s \o t)[i] = (s \o t)[j]
             PROVE  i = j
  BY <1>1 DEF IsInjective
<1>2. \A k \in 1..(Len(s) + Len(t)) :
        IF k <= Len(s) THEN k \in DOMAIN s ELSE k - Len(s) \in DOMAIN t
  BY <1>1
<1>3. CASE i <= Len(s) /\ j <= Len(s)
  BY <1>1, <1>2, <1>3 DEF IsInjective
<1>4. CASE ~(i <= Len(s)) /\ ~(j <= Len(s))
  <2>1. i - Len(s) = j - Len(s)
    BY <1>1, <1>2, <1>4 DEF IsInjective
  <2> QED
    BY <1>1, <2>1
<1>5. ASSUME NEW k \in 1..(Len(s) + Len(t)), NEW l \in 1..(Len(s) + Len(t)),
             k <= Len(s), ~(l <= Len(s))
      PROVE  (s \o t)[k] # (s \o t)[l]
  <2>1. (s \o t)[k] \in Range(s)
    BY <1>1, <1>2, <1>5 DEF Range
  <2>2. (s \o t)[l] \in Range(t)
    BY <1>1, <1>2, <1>5 DEF Range
  <2> QED
    BY <2>1, <2>2
<1> QED
  BY <1>3, <1>4, <1>5

(* What is left after the first is what there was without it.                  *)
LEMMA TailLoses ==
  ASSUME NEW S, NEW s \in Seq(S), s # << >>
  PROVE  /\ Tail(s) \in Seq(S) /\ Head(s) \in S
         /\ Range(s) = Range(Tail(s)) \cup {Head(s)}
         /\ IsInjective(s) => IsInjective(Tail(s)) /\ Head(s) \notin Range(Tail(s))
<1>1. /\ Tail(s) \in Seq(S) /\ Head(s) \in S /\ Len(Tail(s)) = Len(s) - 1
      /\ \A i \in 1..Len(Tail(s)) : Tail(s)[i] = s[i + 1]
  BY HeadTailProperties
<1>2. Len(s) \in Nat \ {0} /\ DOMAIN s = 1..Len(s) /\ DOMAIN Tail(s) = 1..Len(Tail(s)) /\ Head(s) = s[1]
  BY <1>1, EmptySeq, LenProperties
<1>3. \A i \in DOMAIN Tail(s) : i + 1 \in DOMAIN s /\ i + 1 # 1
  BY <1>1, <1>2
<1>4. \A i \in DOMAIN s : i = 1 \/ (i - 1 \in DOMAIN Tail(s) /\ s[i] = Tail(s)[i - 1])
  BY <1>1, <1>2
<1>5. 1 \in DOMAIN s
  BY <1>2
<1>6. Range(s) = Range(Tail(s)) \cup {Head(s)}
  <2>1. \A i \in DOMAIN s : s[i] \in Range(Tail(s)) \cup {Head(s)}
    BY <1>2, <1>4 DEF Range
  <2>2. \A i \in DOMAIN Tail(s) : Tail(s)[i] \in Range(s)
    BY <1>1, <1>2, <1>3 DEF Range
  <2> QED
    BY <1>2, <1>5, <2>1, <2>2 DEF Range
<1>7. ASSUME IsInjective(s) PROVE IsInjective(Tail(s)) /\ Head(s) \notin Range(Tail(s))
  <2>1. \A i, j \in DOMAIN Tail(s) : Tail(s)[i] = Tail(s)[j] => i = j
    <3> SUFFICES ASSUME NEW i \in DOMAIN Tail(s), NEW j \in DOMAIN Tail(s), Tail(s)[i] = Tail(s)[j]
                 PROVE  i = j
      OBVIOUS
    <3>1. i + 1 = j + 1
      BY <1>1, <1>2, <1>3, <1>7 DEF IsInjective
    <3> QED
      BY <1>1, <1>2, <3>1
  <2>2. \A i \in DOMAIN Tail(s) : Tail(s)[i] # Head(s)
    BY <1>1, <1>2, <1>3, <1>5, <1>7 DEF IsInjective
  <2> QED
    BY <2>1, <2>2 DEF IsInjective, Range
<1> QED
  BY <1>1, <1>6, <1>7

(***************************************************************************)
(* The inductive invariant                                                 *)
(***************************************************************************)
Typed ==
  /\ creator \in {"hooks", "storage", "construct", "ready", "up", "failing", "failed"}
  /\ loader \in {"off", "next", "connect", "list", "import", "done", "failed"}
  /\ stopping \in {"no", "waiting", "closing", "done"}
  /\ hooked \in 0..Len(Hooked)
  /\ open \subseteq Resources /\ stranded \subseteq Resources /\ closing \in Seq(Resources)
  /\ disposals \in [Resources -> Nat]

\* The tool providers noted so far are the first ones, and the one that is loading is noted.
SinkIsPrefix ==
  /\ sink \in Seq(Resources) /\ Len(sink) <= Len(Tooled)
  /\ \A i \in 1..Len(sink) : sink[i] = Tooled[i]
  /\ loader \in {"connect", "list", "import"} => sink # << >>
  /\ loader \in {"connect", "list"} => Current \in Mcp
  /\ loader = "import" => Current \notin Mcp

NoneDisposed == \A r \in Resources : disposals[r] = 0

\* Nobody has the runtime yet.
BeforeRuntime ==
  creator \in {"hooks", "storage", "construct"} =>
    /\ loader = "off" /\ stopping = "no" /\ stranded = {}
    /\ open \subseteq Range(Hooked) \cup {OwnHooks, Storage} /\ NoneDisposed
    /\ Storage \in open => creator = "construct"

\* What is open is known to the first dispose, which has not begun to close, and a module whose
\* load threw was the end of the loading.
RuntimeOpen ==
  creator \in {"ready", "up", "failing"} =>
    /\ loader # "off" /\ (loader # "failed" => stranded = {})
    /\ creator # "ready" => loader \in {"done", "failed"}
    /\ creator = "up" => loader = "done"
    /\ stopping \in {"no", "waiting"} =>
         open \subseteq Range(Hooked) \cup {OwnHooks, Storage} \cup Range(sink) /\ NoneDisposed

\* What is open is still to be closed, and was not closed before.
Closing ==
  stopping = "closing" =>
    /\ open \subseteq Range(closing) /\ IsInjective(closing)
    /\ \A r \in Range(closing) : disposals[r] = 0

Disposal ==
  /\ \/ stopping = "no" \/ creator \in {"up", "failing"}
     \/ stopping = "done" /\ creator = "failed"
  /\ stopping = "done" => open = {} /\ loader \in {"done", "failed"}

\* Creation failed without a runtime to dispose.
Failed ==
  creator = "failed" /\ stopping = "no" =>
    open \subseteq {OwnHooks} \cup Mcp /\ (loader = "off" => open \subseteq {OwnHooks})

LifeInv ==
  /\ Typed /\ SinkIsPrefix /\ BeforeRuntime /\ RuntimeOpen
  /\ Closing /\ Disposal /\ Failed /\ DisposedOnce

\* The parts of the invariant are always expanded; the operators they are made of are not.
USE DEF Typed, SinkIsPrefix, BeforeRuntime, RuntimeOpen, Closing, Disposal, Failed

(* Counting the hook providers that have been asked.                           *)
LEMMA Counting ==
  ASSUME NEW n \in Nat
  PROVE  /\ 0 \in 0..n
         /\ \A i \in 0..n : i # n => i + 1 \in 1..n /\ i + 1 \in 0..n
  OBVIOUS

(* A prefix of the tool providers has each once, and no others.                *)
LEMMA SinkIsPart ==
  ASSUME ProvidersOnce, LifeInv
  PROVE  IsInjective(sink) /\ Range(sink) \subseteq Range(Tooled)
<1>1. /\ Len(sink) \in Nat /\ DOMAIN sink = 1..Len(sink)
      /\ Len(Tooled) \in Nat /\ DOMAIN Tooled = 1..Len(Tooled)
  BY LenProperties DEF LifeInv, ProvidersOnce
<1>2. \A i \in DOMAIN sink : i \in DOMAIN Tooled /\ sink[i] = Tooled[i]
  BY <1>1 DEF LifeInv
<1> QED
  BY <1>2 DEF IsInjective, Range, ProvidersOnce

(* The current provider is one of those noted.                                 *)
LEMMA CurrentIsNoted ==
  ASSUME ProvidersOnce, LifeInv, loader \in {"connect", "list", "import"}
  PROVE  Current \in Range(sink)
<1>1. Len(sink) \in 1..Len(sink) /\ DOMAIN sink = 1..Len(sink)
  BY LenProperties, EmptySeq DEF LifeInv
<1> QED
  BY <1>1 DEF Current, Range

(* Noting a provider.                                                          *)
LEMMA SinkGrows ==
  ASSUME ProvidersOnce, LifeInv, Len(sink) # Len(Tooled), sink' = Append(sink, Tooled[Len(sink) + 1])
  PROVE  /\ sink' \in Seq(Resources) /\ sink' # << >> /\ Len(sink') <= Len(Tooled)
         /\ \A i \in 1..Len(sink') : sink'[i] = Tooled[i]
         /\ Tooled[Len(sink) + 1] \in Resources \cap Range(Tooled)
         /\ Range(sink') = Range(sink) \cup {Tooled[Len(sink) + 1]}
<1> DEFINE n == Len(sink)
           p == Tooled[n + 1]
<1>1. n \in Nat /\ Len(Tooled) \in Nat /\ n + 1 \in 1..Len(Tooled) /\ DOMAIN Tooled = 1..Len(Tooled)
  BY LenProperties DEF LifeInv, ProvidersOnce
<1>2. p \in Resources \cap Range(Tooled)
  BY <1>1, ElementOfSeq DEF ProvidersOnce, Range
<1>3. /\ sink' \in Seq(Resources) /\ sink' # << >> /\ Len(sink') = n + 1
      /\ \A i \in 1..n : sink'[i] = sink[i]
      /\ sink'[n + 1] = p
  BY <1>2, AppendProperties DEF LifeInv
<1>4. DOMAIN sink = 1..n /\ DOMAIN sink' = 1..(n + 1)
  BY <1>3, LenProperties DEF LifeInv
<1> HIDE DEF n, p
<1>5. \A i \in 1..(n + 1) : i \in 1..n \/ i = n + 1
  BY <1>1 DEF n
<1>6. \A i \in 1..Len(sink') : sink'[i] = Tooled[i]
  BY <1>3, <1>5 DEF LifeInv, n, p
<1>7. 1..n \subseteq 1..(n + 1) /\ n + 1 \in 1..(n + 1)
  BY <1>1
<1>8. Range(sink') = Range(sink) \cup {p}
  BY <1>3, <1>4, <1>5, <1>7 DEF Range
<1> QED
  BY <1>1, <1>2, <1>3, <1>6, <1>8 DEF n, p

(***************************************************************************)
(* The steps                                                               *)
(***************************************************************************)
LEMMA LifeStart == ProvidersOnce => (LifeInit => LifeInv)
<1> SUFFICES ASSUME ProvidersOnce, LifeInit PROVE LifeInv
  OBVIOUS
<1>1. Len(Hooked) \in Nat /\ Len(Tooled) \in Nat
  BY LenProperties DEF ProvidersOnce
<1>2. << >> \in Seq(Resources) /\ Len(<< >>) = 0
  BY EmptySeq
<1>3. Typed
  BY <1>1, <1>2, Counting DEF LifeInit
<1>4. SinkIsPrefix
  BY <1>1, <1>2 DEF LifeInit
<1>5. BeforeRuntime /\ DisposedOnce
  BY DEF LifeInit, NoneDisposed, DisposedOnce
<1>6. RuntimeOpen /\ Closing /\ Disposal /\ Failed
  BY DEF LifeInit
<1> QED
  BY <1>3, <1>4, <1>5, <1>6 DEF LifeInv

(* createRuntime: whatever fails before there is a runtime, all providers and  *)
(* the storage are given back, each once.                                      *)
LEMMA CreateKeeps ==
  ASSUME ProvidersOnce, LifeInv,
         LoadHooks \/ HookFails \/ OpenStorage \/ CreateFails \/ Construct \/ Ready
  PROVE  LifeInv'
<1>1. Len(Hooked) \in Nat /\ DOMAIN Hooked = 1..Len(Hooked)
  BY LenProperties DEF ProvidersOnce
<1>2. \A rs : Disposed(rs) \in [Resources -> Nat]
  BY DEF Disposed, LifeInv
<1>3. ASSUME NoneDisposed, NEW rs, disposals' = Disposed(rs)
      PROVE  disposals' \in [Resources -> Nat] /\ DisposedOnce'
  BY <1>3 DEF Disposed, LifeInv, DisposedOnce, NoneDisposed
<1>4. CASE LoadHooks
  <2>1. CASE hooked = Len(Hooked)
    BY <1>4, <2>1 DEF LoadHooks, LifeInv, NoneDisposed, DisposedOnce, Current
  <2>2. CASE hooked # Len(Hooked)
    <3>0. hooked \in 0..Len(Hooked)
      BY DEF LifeInv
    <3>1. hooked + 1 \in 1..Len(Hooked)
      BY <1>1, <2>2, <3>0, Counting
    <3>2. Hooked[hooked + 1] \in Range(Hooked)
      BY <1>1, <3>1 DEF Range
    <3>3. {Hooked[hooked + 1], OwnHooks} \subseteq Resources \ {Storage}
      BY <3>2 DEF Resources, ProvidersOnce
    <3> QED
      BY <1>4, <2>2, <3>1, <3>2, <3>3 DEF LoadHooks, LifeInv, NoneDisposed, DisposedOnce, Current
  <2> QED
    BY <2>1, <2>2
<1>5. CASE HookFails
  <2>1. hooked + 1 \in 1..Len(Hooked) /\ hooked' = hooked + 1 /\ hooked' \in 0..Len(Hooked)
    BY <1>1, <1>5 DEF HookFails, LifeInv
  <2>2. Hooked[hooked'] \in Range(Hooked)
    BY <1>1, <2>1 DEF Range
  <2>3. open' \subseteq {OwnHooks} /\ stranded' \subseteq Resources
    BY <1>5, <2>2 DEF HookFails, LifeInv, Resources
  <2> QED
    BY <1>3, <1>5, <2>1, <2>3 DEF HookFails, LifeInv, NoneDisposed, Current
<1>6. CASE OpenStorage
  BY <1>6 DEF OpenStorage, LifeInv, NoneDisposed, DisposedOnce, Resources, Current
<1>7. ASSUME FailEarly, creator \in {"storage", "construct"}
      PROVE  /\ creator' = "failed" /\ open' \subseteq {OwnHooks} /\ open' \subseteq Resources
             /\ disposals' \in [Resources -> Nat] /\ DisposedOnce'
  <2>1. NoneDisposed /\ open \subseteq Range(Hooked) \cup {OwnHooks, Storage}
    BY <1>7 DEF LifeInv
  <2> QED
    BY <1>3, <1>7, <2>1 DEF FailEarly, LifeInv
<1>8. CASE CreateFails
  BY <1>7, <1>8 DEF CreateFails, LifeInv, Current
<1>9. CASE Construct
  <2>1. CASE FailEarly
    BY <1>7, <1>9, <2>1 DEF Construct, LifeInv
  <2>2. CASE creator' = "ready" /\ UNCHANGED <<open, disposals>>
    BY <1>9, <2>2 DEF Construct, LifeInv, NoneDisposed, DisposedOnce
  <2> QED
    BY <1>9, <2>1, <2>2 DEF Construct
<1>10. CASE Ready
  BY <1>10 DEF Ready, LifeInv, NoneDisposed, DisposedOnce, Current
<1> QED
  BY <1>4, <1>5, <1>6, <1>8, <1>9, <1>10

(* The loading of tool providers, which goes on when nobody has the runtime:   *)
(* what is opened has been noted before.                                       *)
LEMMA LoadKeeps ==
  ASSUME ProvidersOnce, LifeInv,
         LoadNext \/ Connected \/ Listed \/ Imported \/ LoadFails \/ McpTimeout
  PROVE  LifeInv'
<1>1. /\ loader \in {"next", "connect", "list", "import"}
      /\ UNCHANGED <<creator, hooked, stopping, closing, asked, disposals>>
  BY DEF LoadNext, Connected, Listed, Imported, Registers, LoadFails, McpTimeout
<1>2. /\ creator \in {"ready", "failed"} /\ stopping = "no"
  BY <1>1 DEF LifeInv
<1>3. /\ Typed /\ SinkIsPrefix /\ DisposedOnce
      /\ creator = "ready" => /\ NoneDisposed /\ stranded = {}
                             /\ open \subseteq Range(Hooked) \cup {OwnHooks, Storage} \cup Range(sink)
      /\ creator = "failed" => open \subseteq {OwnHooks} \cup Mcp
  BY <1>1, <1>2 DEF LifeInv
<1>4. ASSUME loader' \in {"next", "connect", "list", "import", "done", "failed"}, SinkIsPrefix',
             open' \subseteq Resources, stranded' \subseteq Resources,
             loader' = "failed" \/ stranded' = stranded \/ creator = "failed",
             creator = "ready" => open' \subseteq Range(Hooked) \cup {OwnHooks, Storage} \cup Range(sink'),
             creator = "failed" => open' \subseteq {OwnHooks} \cup Mcp
      PROVE  LifeInv'
  <2>1. Typed'
    BY <1>1, <1>3, <1>4
  <2>2. BeforeRuntime' /\ Closing' /\ Disposal'
    BY <1>1, <1>2
  <2>3. RuntimeOpen'
    BY <1>1, <1>2, <1>3, <1>4 DEF NoneDisposed
  <2>4. Failed'
    BY <1>1, <1>2, <1>3, <1>4
  <2>5. DisposedOnce'
    BY <1>1, <1>3 DEF DisposedOnce
  <2> QED
    BY <1>4, <2>1, <2>2, <2>3, <2>4, <2>5 DEF LifeInv
<1>5. CASE LoadNext
  <2>1. CASE Len(sink) = Len(Tooled)
    BY <1>3, <1>4, <1>5, <2>1 DEF LoadNext
  <2>2. CASE Len(sink) # Len(Tooled)
    <3> DEFINE p == Tooled[Len(sink) + 1]
    <3>1. /\ sink' = Append(sink, p) /\ loader' \in {"connect", "import", "failed"}
          /\ stranded' = stranded
          /\ IF p \in Mcp THEN open' = open \cup {p} /\ loader' = "connect"
                          ELSE open' = open /\ loader' # "connect"
      BY <1>5, <2>2 DEF LoadNext
    <3>2. /\ sink' \in Seq(Resources) /\ sink' # << >> /\ Len(sink') <= Len(Tooled)
          /\ \A i \in 1..Len(sink') : sink'[i] = Tooled[i]
          /\ p \in Resources \cap Range(Tooled)
          /\ Range(sink') = Range(sink) \cup {p}
      BY <2>2, <3>1, SinkGrows
    <3>3. Current' = p
      BY <1>3, <3>1, <3>2, AppendProperties DEF Current
    <3> HIDE DEF p
    <3>4. SinkIsPrefix'
      BY <3>1, <3>2, <3>3
    <3> QED
      BY <1>3, <1>4, <3>1, <3>2, <3>4
  <2> QED
    BY <2>1, <2>2
<1>6. CASE Connected
  BY <1>3, <1>4, <1>6 DEF Connected, Current
<1>7. CASE Registers /\ (loader = "list" \/ (loader = "import" /\ creator # "failed"))
  <2>1. Current \in Range(sink) /\ Current \in Resources
    BY <1>7, CurrentIsNoted, SinkIsPart DEF Resources
  <2>2. creator = "failed" => Current \in Mcp
    BY <1>3, <1>7
  <2> QED
    BY <1>3, <1>4, <1>7, <2>1, <2>2 DEF Registers
<1>8. CASE LoadFails
  <2>1. Current \in Resources
    BY <1>8, CurrentIsNoted, SinkIsPart DEF Resources, LoadFails
  <2>2. /\ loader' \in {"next", "failed"} /\ open' \subseteq open
        /\ sink' = sink /\ stranded' \subseteq stranded \cup {Current}
    BY <1>8 DEF LoadFails, Rejected
  <2>3. CASE stranded' = stranded
    BY <1>3, <1>4, <2>2, <2>3
  <2>4. CASE loader' = "failed"
    BY <1>3, <1>4, <2>1, <2>2, <2>4
  <2>5. CASE stranded' # stranded /\ loader' = "next"
    BY <1>3, <1>8, <2>5 DEF LoadFails, Rejected
  <2> QED
    BY <2>2, <2>3, <2>4, <2>5
<1> QED
  BY <1>5, <1>6, <1>7, <1>8 DEF Listed, Imported, McpTimeout

(* What the first dispose goes through has everything that can be open, once.  *)
LEMMA AllToClose ==
  ASSUME ProvidersOnce, LifeInv, NEW c,
         c = Reverse(sink) \o <<OwnHooks>> \o Reverse(Hooked) \o <<Storage>>
  PROVE  /\ c \in Seq(Resources) /\ IsInjective(c)
         /\ Range(c) = Range(Hooked) \cup {OwnHooks, Storage} \cup Range(sink)
<1> DEFINE s == Reverse(sink)
           o == <<OwnHooks>>
           h == Reverse(Hooked)
           d == <<Storage>>
<1>1. IsInjective(sink) /\ Range(sink) \subseteq Range(Tooled)
  BY SinkIsPart
<1>2. s \in Seq(Resources) /\ Range(s) = Range(sink) /\ IsInjective(s)
  BY <1>1, ReverseKeeps DEF LifeInv
<1>3. h \in Seq(Resources) /\ Range(h) = Range(Hooked) /\ IsInjective(h)
  BY ReverseKeeps DEF ProvidersOnce
<1>4. ASSUME NEW r \in Resources
      PROVE  <<r>> \in Seq(Resources) /\ Range(<<r>>) = {r} /\ IsInjective(<<r>>)
  <2>1. <<r>> \in Seq(Resources) /\ DOMAIN <<r>> = {1} /\ <<r>>[1] = r
    BY <1>4
  <2> QED
    BY <2>1 DEF Range, IsInjective
<1>5. d \in Seq(Resources) /\ Range(d) = {Storage} /\ IsInjective(d)
  BY <1>4 DEF Resources
<1>6. o \in Seq(Resources) /\ Range(o) = {OwnHooks} /\ IsInjective(o)
  BY <1>4 DEF Resources
<1>7. ASSUME NEW u \in Seq(Resources), NEW v \in Seq(Resources), IsInjective(u), IsInjective(v),
             Range(u) \cap Range(v) = {}
      PROVE  /\ u \o v \in Seq(Resources) /\ IsInjective(u \o v)
             /\ Range(u \o v) = Range(u) \cup Range(v)
  BY <1>7, ConcatProperties, RangeConcatenation, ConcatInjective
<1> HIDE DEF s, o, h, d
<1>8. /\ s \o o \in Seq(Resources) /\ IsInjective(s \o o)
      /\ Range(s \o o) = Range(sink) \cup {OwnHooks}
  <2>1. Range(s) \cap Range(o) = {}
    BY <1>1, <1>2, <1>6 DEF ProvidersOnce
  <2> QED
    BY <1>2, <1>6, <1>7, <2>1
<1>9. /\ s \o o \o h \in Seq(Resources) /\ IsInjective(s \o o \o h)
      /\ Range(s \o o \o h) = Range(sink) \cup {OwnHooks} \cup Range(Hooked)
  <2>1. Range(s \o o) \cap Range(h) = {}
    BY <1>1, <1>3, <1>8 DEF ProvidersOnce
  <2> QED
    BY <1>3, <1>7, <1>8, <2>1
<1>10. /\ s \o o \o h \o d \in Seq(Resources) /\ IsInjective(s \o o \o h \o d)
       /\ Range(s \o o \o h \o d) = Range(sink) \cup {OwnHooks} \cup Range(Hooked) \cup {Storage}
  <2>1. Range(s \o o \o h) \cap Range(d) = {}
    BY <1>1, <1>5, <1>9 DEF ProvidersOnce
  <2> QED
    BY <1>5, <1>7, <1>9, <2>1
<1>11. c = s \o o \o h \o d
  BY DEF s, o, h, d
<1> QED
  BY <1>10, <1>11

(* dispose: what was open is closed one after another.                         *)
LEMMA DisposeKeeps ==
  ASSUME ProvidersOnce, LifeInv, Dispose \/ DisposeWaits \/ DisposeOne \/ DisposeEnds
  PROVE  LifeInv'
<1>1. UNCHANGED <<hooked, loader, sink, stranded>>
  BY DEF Dispose, DisposeWaits, DisposeOne, DisposeEnds
<1>2. Typed /\ SinkIsPrefix /\ DisposedOnce
  BY DEF LifeInv
<1>3. CASE Dispose
  BY <1>1, <1>3 DEF Dispose, LifeInv, NoneDisposed, DisposedOnce, Current
<1>4. CASE DisposeWaits
  <2>1. /\ creator \in {"up", "failing"} /\ NoneDisposed
        /\ open \subseteq Range(Hooked) \cup {OwnHooks, Storage} \cup Range(sink)
    BY <1>4 DEF DisposeWaits, LifeInv
  <2>2. /\ closing' \in Seq(Resources) /\ IsInjective(closing')
        /\ Range(closing') = Range(Hooked) \cup {OwnHooks, Storage} \cup Range(sink)
    BY <1>4, AllToClose DEF DisposeWaits
  <2>3. Range(closing') \subseteq Resources
    BY <2>2, RangeOfSeq
  <2>4. /\ stopping' = "closing" /\ loader \in {"done", "failed"}
        /\ UNCHANGED <<creator, open, disposals>>
    BY <1>4 DEF DisposeWaits
  <2> QED
    BY <1>1, <1>2, <2>1, <2>2, <2>3, <2>4 DEF LifeInv, NoneDisposed, DisposedOnce, Current
<1>5. CASE DisposeOne
  <2> DEFINE h == Head(closing)
             t == Tail(closing)
  <2>1. /\ stopping = "closing" /\ closing # << >> /\ closing' = t
        /\ open' = open \ {h} /\ disposals' = Disposed({h})
        /\ UNCHANGED <<creator, stopping>>
    BY <1>5 DEF DisposeOne
  <2>2. /\ creator \in {"up", "failing"}
        /\ open \subseteq Range(closing) /\ IsInjective(closing)
        /\ \A r \in Range(closing) : disposals[r] = 0
    BY <2>1 DEF LifeInv
  <2>3. /\ t \in Seq(Resources) /\ h \in Resources
        /\ Range(closing) = Range(t) \cup {h}
        /\ IsInjective(t) /\ h \notin Range(t)
    BY <1>2, <2>1, <2>2, TailLoses
  <2>4. Range(t) \subseteq Resources
    BY <2>3, RangeOfSeq
  <2> HIDE DEF h, t
  <2>5. /\ disposals' \in [Resources -> Nat]
        /\ \A r \in Resources : disposals'[r] = IF r = h THEN disposals[r] + 1 ELSE disposals[r]
    BY <1>2, <2>1 DEF Disposed
  <2>6. disposals'[h] = 1 /\ \A r \in Range(t) : disposals'[r] = 0
    BY <1>2, <2>2, <2>3, <2>4, <2>5
  <2>7. DisposedOnce'
    <3> SUFFICES ASSUME NEW r \in Resources PROVE disposals'[r] <= 1
      BY DEF DisposedOnce
    <3>1. disposals[r] <= 1
      BY <1>2 DEF DisposedOnce
    <3> QED
      BY <2>5, <2>6, <3>1
  <2>8. Typed' /\ SinkIsPrefix' /\ Closing'
    BY <1>1, <1>2, <2>1, <2>2, <2>3, <2>5, <2>6 DEF Current
  <2>9. BeforeRuntime' /\ RuntimeOpen' /\ Disposal' /\ Failed'
    BY <1>1, <2>1, <2>2 DEF LifeInv
  <2> QED
    BY <2>7, <2>8, <2>9 DEF LifeInv
<1>6. CASE DisposeEnds
  <2>1. /\ stopping = "closing" /\ closing = << >> /\ stopping' = "done"
        /\ UNCHANGED <<open, closing, disposals>>
        /\ creator' = IF creator = "failing" THEN "failed" ELSE creator
    BY <1>6 DEF DisposeEnds
  <2>2. creator \in {"up", "failing"} /\ loader \in {"done", "failed"} /\ open = {}
    <3>1. Range(<< >>) = {}
      BY DEF Range
    <3> QED
      BY <2>1, <3>1 DEF LifeInv
  <2> QED
    BY <1>1, <1>2, <2>1, <2>2 DEF LifeInv, DisposedOnce, Current
<1> QED
  BY <1>3, <1>4, <1>5, <1>6

LEMMA LifeStep == ProvidersOnce => (LifeInv /\ [LifeNext]_lifeVars => LifeInv')
<1> SUFFICES ASSUME ProvidersOnce, LifeInv, [LifeNext]_lifeVars PROVE LifeInv'
  OBVIOUS
<1>1. CASE UNCHANGED lifeVars
  BY <1>1 DEF lifeVars, LifeInv, NoneDisposed, DisposedOnce, Current
<1>2. CASE LifeNext
  BY <1>2, CreateKeeps, LoadKeeps, DisposeKeeps DEF LifeNext
<1> QED
  BY <1>1, <1>2

(* For any hook and tool providers, of which any may fail and any MCP server   *)
(* be silent (createRuntime, resolveHooks, loadToolProviders): nothing that    *)
(* can be given back is held after dispose; after a failure without a runtime  *)
(* to dispose, nothing but the hooks' own resources and, where constructRuntime*)
(* threw, MCP servers. However often dispose is called, also while the first   *)
(* call waits for the providers to load or closes them, no provider is         *)
(* disposed twice; and a module that nobody can dispose is in no runtime.      *)
THEOREM NothingIsLeaked == LifeSpec => []NothingLeaks
<1>1. LifeInv => NothingLeaks
  BY DEF LifeInv, NothingLeaks, NothingHeld
<1> QED
  BY LifeAssumption, LifeStart, LifeStep, <1>1, PTL DEF LifeSpec

(* What a runtime keeps has its type, for any providers.                       *)
THEOREM LifeTypeCorrect == LifeSpec => []LifeTypeOK
<1> DEFINE Counted == asked \in 0..MaxDisposals
<1>1. LifeInit => Counted
  BY LifeAssumption DEF LifeInit
<1>2. Counted /\ [LifeNext]_lifeVars => Counted'
  <2>1. [LifeNext]_lifeVars => asked' = asked \/ (asked < MaxDisposals /\ asked' = asked + 1)
    BY DEF LifeNext, LoadHooks, HookFails, OpenStorage, CreateFails, Construct, Ready, LoadNext,
           Connected, Listed, Imported, Registers, LoadFails, McpTimeout, Dispose, DisposeWaits,
           DisposeOne, DisposeEnds, lifeVars
  <2> QED
    BY <2>1, LifeAssumption
<1>3. LifeInv /\ Counted => LifeTypeOK
  BY DEF LifeInv, LifeTypeOK
<1> QED
  BY LifeAssumption, LifeStart, LifeStep, <1>1, <1>2, <1>3, PTL DEF LifeSpec

HIDE DEF Typed, SinkIsPrefix, BeforeRuntime, RuntimeOpen, Closing, Disposal, Failed

(***************************************************************************)
(* Sorting                                                                 *)
(***************************************************************************)
(* A finite set of numbers has an ascending list: the place of a number is how *)
(* many there are up to it.                                                    *)
LEMMA AscendingExists ==
  ASSUME NEW S, S \subseteq Nat, IsFiniteSet(S)
  PROVE  \E s \in [1..Cardinality(S) -> S] : Ascending(s)
<1> DEFINE upTo(x) == {y \in S : y <= x}
           n == Cardinality(S)
           place == [x \in S |-> Cardinality(upTo(x))]
<1>1. n \in Nat
  BY FS_CardinalityType
<1>2. ASSUME NEW x \in S  PROVE IsFiniteSet(upTo(x)) /\ place[x] \in 1..n
  <2>1. upTo(x) \in SUBSET S /\ x \in upTo(x)
    OBVIOUS
  <2>2. IsFiniteSet(upTo(x)) /\ Cardinality(upTo(x)) <= n /\ Cardinality(upTo(x)) \in Nat
    BY <2>1, FS_Subset, FS_CardinalityType
  <2>3. Cardinality(upTo(x)) # 0
    BY <2>1, <2>2, FS_EmptySet
  <2> QED
    BY <1>1, <2>2, <2>3
<1>3. ASSUME NEW x \in S, NEW y \in S, x < y  PROVE place[x] < place[y]
  <2>1. upTo(x) \in SUBSET upTo(y) /\ y \in upTo(y) /\ y \notin upTo(x)
    <3>1. ~(y <= x) /\ y <= y
      BY <1>3
    <3>2. ASSUME NEW z \in S, z <= x  PROVE z <= y
      BY <1>3, <3>2
    <3>3. \A z \in upTo(x) : z \in upTo(y)
      BY <3>2
    <3> QED
      BY <3>1, <3>3
  <2>2. IsFiniteSet(upTo(y)) /\ Cardinality(upTo(x)) \in Nat /\ Cardinality(upTo(y)) \in Nat
    BY <1>2, FS_CardinalityType
  <2>3. Cardinality(upTo(x)) <= Cardinality(upTo(y)) /\ Cardinality(upTo(y)) # Cardinality(upTo(x))
    BY <2>1, <2>2, FS_Subset
  <2> QED
    BY <2>2, <2>3
<1>4. place \in Injection(S, 1..n)
  <2>1. place \in [S -> 1..n]
    BY <1>2
  <2>2. ASSUME NEW x \in S, NEW y \in S, place[x] = place[y]  PROVE x = y
    <3>1. ~(x < y) /\ ~(y < x)
      BY <1>2, <1>3, <2>2
    <3> QED
      BY <3>1
  <2> HIDE DEF place, n
  <2> QED
    BY <2>1, <2>2 DEF Injection, IsInjective
<1>5. place \in Surjection(S, 1..n)
  <2>1. IsFiniteSet(1..n) /\ Cardinality(1..n) = n
    BY <1>1, FS_Interval
  <2> HIDE DEF place
  <2> QED
    BY <1>4, <2>1, FS_Injection
<1> DEFINE s == [i \in 1..n |-> CHOOSE x \in S : place[x] = i]
<1>6. ASSUME NEW i \in 1..n  PROVE s[i] \in S /\ place[s[i]] = i
  <2> HIDE DEF place
  <2>1. \E x \in S : place[x] = i
    BY <1>5 DEF Surjection
  <2> QED
    BY <2>1
<1>7. s \in [1..n -> S]
  <2> HIDE DEF place
  <2> QED
    BY <1>6
<1>8. ASSUME NEW i \in 1..n, NEW j \in 1..n, i < j  PROVE s[i] < s[j]
  <2> HIDE DEF s, place
  <2>1. s[i] \in Nat /\ s[j] \in Nat /\ place[s[i]] < place[s[j]]
    BY <1>6, <1>8
  <2>2. CASE s[j] = s[i]
    BY <1>6, <1>8, <2>2
  <2>3. CASE s[j] < s[i]
    <3>1. place[s[j]] < place[s[i]]
      BY <1>3, <1>6, <2>3
    <3> QED
      BY <1>6, <1>8, <3>1
  <2> QED
    BY <2>1, <2>2, <2>3
<1> HIDE DEF s, place
<1> QED
  BY <1>7, <1>8 DEF Ascending

(* Sorted lists the set in ascending order, all of it.                         *)
LEMMA SortedLists ==
  ASSUME NEW S, S \subseteq Nat, IsFiniteSet(S)
  PROVE  /\ Sorted(S) \in [1..Cardinality(S) -> S] /\ Cardinality(S) \in Nat
         /\ Ascending(Sorted(S))
         /\ {Sorted(S)[i] : i \in 1..Cardinality(S)} = S
<1> DEFINE n == Cardinality(S)
           s == Sorted(S)
<1>1. n \in Nat
  BY FS_CardinalityType
<1>2. s \in [1..n -> S] /\ Ascending(s)
  BY AscendingExists DEF Sorted
<1> HIDE DEF s
<1>3. s \in Injection(1..n, S)
  <2>1. ASSUME NEW i \in 1..n, NEW j \in 1..n, s[i] = s[j]  PROVE i = j
    <3>1. s[i] \in Nat
      BY <1>2
    <3>2. ~(i < j) /\ ~(j < i)
      BY <1>2, <2>1, <3>1 DEF Ascending
    <3> QED
      BY <3>2
  <2> QED
    BY <1>2, <2>1 DEF Injection, IsInjective
<1>4. s \in Surjection(1..n, S)
  <2>1. IsFiniteSet(1..n) /\ Cardinality(1..n) = n
    BY <1>1, FS_Interval
  <2> QED
    BY <1>3, <2>1, FS_Injection
<1>5. {s[i] : i \in 1..n} = S
  BY <1>2, <1>4 DEF Surjection
<1> QED
  BY <1>1, <1>2, <1>5 DEF s

(* There is only one ascending list of a set.                                  *)
LEMMA SortedIs ==
  ASSUME NEW n \in Nat, NEW S, NEW a \in [1..n -> S], S \subseteq Nat, Ascending(a),
         \A x \in S : \E i \in 1..n : a[i] = x
  PROVE  IsFiniteSet(S) /\ Cardinality(S) = n /\ Sorted(S) = a
<1>1. a \in Bijection(1..n, S)
  <2>1. ASSUME NEW i \in 1..n, NEW j \in 1..n, a[i] = a[j]  PROVE i = j
    <3>1. a[i] \in Nat
      OBVIOUS
    <3>2. ~(i < j) /\ ~(j < i)
      BY <2>1, <3>1 DEF Ascending
    <3> QED
      BY <3>2
  <2> QED
    BY <2>1 DEF Bijection, Injection, Surjection, IsInjective
<1>2. IsFiniteSet(1..n) /\ Cardinality(1..n) = n
  BY FS_Interval
<1>3. IsFiniteSet(S) /\ Cardinality(S) = n
  BY <1>1, <1>2, FS_Bijection DEF ExistsBijection
<1> DEFINE b == Sorted(S)
<1>4. b \in [1..n -> S] /\ Ascending(b) /\ {b[i] : i \in 1..n} = S
  BY <1>3, SortedLists
<1> HIDE DEF b
<1> DEFINE Differ == {i \in 1..n : a[i] # b[i]}
<1>5. Differ = {}
  <2> SUFFICES ASSUME Differ # {}  PROVE FALSE
    OBVIOUS
  <2>1. PICK i \in Differ : \A j \in Differ : ~(j < i)
    <3>1. Differ \in SUBSET Nat
      OBVIOUS
    <3>2. IsWellFoundedOn(OpToRel(<, Nat), Nat)
      BY NatLessThanWellFounded
    <3> HIDE DEF Differ
    <3>3. \E i \in Differ : \A j \in Differ : ~(<<j, i>> \in OpToRel(<, Nat))
      BY <3>1, <3>2, WFMin
    <3> QED
      BY <3>1, <3>3 DEF OpToRel
  <2>2. i \in 1..n /\ a[i] # b[i] /\ a[i] \in Nat /\ b[i] \in Nat
    BY <1>4
  <2>3. \A j \in 1..n : j < i => a[j] = b[j]
    BY <2>1
  <2>4. CASE a[i] < b[i]
    <3>1. PICK j \in 1..n : b[j] = a[i]
      BY <1>4, <2>2
    <3>2. CASE j < i
      BY <2>2, <2>3, <3>1, <3>2 DEF Ascending
    <3>3. CASE i < j
      BY <1>4, <2>2, <2>4, <3>1, <3>3 DEF Ascending
    <3> QED
      BY <2>2, <3>1, <3>2, <3>3
  <2>5. CASE b[i] < a[i]
    <3>1. PICK j \in 1..n : a[j] = b[i]
      BY <1>4, <2>2
    <3>2. CASE j < i
      BY <1>4, <2>2, <2>3, <3>1, <3>2 DEF Ascending
    <3>3. CASE i < j
      BY <2>2, <2>5, <3>1, <3>3 DEF Ascending
    <3> QED
      BY <2>2, <3>1, <3>2, <3>3
  <2> QED
    BY <2>2, <2>4, <2>5
<1>6. a = b
  <2>1. \A i \in 1..n : a[i] = b[i]
    BY <1>5
  <2> QED
    BY <1>4, <2>1
<1> QED
  BY <1>3, <1>6 DEF b

(***************************************************************************)
(* Filters of an array                                                     *)
(***************************************************************************)
PlacesIn(list, s) == {i \in DOMAIN list : list[i].session = s}
Mine(list, s) == PickAt(list, PlacesIn(list, s))

\* What is picked is a list of members, as many as there are places.
LEMMA PickedTyped ==
  ASSUME NEW T, NEW list \in Seq(T), NEW S \in SUBSET DOMAIN list
  PROVE  /\ IsFiniteSet(S) /\ Cardinality(S) \in Nat
         /\ Sorted(S) \in [1..Cardinality(S) -> S] /\ Ascending(Sorted(S))
         /\ \A x \in S : \E i \in 1..Cardinality(S) : Sorted(S)[i] = x
         /\ PickAt(list, S) = [i \in 1..Cardinality(S) |-> list[Sorted(S)[i]]]
         /\ PickAt(list, S) \in Seq(T) /\ Len(PickAt(list, S)) = Cardinality(S)
         /\ DOMAIN PickAt(list, S) = 1..Cardinality(S)
<1>1. DOMAIN list = 1..Len(list) /\ Len(list) \in Nat /\ \A i \in DOMAIN list : list[i] \in T
  BY LenProperties, ElementOfSeq
<1>2. IsFiniteSet(S) /\ S \subseteq Nat
  <2>1. IsFiniteSet(1..Len(list))
    BY <1>1, FS_Interval
  <2> QED
    BY <1>1, <2>1, FS_Subset
<1> DEFINE n == Cardinality(S)
           o == Sorted(S)
           p == PickAt(list, S)
<1>3. n \in Nat /\ o \in [1..n -> S] /\ Ascending(o) /\ {o[i] : i \in 1..n} = S
  BY <1>2, SortedLists
<1>4. p = [i \in 1..n |-> list[o[i]]]
  BY <1>3 DEF PickAt
<1> HIDE DEF n, o, p
<1>5. p \in [1..n -> T]
  BY <1>1, <1>3, <1>4
<1>6. p \in Seq(T) /\ Len(p) = n
  BY <1>3, <1>5, SeqDef
<1>7. \A x \in S : \E i \in 1..n : o[i] = x
  BY <1>3
<1> QED
  BY <1>2, <1>3, <1>4, <1>5, <1>6, <1>7 DEF n, o, p

(* A filter of a filter: what a session has left after some messages of the    *)
(* array were dropped is what it had, without these.                           *)
LEMMA FilteredTwice ==
  ASSUME NEW T, NEW list \in Seq(T), NEW S \in SUBSET DOMAIN list, NEW s
  PROVE  Mine(PickAt(list, S), s) = PickAt(list, S \cap PlacesIn(list, s))
<1> DEFINE m == PickAt(list, S)
           d == Sorted(S)
           k == Cardinality(S)
           Q == PlacesIn(m, s)
           o == Sorted(Q)
           n == Cardinality(Q)
           R == S \cap PlacesIn(list, s)
           a == [i \in 1..n |-> d[o[i]]]
<1>1. /\ k \in Nat /\ d \in [1..k -> S] /\ Ascending(d) /\ \A x \in S : \E i \in 1..k : d[i] = x
      /\ m = [i \in 1..k |-> list[d[i]]] /\ m \in Seq(T) /\ DOMAIN m = 1..k
  BY PickedTyped
<1> HIDE DEF m, d, k
<1>2. Q \in SUBSET DOMAIN m /\ \A i \in 1..k : i \in Q <=> list[d[i]].session = s
  BY <1>1 DEF PlacesIn
<1>3. /\ n \in Nat /\ o \in [1..n -> Q] /\ Ascending(o) /\ \A x \in Q : \E i \in 1..n : o[i] = x
      /\ PickAt(m, Q) = [i \in 1..n |-> m[o[i]]]
  <2> HIDE DEF Q
  <2>1. /\ Cardinality(Q) \in Nat
        /\ Sorted(Q) \in [1..Cardinality(Q) -> Q] /\ Ascending(Sorted(Q))
        /\ \A x \in Q : \E i \in 1..Cardinality(Q) : Sorted(Q)[i] = x
        /\ PickAt(m, Q) = [i \in 1..Cardinality(Q) |-> m[Sorted(Q)[i]]]
    BY <1>1, <1>2, PickedTyped
  <2> QED
    BY <2>1
<1> HIDE DEF Q, o, n
<1>4. ASSUME NEW i \in 1..n  PROVE o[i] \in 1..k /\ o[i] \in Nat /\ d[o[i]] \in R
  <2>1. o[i] \in Q /\ o[i] \in 1..k
    BY <1>1, <1>2, <1>3
  <2>2. d[o[i]] \in S /\ list[d[o[i]]].session = s
    BY <1>1, <1>2, <2>1
  <2> QED
    BY <2>1, <2>2 DEF PlacesIn
<1>5. R \subseteq Nat
  BY LenProperties
<1>6. a \in [1..n -> R]
  BY <1>4
<1>7. Ascending(a)
  <2>1. ASSUME NEW i \in 1..n, NEW j \in 1..n, i < j  PROVE d[o[i]] < d[o[j]]
    <3>1. o[i] < o[j]
      BY <1>3, <2>1 DEF Ascending
    <3> QED
      BY <1>1, <1>4, <3>1 DEF Ascending
  <2> QED
    BY <2>1 DEF Ascending
<1>8. ASSUME NEW x \in R  PROVE \E i \in 1..n : a[i] = x
  <2>1. PICK j \in 1..k : d[j] = x
    BY <1>1
  <2>2. j \in Q
    BY <1>2, <2>1 DEF PlacesIn
  <2>3. PICK i \in 1..n : o[i] = j
    BY <1>3, <2>2
  <2> QED
    BY <2>1, <2>3
<1>9. PickAt(list, R) = [i \in 1..n |-> list[a[i]]]
  <2>1. \A x \in R : \E i \in 1..n : a[i] = x
    BY <1>8
  <2> HIDE DEF R, a
  <2>2. Sorted(R) = a
    BY <1>3, <1>5, <1>6, <1>7, <2>1, SortedIs
  <2>3. DOMAIN a = 1..n
    BY <1>6
  <2> QED
    BY <2>2, <2>3 DEF PickAt
<1>10. [i \in 1..n |-> list[a[i]]] = [i \in 1..n |-> m[o[i]]]
  BY <1>1, <1>4
<1> QED
  BY <1>3, <1>9, <1>10 DEF Mine, m, Q

\* A session all of whose messages are the array's, and one that has none of them.
LEMMA MineAllOrNone ==
  ASSUME NEW T, NEW list \in Seq(T), NEW s
  PROVE  /\ (\A i \in DOMAIN list : list[i].session = s) => Mine(list, s) = list
         /\ (\A i \in DOMAIN list : list[i].session # s) => Mine(list, s) = << >>
<1> DEFINE n == Len(list)
           a == [i \in 1..n |-> i]
<1>1. n \in Nat /\ DOMAIN list = 1..n /\ list = [i \in 1..n |-> list[i]]
  BY LenProperties
<1>2. ASSUME \A i \in DOMAIN list : list[i].session = s  PROVE Mine(list, s) = list
  <2>1. PlacesIn(list, s) = 1..n
    BY <1>1, <1>2 DEF PlacesIn
  <2>2. a \in [1..n -> 1..n] /\ Ascending(a) /\ \A x \in 1..n : \E i \in 1..n : a[i] = x
    BY <1>1 DEF Ascending
  <2>3. 1..n \subseteq Nat
    BY <1>1
  <2> HIDE DEF n, a
  <2>4. Sorted(1..n) = a
    BY <1>1, <2>2, <2>3, SortedIs
  <2>5. DOMAIN a = 1..n /\ \A i \in 1..n : a[i] = i
    BY DEF a
  <2>6. Mine(list, s) = [i \in 1..n |-> list[a[i]]]
    BY <2>1, <2>4, <2>5 DEF Mine, PickAt
  <2>7. [i \in 1..n |-> list[a[i]]] = [i \in 1..n |-> list[i]]
    BY <2>5
  <2> QED
    BY <1>1, <2>6, <2>7
<1>3. ASSUME \A i \in DOMAIN list : list[i].session # s  PROVE Mine(list, s) = << >>
  <2>1. PlacesIn(list, s) = {}
    BY <1>3 DEF PlacesIn
  <2>2. Cardinality({}) = 0 /\ IsFiniteSet({})
    BY FS_EmptySet
  <2>3. Sorted({}) \in [1..0 -> {}]
    BY <2>2, SortedLists
  <2>4. DOMAIN Sorted({}) = {}
    BY <2>3
  <2> QED
    BY <2>1, <2>4 DEF Mine, PickAt
<1> QED
  BY <1>2, <1>3

(* A session's messages in an array that was made longer: those it had, and    *)
(* those of what was put at the end.                                           *)
LEMMA MineOfConcat ==
  ASSUME NEW T, NEW list \in Seq(T), NEW more \in Seq(T), NEW s
  PROVE  Mine(list \o more, s) = Mine(list, s) \o Mine(more, s)
<1> DEFINE n == Len(list)
           P == PlacesIn(list, s)
           Q == PlacesIn(more, s)
           R == PlacesIn(list \o more, s)
           p == Cardinality(P)
           q == Cardinality(Q)
           a == Sorted(P)
           b == Sorted(Q)
           c == [i \in 1..(p + q) |-> IF i <= p THEN a[i] ELSE n + b[i - p]]
<1>1. /\ n \in Nat /\ DOMAIN list = 1..n
      /\ Len(more) \in Nat /\ DOMAIN more = 1..Len(more)
  BY LenProperties
<1>2. /\ Len(list \o more) = n + Len(more) /\ DOMAIN (list \o more) = 1..(n + Len(more))
      /\ \A i \in 1..n : (list \o more)[i] = list[i]
      /\ \A i \in 1..Len(more) : (list \o more)[n + i] = more[i]
  <2>1. list \o more \in Seq(T) /\ Len(list \o more) = n + Len(more)
    BY ConcatProperties
  <2>2. \A i \in 1..(n + Len(more)) :
          (list \o more)[i] = IF i <= n THEN list[i] ELSE more[i - n]
    BY ConcatProperties
  <2>3. DOMAIN (list \o more) = 1..(n + Len(more))
    BY <2>1, LenProperties
  <2>4. ASSUME NEW i \in 1..Len(more)  PROVE (list \o more)[n + i] = more[i]
    <3>1. n + i \in 1..(n + Len(more)) /\ ~(n + i <= n) /\ (n + i) - n = i
      BY <1>1
    <3> QED
      BY <2>2, <3>1
  <2>5. ASSUME NEW i \in 1..n  PROVE (list \o more)[i] = list[i]
    <3>1. i \in 1..(n + Len(more)) /\ i <= n
      BY <1>1
    <3> QED
      BY <2>2, <3>1
  <2> QED
    BY <2>1, <2>3, <2>4, <2>5
<1>3. /\ p \in Nat /\ a \in [1..p -> P] /\ Ascending(a) /\ \A x \in P : \E i \in 1..p : a[i] = x
      /\ Mine(list, s) = [i \in 1..p |-> list[a[i]]] /\ Mine(list, s) \in Seq(T)
      /\ Len(Mine(list, s)) = p
  <2>1. P \in SUBSET DOMAIN list
    BY DEF PlacesIn
  <2> HIDE DEF P
  <2>2. /\ Cardinality(P) \in Nat /\ Sorted(P) \in [1..Cardinality(P) -> P]
        /\ Ascending(Sorted(P)) /\ \A x \in P : \E i \in 1..Cardinality(P) : Sorted(P)[i] = x
        /\ PickAt(list, P) = [i \in 1..Cardinality(P) |-> list[Sorted(P)[i]]]
        /\ PickAt(list, P) \in Seq(T) /\ Len(PickAt(list, P)) = Cardinality(P)
    BY <2>1, PickedTyped
  <2>3. Mine(list, s) = PickAt(list, P)
    BY DEF Mine, P
  <2> QED
    BY <2>2, <2>3
<1>4. /\ q \in Nat /\ b \in [1..q -> Q] /\ Ascending(b) /\ \A x \in Q : \E i \in 1..q : b[i] = x
      /\ Mine(more, s) = [i \in 1..q |-> more[b[i]]] /\ Mine(more, s) \in Seq(T)
      /\ Len(Mine(more, s)) = q
  <2>1. Q \in SUBSET DOMAIN more
    BY DEF PlacesIn
  <2> HIDE DEF Q
  <2>2. /\ Cardinality(Q) \in Nat /\ Sorted(Q) \in [1..Cardinality(Q) -> Q]
        /\ Ascending(Sorted(Q)) /\ \A x \in Q : \E i \in 1..Cardinality(Q) : Sorted(Q)[i] = x
        /\ PickAt(more, Q) = [i \in 1..Cardinality(Q) |-> more[Sorted(Q)[i]]]
        /\ PickAt(more, Q) \in Seq(T) /\ Len(PickAt(more, Q)) = Cardinality(Q)
    BY <2>1, PickedTyped
  <2>3. Mine(more, s) = PickAt(more, Q)
    BY DEF Mine, Q
  <2> QED
    BY <2>2, <2>3
<1> HIDE DEF p, q, a, b, n
<1>5. /\ \A x \in P : x \in 1..n /\ list[x].session = s
      /\ \A x \in 1..n : list[x].session = s => x \in P
      /\ \A y \in Q : y \in 1..Len(more) /\ more[y].session = s
      /\ \A y \in 1..Len(more) : more[y].session = s => y \in Q
  BY <1>1 DEF PlacesIn
<1>6. /\ \A x \in P : x \in R
      /\ \A y \in Q : n + y \in R
      /\ \A z \in R : z \in P \/ \E y \in Q : z = n + y
  <2>1. \A z \in 1..(n + Len(more)) : z \in R <=> (list \o more)[z].session = s
    BY <1>2 DEF PlacesIn
  <2>2. R \subseteq 1..(n + Len(more))
    BY <1>2 DEF PlacesIn
  <2> HIDE DEF P, Q, R
  <2>3. ASSUME NEW x \in P  PROVE x \in R
    <3>1. x \in 1..n /\ x \in 1..(n + Len(more))
      BY <1>1, <1>5
    <3> QED
      BY <1>2, <1>5, <2>1, <3>1
  <2>4. ASSUME NEW y \in Q  PROVE n + y \in R
    <3>1. y \in 1..Len(more) /\ n + y \in 1..(n + Len(more))
      BY <1>1, <1>5
    <3> QED
      BY <1>2, <1>5, <2>1, <3>1
  <2>5. ASSUME NEW z \in R  PROVE z \in P \/ \E y \in Q : z = n + y
    <3>1. z \in 1..(n + Len(more)) /\ (list \o more)[z].session = s
      BY <2>1, <2>2
    <3>2. CASE z \in 1..n
      BY <1>2, <1>5, <3>1, <3>2
    <3>3. CASE z \notin 1..n
      <4>1. z - n \in 1..Len(more) /\ z = n + (z - n)
        BY <1>1, <3>1, <3>3
      <4>2. more[z - n].session = s
        BY <1>2, <3>1, <4>1
      <4> QED
        BY <1>5, <4>1, <4>2
    <3> QED
      BY <3>2, <3>3
  <2> QED
    BY <2>3, <2>4, <2>5
<1> HIDE DEF P, Q, R
<1>7. \A i \in 1..p : a[i] \in P /\ a[i] \in 1..n /\ a[i] \in Nat
  BY <1>1, <1>3, <1>5
<1>8. \A i \in 1..q : b[i] \in Q /\ b[i] \in 1..Len(more) /\ b[i] \in Nat
  BY <1>1, <1>4, <1>5
<1>9. /\ \A i \in 1..p : i \in 1..(p + q) /\ c[i] = a[i]
      /\ \A i \in 1..q : p + i \in 1..(p + q) /\ c[p + i] = n + b[i]
      /\ \A i \in 1..(p + q) : i \in 1..p \/ \E k \in 1..q : i = p + k
  <2>1. ASSUME NEW i \in 1..p  PROVE i \in 1..(p + q) /\ c[i] = a[i]
    BY <1>3, <1>4
  <2>2. ASSUME NEW i \in 1..q  PROVE p + i \in 1..(p + q) /\ c[p + i] = n + b[i]
    <3>1. p + i \in 1..(p + q) /\ ~(p + i <= p) /\ (p + i) - p = i
      BY <1>3, <1>4
    <3> QED
      BY <3>1
  <2>3. ASSUME NEW i \in 1..(p + q)  PROVE i \in 1..p \/ \E k \in 1..q : i = p + k
    <3>1. i \in 1..p \/ (i - p \in 1..q /\ i = p + (i - p))
      BY <1>3, <1>4
    <3> QED
      BY <3>1
  <2> QED
    BY <2>1, <2>2, <2>3
<1>10. c \in [1..(p + q) -> R]
  <2>1. ASSUME NEW i \in 1..(p + q)  PROVE c[i] \in R
    <3>1. CASE i \in 1..p
      BY <1>6, <1>7, <1>9, <3>1
    <3>2. ASSUME NEW k \in 1..q, i = p + k  PROVE c[i] \in R
      BY <1>6, <1>8, <1>9, <3>2
    <3> QED
      BY <1>9, <3>1, <3>2
  <2> QED
    BY <2>1
<1>11. DOMAIN c = 1..(p + q)
  OBVIOUS
<1> HIDE DEF c
<1>12. Ascending(c)
  <2> SUFFICES ASSUME NEW i \in 1..(p + q), NEW j \in 1..(p + q), i < j  PROVE c[i] < c[j]
    BY <1>11 DEF Ascending
  <2>1. CASE i \in 1..p /\ j \in 1..p
    BY <1>3, <1>9, <2>1 DEF Ascending
  <2>2. ASSUME i \in 1..p, NEW k \in 1..q, j = p + k  PROVE c[i] < c[j]
    <3>1. a[i] < n + b[k]
      BY <1>1, <1>7, <1>8, <2>2
    <3> QED
      BY <1>9, <2>2, <3>1
  <2>3. ASSUME NEW k \in 1..q, i = p + k, NEW l \in 1..q, j = p + l  PROVE c[i] < c[j]
    <3>1. k < l
      BY <1>3, <2>3
    <3>2. b[k] < b[l]
      BY <1>4, <3>1 DEF Ascending
    <3>3. n + b[k] < n + b[l]
      BY <1>1, <1>8, <3>2
    <3> QED
      BY <1>9, <2>3, <3>3
  <2>4. ASSUME NEW k \in 1..q, i = p + k  PROVE j \notin 1..p
    BY <1>3, <2>4
  <2> QED
    BY <1>9, <2>1, <2>2, <2>3, <2>4
<1>13. \A z \in R : \E i \in 1..(p + q) : c[i] = z
  <2> SUFFICES ASSUME NEW z \in R  PROVE \E i \in 1..(p + q) : c[i] = z
    OBVIOUS
  <2>1. CASE z \in P
    BY <1>3, <1>9, <2>1
  <2>2. ASSUME NEW y \in Q, z = n + y  PROVE \E i \in 1..(p + q) : c[i] = z
    <3>1. PICK k \in 1..q : b[k] = y
      BY <1>4
    <3> QED
      BY <1>9, <2>2, <3>1
  <2> QED
    BY <1>6, <2>1, <2>2
<1>14. R \subseteq Nat /\ p + q \in Nat
  BY <1>1, <1>2, <1>3, <1>4 DEF R, PlacesIn
<1>15. Sorted(R) = c
  BY <1>10, <1>12, <1>13, <1>14, SortedIs
<1>16. Mine(list \o more, s) = [i \in 1..(p + q) |-> (list \o more)[c[i]]]
  BY <1>11, <1>15 DEF Mine, PickAt, R
<1>17. Mine(list, s) \o Mine(more, s) =
         [i \in 1..(p + q) |-> IF i <= p THEN list[a[i]] ELSE more[b[i - p]]]
  <2> DEFINE x == Mine(list, s)
             y == Mine(more, s)
  <2>1. x \in Seq(T) /\ Len(x) = p /\ y \in Seq(T) /\ Len(y) = q
    BY <1>3, <1>4
  <2>2. \A i \in 1..p : x[i] = list[a[i]]
    BY <1>3
  <2>3. \A i \in 1..q : y[i] = more[b[i]]
    BY <1>4
  <2> HIDE DEF x, y
  <2>4. /\ x \o y \in Seq(T) /\ Len(x \o y) = p + q
        /\ \A i \in 1..(p + q) : (x \o y)[i] = IF i <= p THEN x[i] ELSE y[i - p]
    BY <2>1, ConcatProperties
  <2>5. x \o y = [i \in 1..(p + q) |-> (x \o y)[i]]
    BY <2>4, LenProperties
  <2>6. ASSUME NEW i \in 1..(p + q)
        PROVE  (x \o y)[i] = IF i <= p THEN list[a[i]] ELSE more[b[i - p]]
    <3>1. CASE i <= p
      <4>1. i \in 1..p
        BY <1>3, <1>4, <3>1
      <4> QED
        BY <2>2, <2>4, <3>1, <4>1
    <3>2. CASE ~(i <= p)
      <4>1. i - p \in 1..q
        BY <1>3, <1>4, <3>2
      <4> QED
        BY <2>3, <2>4, <3>2, <4>1
    <3> QED
      BY <3>1, <3>2
  <2> QED
    BY <2>5, <2>6 DEF x, y
<1>18. ASSUME NEW i \in 1..(p + q)
       PROVE  (list \o more)[c[i]] = IF i <= p THEN list[a[i]] ELSE more[b[i - p]]
  <2>1. CASE i \in 1..p
    <3>1. c[i] = a[i] /\ a[i] \in 1..n /\ i <= p
      BY <1>3, <1>7, <1>9, <2>1
    <3>2. (list \o more)[a[i]] = list[a[i]]
      BY <1>2, <3>1
    <3> QED
      BY <3>1, <3>2
  <2>2. ASSUME NEW k \in 1..q, i = p + k
        PROVE  (list \o more)[c[i]] = IF i <= p THEN list[a[i]] ELSE more[b[i - p]]
    <3>1. ~(i <= p) /\ i - p = k
      BY <1>3, <2>2
    <3>2. c[i] = n + b[k] /\ b[k] \in 1..Len(more)
      BY <1>8, <1>9, <2>2
    <3>3. (list \o more)[n + b[k]] = more[b[k]]
      BY <1>2, <3>2
    <3>4. b[i - p] = b[k]
      BY <3>1
    <3> QED
      BY <3>1, <3>2, <3>3, <3>4
  <2> QED
    BY <1>9, <2>1, <2>2
<1> QED
  BY <1>16, <1>17, <1>18

(* The members of a finite part that fewer than keep others follow are its last *)
(* ones, as slice(-keep) takes them.                                           *)
LEMMA LastPicked ==
  ASSUME NEW T, NEW list \in Seq(T), NEW P \in SUBSET DOMAIN list, NEW keep \in Nat
  PROVE  LET K == {i \in P : Cardinality({j \in P : i < j}) < keep}
         IN  PickAt(list, K) = Store!LastOf(PickAt(list, P), keep)
<1> DEFINE n == Cardinality(P)
           o == Sorted(P)
           p == PickAt(list, P)
           m == IF keep < n THEN n - keep ELSE 0
           later(x) == {j \in P : x < j}
           K == {i \in P : Cardinality(later(i)) < keep}
           a == [i \in 1..(n - m) |-> o[m + i]]
<1>1. /\ n \in Nat /\ o \in [1..n -> P] /\ Ascending(o) /\ \A x \in P : \E i \in 1..n : o[i] = x
      /\ p = [i \in 1..n |-> list[o[i]]] /\ p \in Seq(T) /\ Len(p) = n
  BY PickedTyped
<1>2. P \subseteq Nat
  BY LenProperties
<1> HIDE DEF n, o, p
<1>3. DOMAIN o = 1..n /\ \A i \in 1..n : o[i] \in P /\ o[i] \in Nat
  BY <1>1, <1>2
<1>4. \A i, j \in 1..n : i < j <=> o[i] < o[j]
  <2> SUFFICES ASSUME NEW i \in 1..n, NEW j \in 1..n  PROVE i < j <=> o[i] < o[j]
    OBVIOUS
  <2>1. i < j => o[i] < o[j]
    BY <1>1, <1>3 DEF Ascending
  <2>2. j < i => o[j] < o[i]
    BY <1>1, <1>3 DEF Ascending
  <2>3. i \in Nat /\ j \in Nat /\ o[i] \in Nat /\ o[j] \in Nat
    BY <1>1, <1>3
  <2>4. i = j => o[i] = o[j]
    OBVIOUS
  <2> QED
    BY <2>1, <2>2, <2>3, <2>4
<1>5. ASSUME NEW i \in 1..n  PROVE Cardinality(later(o[i])) = n - i
  <2> DEFINE L == later(o[i])
             b == [k \in 1..(n - i) |-> o[i + k]]
  <2>1. n - i \in Nat /\ \A k \in 1..(n - i) : i + k \in 1..n /\ i < i + k
    BY <1>1
  <2>2. b \in [1..(n - i) -> L]
    BY <1>3, <1>4, <2>1
  <2>3. ASSUME NEW j \in 1..(n - i), NEW k \in 1..(n - i), j < k  PROVE o[i + j] < o[i + k]
    <3>1. i + j \in 1..n /\ i + k \in 1..n /\ i + j < i + k
      BY <2>1, <2>3
    <3> QED
      BY <1>4, <3>1
  <2>4. Ascending(b)
    BY <2>3 DEF Ascending
  <2>5. ASSUME NEW x \in L  PROVE \E k \in 1..(n - i) : b[k] = x
    <3>1. PICK j \in 1..n : o[j] = x
      BY <1>1
    <3>2. i < j
      BY <1>4, <3>1
    <3>3. j - i \in 1..(n - i) /\ i + (j - i) = j
      BY <1>1, <3>2
    <3>4. b[j - i] = o[j]
      BY <3>3
    <3> QED
      BY <3>1, <3>3, <3>4
  <2>6. L \subseteq Nat /\ \A x \in L : \E k \in 1..(n - i) : b[k] = x
    BY <1>2, <2>5
  <2> HIDE DEF L, b
  <2>7. Cardinality(L) = n - i
    BY <2>1, <2>2, <2>4, <2>6, SortedIs
  <2> QED
    BY <2>7 DEF L
<1> HIDE DEF later
<1>6. m \in 0..n /\ n - m \in Nat /\ \A i \in 1..n : n - i < keep <=> m < i
  BY <1>1
<1>7. \A i \in 1..n : o[i] \in K <=> m < i
  BY <1>3, <1>5, <1>6
<1> HIDE DEF m
<1>8. \A i \in 1..(n - m) : m + i \in 1..n /\ m < m + i
  BY <1>1, <1>6
<1>9. a \in [1..(n - m) -> K] /\ DOMAIN a = 1..(n - m)
  BY <1>7, <1>8
<1>10. Ascending(a)
  <2>1. ASSUME NEW j \in 1..(n - m), NEW k \in 1..(n - m), j < k  PROVE o[m + j] < o[m + k]
    <3>1. m + j \in 1..n /\ m + k \in 1..n /\ m + j < m + k
      BY <1>6, <1>8, <2>1
    <3> QED
      BY <1>4, <3>1
  <2> QED
    BY <2>1 DEF Ascending
<1>11. \A x \in K : \E k \in 1..(n - m) : a[k] = x
  <2> SUFFICES ASSUME NEW x \in K  PROVE \E k \in 1..(n - m) : a[k] = x
    OBVIOUS
  <2>1. PICK j \in 1..n : o[j] = x
    BY <1>1
  <2>2. m < j
    BY <1>7, <2>1
  <2>3. j - m \in 1..(n - m) /\ m + (j - m) = j
    BY <1>1, <1>6, <2>2
  <2>4. a[j - m] = o[j]
    BY <2>3
  <2> QED
    BY <2>1, <2>3, <2>4
<1>12. K \subseteq Nat
  BY <1>2
<1>13. Sorted(K) = a
  <2> HIDE DEF K, a
  <2> QED
    BY <1>6, <1>9, <1>10, <1>11, <1>12, SortedIs
<1>14. PickAt(list, K) = [i \in 1..(n - m) |-> list[o[m + i]]]
  <2> HIDE DEF K
  <2>1. PickAt(list, K) = [i \in 1..(n - m) |-> list[a[i]]]
    BY <1>9, <1>13 DEF PickAt
  <2>2. \A i \in 1..(n - m) : a[i] = o[m + i]
    OBVIOUS
  <2> HIDE DEF a
  <2> QED
    BY <2>1, <2>2
<1>15. Store!LastOf(p, keep) = SubSeq(p, m + 1, n)
  <2>1. (IF keep < n THEN n - keep + 1 ELSE 1) = m + 1
    BY <1>1 DEF m
  <2> QED
    BY <1>1, <2>1 DEF Store!LastOf
<1>16. SubSeq(p, m + 1, n) = [i \in 1..(n - m) |-> list[o[m + i]]]
  <2> DEFINE q == SubSeq(p, m + 1, n)
  <2>1. \A i \in (m + 1)..n : p[i] \in T
    <3>1. \A i \in 1..n : p[i] \in T
      BY <1>1, ElementOfSeq
    <3>2. \A i \in (m + 1)..n : i \in 1..n
      BY <1>1, <1>6
    <3> QED
      BY <3>1, <3>2
  <2>2. m + 1 \in Int /\ n \in Int
    BY <1>1, <1>6
  <2>3. /\ q \in Seq(T) /\ Len(q) = IF m + 1 <= n THEN n - (m + 1) + 1 ELSE 0
        /\ \A i \in 1..(n - (m + 1) + 1) : q[i] = p[(m + 1) + i - 1]
    BY <2>1, <2>2, SubSeqProperties
  <2> HIDE DEF q
  <2>4. Len(q) = n - m /\ n - (m + 1) + 1 = n - m
    BY <1>1, <1>6, <2>3
  <2>5. ASSUME NEW i \in 1..(n - m)  PROVE q[i] = list[o[m + i]]
    <3>1. (m + 1) + i - 1 = m + i /\ m + i \in 1..n
      BY <1>6, <1>8
    <3>2. q[i] = p[(m + 1) + i - 1]
      BY <2>3, <2>4
    <3> QED
      BY <1>1, <3>1, <3>2
  <2>6. q = [i \in 1..(n - m) |-> q[i]]
    BY <2>3, <2>4, LenProperties
  <2> QED
    BY <2>5, <2>6 DEF q
<1> QED
  BY <1>14, <1>15, <1>16 DEF K, later, p

(***************************************************************************)
(* The session file: the invariant                                         *)
(***************************************************************************)
Entry == [session : Sessions, body : Bodies]
BodiesOf(list) == [i \in DOMAIN list |-> list[i].body]

\* Whose messages there are is known, and an id that was given is not given again.
FileInv ==
  /\ messages \in Seq(Entry)
  /\ \A i \in DOMAIN messages : messages[i].session \in Live
  /\ Live \subseteq used

\* What messages say is a list as long as theirs.
LEMMA BodiesTyped ==
  ASSUME NEW list \in Seq(Entry)
  PROVE  /\ BodiesOf(list) \in Seq(Bodies) /\ Len(BodiesOf(list)) = Len(list)
         /\ DOMAIN BodiesOf(list) = 1..Len(list) /\ DOMAIN list = 1..Len(list) /\ Len(list) \in Nat
         /\ \A i \in 1..Len(list) : BodiesOf(list)[i] = list[i].body
<1>1. Len(list) \in Nat /\ DOMAIN list = 1..Len(list)
  BY LenProperties
<1>2. \A i \in 1..Len(list) : list[i] \in Entry
  BY ElementOfSeq
<1>3. BodiesOf(list) \in [1..Len(list) -> Bodies]
  BY <1>1, <1>2 DEF BodiesOf, Entry
<1>4. \A i \in 1..Len(list) : BodiesOf(list)[i] = list[i].body
  BY <1>1 DEF BodiesOf
<1> HIDE DEF BodiesOf
<1>5. BodiesOf(list) \in Seq(Bodies) /\ Len(BodiesOf(list)) = Len(list)
  BY <1>1, <1>3, SeqDef
<1> QED
  BY <1>1, <1>3, <1>4, <1>5

\* What is said in two lists put together.
LEMMA BodiesOfConcat ==
  ASSUME NEW a \in Seq(Entry), NEW b \in Seq(Entry)
  PROVE  BodiesOf(a \o b) = BodiesOf(a) \o BodiesOf(b)
<1> DEFINE l == BodiesOf(a \o b)
           r == BodiesOf(a) \o BodiesOf(b)
           n == Len(a)
           m == Len(b)
<1>1. /\ a \o b \in Seq(Entry) /\ Len(a \o b) = n + m
      /\ \A i \in 1..(n + m) : (a \o b)[i] = IF i <= n THEN a[i] ELSE b[i - n]
  BY ConcatProperties
<1>2. /\ BodiesOf(a) \in Seq(Bodies) /\ Len(BodiesOf(a)) = n /\ n \in Nat
      /\ \A i \in 1..n : BodiesOf(a)[i] = a[i].body
      /\ BodiesOf(b) \in Seq(Bodies) /\ Len(BodiesOf(b)) = m /\ m \in Nat
      /\ \A i \in 1..m : BodiesOf(b)[i] = b[i].body
  BY BodiesTyped
<1>3. /\ l \in Seq(Bodies) /\ Len(l) = n + m
      /\ \A i \in 1..(n + m) : l[i] = (a \o b)[i].body
  <2> DEFINE c == a \o b
  <2>1. c \in Seq(Entry) /\ Len(c) = n + m
    BY <1>1
  <2> HIDE DEF c
  <2>2. /\ BodiesOf(c) \in Seq(Bodies) /\ Len(BodiesOf(c)) = n + m
        /\ \A i \in 1..(n + m) : BodiesOf(c)[i] = c[i].body
    BY <2>1, BodiesTyped
  <2> QED
    BY <2>2 DEF c
<1>4. /\ r \in Seq(Bodies) /\ Len(r) = n + m
      /\ \A i \in 1..(n + m) : r[i] = IF i <= n THEN BodiesOf(a)[i] ELSE BodiesOf(b)[i - n]
  <2> DEFINE x == BodiesOf(a)
             y == BodiesOf(b)
  <2>1. x \in Seq(Bodies) /\ y \in Seq(Bodies) /\ Len(x) = n /\ Len(y) = m
    BY <1>2
  <2> HIDE DEF x, y, n, m
  <2>2. /\ x \o y \in Seq(Bodies) /\ Len(x \o y) = Len(x) + Len(y)
        /\ \A i \in 1..(Len(x) + Len(y)) : (x \o y)[i] = IF i <= Len(x) THEN x[i] ELSE y[i - Len(x)]
    BY <2>1, ConcatProperties
  <2> QED
    BY <2>1, <2>2 DEF x, y
<1> HIDE DEF l, r, n, m
<1>5. ASSUME NEW i \in 1..(n + m)  PROVE l[i] = r[i]
  <2>1. CASE i <= n
    <3>1. i \in 1..n
      BY <1>2, <2>1
    <3> QED
      BY <1>1, <1>2, <1>3, <1>4, <2>1, <3>1
  <2>2. CASE ~(i <= n)
    <3>1. i - n \in 1..m
      BY <1>2, <2>2
    <3> QED
      BY <1>1, <1>2, <1>3, <1>4, <2>2, <3>1
  <2> QED
    BY <2>1, <2>2
<1>6. l = r
  BY <1>3, <1>4, <1>5, SeqEqual
<1> QED
  BY <1>6 DEF l, r

\* What is said in the last of a list.
LEMMA BodiesOfLast ==
  ASSUME NEW list \in Seq(Entry), NEW keep \in Nat
  PROVE  /\ Store!LastOf(list, keep) \in Seq(Entry)
         /\ BodiesOf(Store!LastOf(list, keep)) = Store!LastOf(BodiesOf(list), keep)
<1> DEFINE n == Len(list)
           f == IF keep < n THEN n - keep + 1 ELSE 1
           said == BodiesOf(list)
           l == SubSeq(list, f, n)
           r == SubSeq(said, f, n)
<1>1. n \in Nat /\ f \in Int /\ n \in Int /\ 1 <= f
  BY LenProperties
<1>2. said \in Seq(Bodies) /\ Len(said) = n /\ \A i \in 1..n : said[i] = list[i].body
  BY BodiesTyped
<1>3. \A i \in f..n : i \in 1..n
  BY <1>1
<1>4. \A i \in 1..n : list[i] \in Entry /\ said[i] \in Bodies
  BY <1>2, ElementOfSeq
<1> HIDE DEF n, f, said
<1>5. /\ l \in Seq(Entry) /\ Len(l) = IF f <= n THEN n - f + 1 ELSE 0
      /\ \A i \in 1..(n - f + 1) : l[i] = list[f + i - 1]
  BY <1>1, <1>3, <1>4, SubSeqProperties
<1>6. /\ r \in Seq(Bodies) /\ Len(r) = IF f <= n THEN n - f + 1 ELSE 0
      /\ \A i \in 1..(n - f + 1) : r[i] = said[f + i - 1]
  BY <1>1, <1>3, <1>4, SubSeqProperties
<1> HIDE DEF l, r
<1>7. BodiesOf(l) \in Seq(Bodies) /\ Len(BodiesOf(l)) = Len(l) /\ \A i \in 1..Len(l) : BodiesOf(l)[i] = l[i].body
  BY <1>5, BodiesTyped
<1>8. ASSUME NEW i \in 1..Len(l)  PROVE BodiesOf(l)[i] = r[i]
  <2>1. i \in 1..(n - f + 1) /\ f + i - 1 \in 1..n
    BY <1>1, <1>5
  <2> QED
    BY <1>2, <1>5, <1>6, <1>7, <2>1
<1>9. BodiesOf(l) = r
  BY <1>5, <1>6, <1>7, <1>8, SeqEqual
<1>10. Store!LastOf(list, keep) = l /\ Store!LastOf(said, keep) = r
  BY <1>2 DEF Store!LastOf, l, r, f, n
<1> QED
  BY <1>5, <1>9, <1>10 DEF said

\* Only members are picked.
LEMMA PickedMembers ==
  ASSUME NEW T, NEW list \in Seq(T), NEW S \in SUBSET DOMAIN list
  PROVE  \A i \in DOMAIN PickAt(list, S) : \E j \in S : PickAt(list, S)[i] = list[j]
<1>1. /\ Sorted(S) \in [1..Cardinality(S) -> S] /\ DOMAIN PickAt(list, S) = 1..Cardinality(S)
      /\ PickAt(list, S) = [i \in 1..Cardinality(S) |-> list[Sorted(S)[i]]]
  BY PickedTyped
<1> QED
  BY <1>1

\* Nothing picked, nothing said.
LEMMA PickedNone ==
  ASSUME NEW list
  PROVE  PickAt(list, {}) = << >> /\ BodiesOf(<< >>) = << >>
<1>1. Sorted({}) \in [1..0 -> {}]
  <2>1. Cardinality({}) = 0 /\ IsFiniteSet({})
    BY FS_EmptySet
  <2> QED
    BY <2>1, SortedLists
<1>2. DOMAIN Sorted({}) = {}
  BY <1>1
<1> QED
  BY <1>2 DEF PickAt, BodiesOf

\* What the mapped store says of a session, and of one in the next state.
LEMMA SaidIs ==
  /\ \A x : Of(x) = Mine(messages, x) /\ Said(x) = BodiesOf(Mine(messages, x))
  /\ \A x : Said(x)' = BodiesOf(Mine(messages', x))
  /\ \A x : PlacesOf(x) = PlacesIn(messages, x)
  /\ \A S : At(S) = PickAt(messages, S)
BY DEF Said, Of, At, PlacesOf, Mine, PickAt, PlacesIn, BodiesOf

(***************************************************************************)
(* The session file: each call is the call of the store in memory          *)
(***************************************************************************)
\* A session that is added to the file is added to both maps.
LEMMA InsertMaps ==
  ASSUME NEW s, NEW session, NEW list, NEW more \in Seq(Entry),
         FileInv, InsertSession(s, session), messages' = messages \o more,
         \A i \in DOMAIN more : more[i].session = s, BodiesOf(more) = list
  PROVE  Store!Insert(s, session, list) /\ FileInv'
<1>1. messages \in Seq(Entry) /\ Live \subseteq used /\ s \notin used
  BY DEF FileInv, InsertSession
<1>2. /\ used' = used \cup {s} /\ Live' = Live \cup {s}
      /\ sessions' = [x \in Live \cup {s} |-> IF x = s THEN session ELSE sessions[x]]
  BY DEF InsertSession, Live
<1>3. ASSUME NEW x  PROVE Mine(messages', x) = Mine(messages, x) \o Mine(more, x)
  BY <1>1, MineOfConcat
<1>4. Said(s)' = list
  <2>1. Mine(messages, s) = << >>
    BY <1>1, MineAllOrNone DEF FileInv
  <2>2. Mine(more, s) = more
    BY MineAllOrNone
  <2>3. << >> \o more = more
    BY ConcatEmptySeq
  <2> QED
    BY <1>3, <2>1, <2>2, <2>3, SaidIs
<1>5. ASSUME NEW x \in Live  PROVE Said(x)' = Said(x)
  <2>1. x # s
    BY <1>1
  <2>2. Mine(more, x) = << >>
    BY <2>1, MineAllOrNone
  <2>3. Mine(messages, x) \in Seq(Entry)
    <3>1. PlacesIn(messages, x) \in SUBSET DOMAIN messages
      BY DEF PlacesIn
    <3> QED
      BY <1>1, <3>1, PickedTyped DEF Mine
  <2>4. Mine(messages, x) \o << >> = Mine(messages, x)
    BY <2>3, ConcatEmptySeq
  <2> QED
    BY <1>3, <2>2, <2>4, SaidIs
<1>6. [x \in Live |-> Said(x)]' =
        [x \in Live \cup {s} |-> IF x = s THEN list ELSE [y \in Live |-> Said(y)][x]]
  <2>1. ASSUME NEW x \in Live \cup {s}
        PROVE  Said(x)' = IF x = s THEN list ELSE [y \in Live |-> Said(y)][x]
    BY <1>4, <1>5
  <2> QED
    BY <1>2, <2>1
<1>7. FileInv'
  <2>1. messages' \in Seq(Entry)
    BY <1>1, ConcatProperties
  <2>2. ASSUME NEW i \in DOMAIN messages'  PROVE messages'[i].session \in Live'
    <3>1. /\ Len(messages) \in Nat /\ DOMAIN messages = 1..Len(messages)
          /\ Len(more) \in Nat /\ DOMAIN more = 1..Len(more)
      BY <1>1, LenProperties
    <3>2. DOMAIN messages' = 1..(Len(messages) + Len(more))
      BY <1>1, ConcatProperties, LenProperties
    <3>3. messages'[i] = IF i <= Len(messages) THEN messages[i] ELSE more[i - Len(messages)]
      BY <1>1, <3>2, ConcatProperties
    <3>4. CASE i <= Len(messages)
      <4>1. i \in DOMAIN messages
        BY <3>1, <3>2, <3>4
      <4> QED
        BY <1>2, <3>3, <3>4, <4>1 DEF FileInv
    <3>5. CASE ~(i <= Len(messages))
      <4>1. i - Len(messages) \in DOMAIN more
        BY <3>1, <3>2, <3>5
      <4> QED
        BY <1>2, <3>3, <3>5, <4>1
    <3> QED
      BY <3>4, <3>5
  <2>3. (Live \subseteq used)'
    BY <1>1, <1>2
  <2> QED
    BY <2>1, <2>2, <2>3 DEF FileInv
<1> QED
  BY <1>1, <1>2, <1>6, <1>7 DEF Store!Insert, Store!Live, Live

LEMMA CreateMaps ==
  ASSUME NEW s \in Sessions, NEW mode \in Modes, FileInv, CreateSession(s, mode)
  PROVE  Store!CreateSession(s, mode) /\ FileInv'
<1> DEFINE new == [status |-> "idle", mode |-> mode, removed |-> 0, parent |-> NoSession]
<1>1. << >> \in Seq(Entry) /\ DOMAIN << >> = {} /\ BodiesOf(<< >>) = << >>
  BY EmptySeq, PickedNone
<1>2. InsertSession(s, new) /\ messages' = messages
  BY DEF CreateSession
<1>3. messages' = messages \o << >>
  BY <1>2, ConcatEmptySeq DEF FileInv
<1>4. \A i \in DOMAIN << >> : << >>[i].session = s
  BY <1>1
<1> HIDE DEF new
<1>5. Store!Insert(s, new, << >>) /\ FileInv'
  BY <1>1, <1>2, <1>3, <1>4, InsertMaps
<1> QED
  BY <1>5 DEF Store!CreateSession, new

LEMMA ForkMaps ==
  ASSUME NEW s \in Sessions, NEW fork \in Sessions, NEW mode \in Modes,
         FileInv, ForkSession(s, fork, mode)
  PROVE  Store!ForkSession(s, fork, mode) /\ FileInv'
<1> DEFINE new == [sessions[s] EXCEPT !.status = "idle", !.mode = mode, !.parent = s]
           mine == Of(s)
           copies == [i \in DOMAIN mine |-> [mine[i] EXCEPT !.session = fork]]
<1>1. s \in Live /\ InsertSession(fork, new) /\ messages' = messages \o copies
  BY DEF ForkSession
<1>2. mine \in Seq(Entry)
  <2>1. PlacesIn(messages, s) \in SUBSET DOMAIN messages
    BY DEF PlacesIn
  <2>2. Mine(messages, s) \in Seq(Entry)
    BY <2>1, PickedTyped DEF Mine, FileInv
  <2> QED
    BY <2>2, SaidIs
<1> HIDE DEF mine, new
<1>3. DOMAIN mine = 1..Len(mine) /\ Len(mine) \in Nat /\ \A i \in 1..Len(mine) : mine[i] \in Entry
  BY <1>2, LenProperties, ElementOfSeq
<1>4. ASSUME NEW i \in 1..Len(mine)
      PROVE  /\ [mine[i] EXCEPT !.session = fork] \in Entry
             /\ [mine[i] EXCEPT !.session = fork].session = fork
             /\ [mine[i] EXCEPT !.session = fork].body = mine[i].body
  BY <1>3 DEF Entry
<1>5. copies \in [1..Len(mine) -> Entry]
  BY <1>3, <1>4
<1>6. copies \in Seq(Entry)
  BY <1>3, <1>5, SeqDef
<1>7. \A i \in DOMAIN copies : copies[i].session = fork
  BY <1>3, <1>4
<1>8. BodiesOf(copies) = BodiesOf(mine)
  BY <1>3, <1>4 DEF BodiesOf
<1>9. Said(s) = BodiesOf(mine)
  BY SaidIs DEF mine
<1> HIDE DEF copies
<1>10. Store!Insert(fork, new, Said(s)) /\ FileInv'
  BY <1>1, <1>6, <1>7, <1>8, <1>9, InsertMaps
<1>11. [x \in Live |-> Said(x)][s] = Said(s)
  BY <1>1
<1> QED
  BY <1>1, <1>10, <1>11 DEF Store!ForkSession, Store!Live, Live, new

\* A session's own fields.
LEMMA UpdateMaps ==
  ASSUME NEW s \in Sessions, FileInv
  PROVE  /\ \A status : UpdateStatus(s, status) => Store!UpdateStatus(s, status) /\ FileInv'
         /\ \A mode : UpdateSession(s, mode) => Store!UpdateSession(s, mode) /\ FileInv'
<1>1. ASSUME messages' = messages, used' = used, Live' = Live
      PROVE  FileInv' /\ [x \in Live |-> Said(x)]' = [x \in Live |-> Said(x)]
  <2>1. \A x : Said(x)' = Said(x)
    BY <1>1, SaidIs
  <2>2. FileInv'
    BY <1>1 DEF FileInv
  <2> QED
    BY <1>1, <2>1, <2>2
<1>2. ASSUME NEW status, UpdateStatus(s, status)
      PROVE  Store!UpdateStatus(s, status) /\ FileInv'
  <2>1. /\ s \in Live /\ messages' = messages /\ used' = used
        /\ sessions' = [sessions EXCEPT ![s].status = status]
    BY <1>2 DEF UpdateStatus, Replace
  <2>2. Live' = Live
    BY <2>1 DEF Live
  <2> QED
    BY <1>1, <2>1, <2>2 DEF Store!UpdateStatus, Store!Live, Live
<1>3. ASSUME NEW mode, UpdateSession(s, mode)
      PROVE  Store!UpdateSession(s, mode) /\ FileInv'
  <2>1. /\ s \in Live /\ messages' = messages /\ used' = used
        /\ sessions' = [sessions EXCEPT ![s].mode = mode]
    BY <1>3 DEF UpdateSession, Replace
  <2>2. Live' = Live
    BY <2>1 DEF Live
  <2> QED
    BY <1>1, <2>1, <2>2 DEF Store!UpdateSession, Store!Live, Live
<1> QED
  BY <1>2, <1>3

LEMMA AddMaps ==
  ASSUME NEW s \in Sessions, NEW body \in Bodies, FileInv, AddMessage(s, body)
  PROVE  Store!AddMessage(s, body) /\ FileInv'
<1> DEFINE new == [session |-> s, body |-> body]
           more == <<new>>
           Lists == [x \in Live |-> Said(x)]
<1>1. /\ s \in Live /\ messages' = Append(messages, new) /\ sessions' = sessions /\ used' = used
      /\ Live' = Live /\ messages \in Seq(Entry)
  BY DEF AddMessage, FileInv, Live
<1>2. new \in Entry /\ new.session = s /\ new.body = body
  BY DEF Entry
<1> HIDE DEF new
<1>3. more \in Seq(Entry) /\ DOMAIN more = 1..1 /\ more[1] = new /\ Len(more) = 1
  BY <1>2
<1>4. messages' = messages \o more
  BY <1>1, <1>2, AppendIsConcat
<1>5. BodiesOf(more) = <<body>>
  <2>1. BodiesOf(more) = [i \in 1..1 |-> body]
    BY <1>2, <1>3 DEF BodiesOf
  <2> QED
    BY <2>1
<1> HIDE DEF more
<1>6. \A i \in DOMAIN more : more[i].session = s
  BY <1>2, <1>3
<1>7. ASSUME NEW x  PROVE Mine(messages', x) = Mine(messages, x) \o Mine(more, x)
  BY <1>1, <1>3, <1>4, MineOfConcat
<1>8. ASSUME NEW x
      PROVE  Mine(messages, x) \in Seq(Entry) /\ Said(x) \in Seq(Bodies)
  <2>1. PlacesIn(messages, x) \in SUBSET DOMAIN messages
    BY DEF PlacesIn
  <2>2. Mine(messages, x) \in Seq(Entry)
    BY <1>1, <2>1, PickedTyped DEF Mine
  <2> QED
    BY <2>2, BodiesTyped, SaidIs
<1>9. Said(s)' = Append(Said(s), body)
  <2>1. Mine(more, s) = more
    BY <1>3, <1>6, MineAllOrNone
  <2>2. Said(s)' = BodiesOf(Mine(messages, s)) \o <<body>>
    BY <1>3, <1>5, <1>7, <1>8, <2>1, BodiesOfConcat, SaidIs
  <2>3. Said(s)' = Said(s) \o <<body>>
    BY <2>2, SaidIs
  <2> QED
    BY <1>8, <2>3, AppendIsConcat
<1>10. ASSUME NEW x \in Live, x # s  PROVE Said(x)' = Said(x)
  <2>1. Mine(more, x) = << >>
    BY <1>3, <1>6, <1>10, MineAllOrNone
  <2>2. Mine(messages, x) \o << >> = Mine(messages, x)
    BY <1>8, ConcatEmptySeq
  <2> QED
    BY <1>7, <2>1, <2>2, SaidIs
<1>11. Lists' = [Lists EXCEPT ![s] = Append(Lists[s], body)]
  BY <1>1, <1>9, <1>10
<1>12. FileInv'
  <2>1. messages' \in Seq(Entry)
    BY <1>1, <1>2, AppendProperties
  <2>2. ASSUME NEW i \in DOMAIN messages'  PROVE messages'[i].session \in Live'
    <3>1. Len(messages) \in Nat /\ DOMAIN messages = 1..Len(messages)
      BY <1>1, LenProperties
    <3>2. /\ DOMAIN messages' = 1..(Len(messages) + 1)
          /\ \A j \in 1..Len(messages) : messages'[j] = messages[j]
          /\ messages'[Len(messages) + 1] = new
      BY <1>1, <1>2, AppendProperties, LenProperties
    <3>3. i \in DOMAIN messages \/ i = Len(messages) + 1
      BY <3>1, <3>2
    <3> QED
      BY <1>1, <1>2, <3>1, <3>2, <3>3 DEF FileInv
  <2> QED
    BY <1>1, <2>1, <2>2 DEF FileInv
<1> QED
  BY <1>1, <1>11, <1>12 DEF Store!AddMessage, Store!Live, Live

\* Only messages of s are dropped: the others' are what they were, and s has left
\* those of its own that were picked.
LEMMA FilterMaps ==
  ASSUME NEW s, NEW S \in SUBSET DOMAIN messages, FileInv,
         DOMAIN messages \ PlacesOf(s) \subseteq S, messages' = At(S)
  PROVE  /\ \A x : x # s => Said(x)' = Said(x)
         /\ Said(s)' = BodiesOf(PickAt(messages, S \cap PlacesOf(s)))
         /\ messages' \in Seq(Entry)
         /\ \A i \in DOMAIN messages' : \E j \in S : messages'[i] = messages[j]
<1>1. messages \in Seq(Entry)
  BY DEF FileInv
<1>2. messages' = PickAt(messages, S)
  BY SaidIs
<1>3. ASSUME NEW x
      PROVE  Said(x)' = BodiesOf(PickAt(messages, S \cap PlacesIn(messages, x)))
  BY <1>1, <1>2, FilteredTwice, SaidIs
<1>4. ASSUME NEW x, x # s  PROVE Said(x)' = Said(x)
  <2>1. S \cap PlacesIn(messages, x) = PlacesIn(messages, x)
    BY <1>4 DEF PlacesIn, PlacesOf
  <2> QED
    BY <1>3, <2>1, SaidIs DEF Mine
<1>5. messages' \in Seq(Entry)
  BY <1>1, <1>2, PickedTyped
<1>6. \A i \in DOMAIN messages' : \E j \in S : messages'[i] = messages[j]
  BY <1>1, <1>2, PickedMembers
<1>7. Said(s)' = BodiesOf(PickAt(messages, S \cap PlacesOf(s)))
  BY <1>3, SaidIs
<1> QED
  BY <1>4, <1>5, <1>6, <1>7

LEMMA CompactMaps ==
  ASSUME NEW s \in Sessions, NEW keep \in Nat, FileInv, CompactSession(s, keep)
  PROVE  Store!CompactSession(s, keep) /\ FileInv'
<1> DEFINE P == PlacesOf(s)
           K == Kept(s, keep)
           S == (DOMAIN messages \ P) \cup K
           Lists == [x \in Live |-> Said(x)]
           kept == Store!LastOf(Said(s), keep)
<1>1. /\ s \in Live /\ messages' = At(S) /\ used' = used
      /\ sessions' = [sessions EXCEPT ![s] = [sessions[s] EXCEPT !.removed = Len(Of(s)) - Len(At(K))]]
  BY DEF CompactSession, Replace
<1>2. messages \in Seq(Entry) /\ P \in SUBSET DOMAIN messages /\ K \in SUBSET P
  BY DEF FileInv, PlacesOf, Kept
<1>3. S \in SUBSET DOMAIN messages /\ DOMAIN messages \ P \subseteq S /\ S \cap P = K
  BY <1>2
<1>4. /\ At(K) = Store!LastOf(Of(s), keep)
      /\ Of(s) \in Seq(Entry)
  <2>1. K = {i \in P : Cardinality({j \in P : i < j}) < keep}
    BY DEF Kept
  <2>2. PickAt(messages, {i \in P : Cardinality({j \in P : i < j}) < keep}) =
          Store!LastOf(PickAt(messages, P), keep)
    <3> HIDE DEF P
    <3> QED
      BY <1>2, LastPicked
  <2>3. Of(s) = PickAt(messages, P)
    BY SaidIs DEF Mine
  <2>4. PickAt(messages, P) \in Seq(Entry)
    <3> HIDE DEF P
    <3> QED
      BY <1>2, PickedTyped
  <2> QED
    BY <2>1, <2>2, <2>3, <2>4, SaidIs
<1>5. /\ Store!LastOf(Of(s), keep) \in Seq(Entry)
      /\ BodiesOf(Store!LastOf(Of(s), keep)) = kept
      /\ Said(s) = BodiesOf(Of(s))
  <2>1. Said(s) = BodiesOf(Of(s))
    BY SaidIs
  <2> QED
    BY <1>4, <2>1, BodiesOfLast
<1>6. Len(Of(s)) = Len(Said(s)) /\ Len(At(K)) = Len(kept)
  BY <1>4, <1>5, BodiesTyped
<1> HIDE DEF S, P, K, kept
<1>7. /\ \A x : x # s => Said(x)' = Said(x)
      /\ Said(s)' = BodiesOf(PickAt(messages, S \cap P))
      /\ messages' \in Seq(Entry)
      /\ \A i \in DOMAIN messages' : \E j \in S : messages'[i] = messages[j]
  BY <1>1, <1>3, FilterMaps DEF P
<1>8. Said(s)' = kept
  BY <1>3, <1>4, <1>5, <1>7, SaidIs
<1>9. Live' = Live
  BY <1>1 DEF Live
<1>10. Lists' = [Lists EXCEPT ![s] = kept]
  BY <1>1, <1>7, <1>8, <1>9
<1>11. Lists[s] = Said(s)
  BY <1>1
<1>12. sessions' = [sessions EXCEPT ![s].removed = Len(Lists[s]) - Len(kept)]
  BY <1>1, <1>6, <1>11
<1>13. kept = Store!LastOf(Lists[s], keep)
  BY <1>11 DEF kept
<1>14. FileInv'
  <2>1. ASSUME NEW i \in DOMAIN messages'  PROVE messages'[i].session \in Live'
    BY <1>3, <1>7, <1>9 DEF FileInv
  <2>2. (Live \subseteq used)'
    BY <1>1, <1>9 DEF FileInv
  <2> QED
    BY <1>7, <2>1, <2>2 DEF FileInv
<1> HIDE DEF Lists
<1>15. /\ s \in Live /\ used' = used
       /\ Lists' = [Lists EXCEPT ![s] = Store!LastOf(Lists[s], keep)]
       /\ sessions' = [sessions EXCEPT ![s].removed = Len(Lists[s]) - Len(Store!LastOf(Lists[s], keep))]
  BY <1>1, <1>10, <1>12, <1>13
<1> QED
  BY <1>14, <1>15 DEF Store!CompactSession, Store!Live, Live, Lists

\* Everything of a session is dropped.
LEMMA EmptyMaps ==
  ASSUME NEW s, FileInv, messages' = At(DOMAIN messages \ PlacesOf(s))
  PROVE  /\ \A x : x # s => Said(x)' = Said(x)
         /\ Said(s)' = << >>
         /\ messages' \in Seq(Entry)
         /\ \A i \in DOMAIN messages' : messages'[i].session \in Live \ {s}
<1> DEFINE S == DOMAIN messages \ PlacesOf(s)
<1>1. /\ S \in SUBSET DOMAIN messages /\ DOMAIN messages \ PlacesOf(s) \subseteq S
      /\ S \cap PlacesOf(s) = {} /\ messages' = At(S)
  OBVIOUS
<1>2. \A j \in S : messages[j].session \in Live \ {s}
  BY DEF FileInv, PlacesOf
<1> HIDE DEF S
<1>3. /\ \A x : x # s => Said(x)' = Said(x)
      /\ Said(s)' = BodiesOf(PickAt(messages, {}))
      /\ messages' \in Seq(Entry)
      /\ \A i \in DOMAIN messages' : \E j \in S : messages'[i] = messages[j]
  BY <1>1, FilterMaps
<1> QED
  BY <1>2, <1>3, PickedNone

LEMMA ClearMaps ==
  ASSUME NEW s \in Sessions, FileInv, ClearMessages(s)
  PROVE  Store!ClearMessages(s) /\ FileInv'
<1> DEFINE Lists == [x \in Live |-> Said(x)]
<1>1. /\ s \in Live /\ sessions' = sessions /\ used' = used /\ Live' = Live
      /\ messages' = At(DOMAIN messages \ PlacesOf(s))
  BY DEF ClearMessages, Live
<1>2. /\ \A x : x # s => Said(x)' = Said(x)
      /\ Said(s)' = << >>
      /\ messages' \in Seq(Entry)
      /\ \A i \in DOMAIN messages' : messages'[i].session \in Live \ {s}
  BY <1>1, EmptyMaps
<1>3. Lists' = [Lists EXCEPT ![s] = << >>]
  BY <1>1, <1>2
<1>4. FileInv'
  BY <1>1, <1>2 DEF FileInv
<1> QED
  BY <1>1, <1>3, <1>4 DEF Store!ClearMessages, Store!Live, Live

LEMMA DeleteMaps ==
  ASSUME NEW s \in Sessions, FileInv, DeleteSession(s)
  PROVE  Store!DeleteSession(s) /\ FileInv'
<1> DEFINE Lists == [x \in Live |-> Said(x)]
<1>1. /\ s \in Live /\ used' = used
      /\ sessions' = [x \in Live \ {s} |-> sessions[x]]
      /\ messages' = At(DOMAIN messages \ PlacesOf(s))
  BY DEF DeleteSession
<1>2. Live' = Live \ {s}
  BY <1>1 DEF Live
<1>3. /\ \A x : x # s => Said(x)' = Said(x)
      /\ messages' \in Seq(Entry)
      /\ \A i \in DOMAIN messages' : messages'[i].session \in Live \ {s}
  BY <1>1, EmptyMaps
<1>4. Lists' = [x \in Live \ {s} |-> Lists[x]]
  BY <1>2, <1>3
<1>5. FileInv'
  BY <1>1, <1>2, <1>3 DEF FileInv
<1> QED
  BY <1>1, <1>4, <1>5 DEF Store!DeleteSession, Store!Live, Live

LEMMA StoreStep == FileInv /\ [FileStoreNext]_fileStoreVars => [Store!Next(Keeps)]_(Store!storeVars) /\ FileInv'
<1> SUFFICES ASSUME FileInv, [FileStoreNext]_fileStoreVars
             PROVE  [Store!Next(Keeps)]_(Store!storeVars) /\ FileInv'
  OBVIOUS
<1>1. CASE UNCHANGED fileStoreVars
  <2>1. messages' = messages /\ used' = used /\ sessions' = sessions /\ Live' = Live
    BY <1>1 DEF fileStoreVars, Live
  <2>2. \A x : Said(x)' = Said(x)
    BY <2>1, SaidIs
  <2>3. [x \in Live |-> Said(x)]' = [x \in Live |-> Said(x)]
    BY <2>1, <2>2
  <2>4. FileInv'
    BY <2>1 DEF FileInv
  <2> QED
    BY <2>1, <2>3, <2>4 DEF Store!storeVars
<1>2. ASSUME NEW s \in Sessions, NEW mode \in Modes, CreateSession(s, mode)
      PROVE  Store!Next(Keeps) /\ FileInv'
  BY <1>2, CreateMaps DEF Store!Next
<1>3. ASSUME NEW s \in Sessions, NEW mode \in Modes, UpdateSession(s, mode)
      PROVE  Store!Next(Keeps) /\ FileInv'
  BY <1>3, UpdateMaps DEF Store!Next
<1>4. ASSUME NEW s \in Sessions, NEW fork \in Sessions, NEW mode \in Modes, ForkSession(s, fork, mode)
      PROVE  Store!Next(Keeps) /\ FileInv'
  BY <1>4, ForkMaps DEF Store!Next
<1>5. ASSUME NEW s \in Sessions, NEW status \in Statuses, UpdateStatus(s, status)
      PROVE  Store!Next(Keeps) /\ FileInv'
  BY <1>5, UpdateMaps DEF Store!Next
<1>6. ASSUME NEW s \in Sessions, NEW keep \in Keeps, CompactSession(s, keep)
      PROVE  Store!Next(Keeps) /\ FileInv'
  <2>1. keep \in Nat
    BY FileStoreAssumption
  <2> QED
    BY <1>6, <2>1, CompactMaps DEF Store!Next
<1>7. ASSUME NEW s \in Sessions, NEW body \in Bodies, AddMessage(s, body)
      PROVE  Store!Next(Keeps) /\ FileInv'
  BY <1>7, AddMaps DEF Store!Next
<1>8. ASSUME NEW s \in Sessions, ClearMessages(s)
      PROVE  Store!Next(Keeps) /\ FileInv'
  BY <1>8, ClearMaps DEF Store!Next
<1>9. ASSUME NEW s \in Sessions, DeleteSession(s)
      PROVE  Store!Next(Keeps) /\ FileInv'
  BY <1>9, DeleteMaps DEF Store!Next
<1> QED
  BY <1>1, <1>2, <1>3, <1>4, <1>5, <1>6, <1>7, <1>8, <1>9 DEF FileStoreNext

LEMMA StoreStart == FileStoreInit => Store!Init /\ FileInv
<1> SUFFICES ASSUME FileStoreInit  PROVE Store!Init /\ FileInv
  OBVIOUS
<1>1. sessions = << >> /\ messages = << >> /\ used = {} /\ Live = {}
  BY DEF FileStoreInit, Live
<1>2. [x \in Live |-> Said(x)] = << >>
  BY <1>1
<1>3. messages \in Seq(Entry) /\ DOMAIN messages = {}
  BY <1>1
<1> QED
  BY <1>1, <1>2, <1>3 DEF Store!Init, FileInv

(* The one document does what the store's two maps do: every step of the file  *)
(* is a step of the store in memory on the lists the messages of each session  *)
(* make, whatever the sessions, the messages and how many a compaction keeps.  *)
THEOREM FileIsTheStore == FileStoreSpec => FileImplementsStore
<1>1. FileStoreSpec => []FileInv
  BY StoreStart, StoreStep, PTL DEF FileStoreSpec
<1> QED
  BY <1>1, StoreStart, StoreStep, PTL DEF FileStoreSpec, FileImplementsStore

(***************************************************************************)
(* The session file: types                                                 *)
(***************************************************************************)
Session == [status : Statuses, mode : Modes, removed : 0..MaxMessages, parent : Sessions \cup {NoSession}]

\* With FileInv, the types of the store: what it knows of each session, and how much there is.
FileTyped ==
  /\ used \subseteq Sessions
  /\ sessions \in [Live -> Session]
  /\ Len(messages) <= MaxMessages

\* Less is picked than there is, and than any list that has what is picked.
LEMMA PickedFewer ==
  ASSUME NEW T, NEW list \in Seq(T), NEW S \in SUBSET DOMAIN list, NEW R \in SUBSET S
  PROVE  /\ Len(PickAt(list, R)) \in Nat /\ Len(PickAt(list, S)) \in Nat
         /\ Len(PickAt(list, R)) <= Len(PickAt(list, S)) /\ Len(PickAt(list, S)) <= Len(list)
<1>1. R \in SUBSET DOMAIN list
  OBVIOUS
<1>2. IsFiniteSet(S) /\ Cardinality(S) \in Nat /\ Len(PickAt(list, S)) = Cardinality(S)
  BY PickedTyped
<1>3. Len(PickAt(list, R)) = Cardinality(R) /\ Cardinality(R) \in Nat
  BY <1>1, PickedTyped
<1>4. Cardinality(R) <= Cardinality(S)
  BY <1>2, FS_Subset
<1>5. Cardinality(S) <= Len(list)
  <2> DEFINE n == Len(list)
  <2>1. DOMAIN list = 1..n /\ n \in Nat
    BY LenProperties
  <2> HIDE DEF n
  <2>2. IsFiniteSet(1..n) /\ Cardinality(1..n) = n
    BY <2>1, FS_Interval
  <2>3. Cardinality(S) <= n
    BY <2>1, <2>2, FS_Subset
  <2> QED
    BY <2>3 DEF n
<1> QED
  BY <1>2, <1>3, <1>4, <1>5

\* A session that is written over, or added.
LEMMA SessionsTyped ==
  ASSUME FileTyped, NEW s, NEW session \in Session
  PROVE  /\ Replace(s, session) => sessions' \in [Live' -> Session]
         /\ s \in Sessions /\ InsertSession(s, session) => sessions' \in [Live' -> Session] /\ used' \subseteq Sessions
<1>1. ASSUME Replace(s, session)  PROVE sessions' \in [Live' -> Session]
  <2>1. s \in Live /\ sessions' = [sessions EXCEPT ![s] = session]
    BY <1>1 DEF Replace
  <2>2. sessions' \in [Live -> Session] /\ DOMAIN sessions' = Live
    BY <2>1 DEF FileTyped
  <2> QED
    BY <2>2 DEF Live
<1>2. ASSUME s \in Sessions, InsertSession(s, session)
      PROVE  sessions' \in [Live' -> Session] /\ used' \subseteq Sessions
  <2>1. /\ sessions' = [x \in Live \cup {s} |-> IF x = s THEN session ELSE sessions[x]]
        /\ used' = used \cup {s}
    BY <1>2 DEF InsertSession
  <2>2. sessions' \in [Live \cup {s} -> Session] /\ DOMAIN sessions' = Live \cup {s}
    BY <2>1 DEF FileTyped
  <2> QED
    BY <1>2, <2>1, <2>2 DEF Live, FileTyped
<1> QED
  BY <1>1, <1>2

LEMMA FileTypes ==
  ASSUME FileInv, FileTyped, [FileStoreNext]_fileStoreVars
  PROVE  FileTyped'
<1>0. messages \in Seq(Entry) /\ Len(messages) \in Nat
  BY LenProperties DEF FileInv
<1>1. CASE UNCHANGED fileStoreVars
  BY <1>1 DEF fileStoreVars, FileTyped, Live
\* What a call leaves of the array.
<1>2. ASSUME NEW S \in SUBSET DOMAIN messages, messages' = At(S)  PROVE Len(messages') <= MaxMessages
  <2>1. Len(PickAt(messages, S)) \in Nat /\ Len(PickAt(messages, S)) <= Len(messages)
    BY <1>0, PickedFewer
  <2>2. Len(messages') = Len(PickAt(messages, S))
    BY <1>2, SaidIs
  <2> QED
    BY <1>0, <2>1, <2>2, FileStoreAssumption DEF FileTyped
<1>3. ASSUME NEW s \in Sessions, NEW mode \in Modes, CreateSession(s, mode)  PROVE FileTyped'
  <2>1. [status |-> "idle", mode |-> mode, removed |-> 0, parent |-> NoSession] \in Session
    BY FileStoreAssumption DEF Session
  <2> QED
    BY <1>3, <2>1, SessionsTyped DEF CreateSession, FileTyped
<1>4. ASSUME NEW s \in Sessions, s \in Live  PROVE sessions[s] \in Session
  BY <1>4 DEF FileTyped
<1>5. ASSUME NEW s \in Sessions, NEW mode \in Modes, UpdateSession(s, mode)  PROVE FileTyped'
  <2>1. [sessions[s] EXCEPT !.mode = mode] \in Session
    BY <1>4, <1>5 DEF UpdateSession, Replace, Session
  <2> QED
    BY <1>5, <2>1, SessionsTyped DEF UpdateSession, FileTyped
<1>6. ASSUME NEW s \in Sessions, NEW status \in Statuses, UpdateStatus(s, status)  PROVE FileTyped'
  <2>1. [sessions[s] EXCEPT !.status = status] \in Session
    BY <1>4, <1>6 DEF UpdateStatus, Replace, Session
  <2> QED
    BY <1>6, <2>1, SessionsTyped DEF UpdateStatus, FileTyped
<1>7. ASSUME NEW s \in Sessions, NEW fork \in Sessions, NEW mode \in Modes, ForkSession(s, fork, mode)
      PROVE  FileTyped'
  <2>1. [sessions[s] EXCEPT !.status = "idle", !.mode = mode, !.parent = s] \in Session
    BY <1>4, <1>7, FileStoreAssumption DEF ForkSession, Session
  <2>2. Len(messages') <= MaxMessages
    <3> DEFINE mine == Of(s)
               copies == [i \in DOMAIN mine |-> [mine[i] EXCEPT !.session = fork]]
    <3>1. mine \in Seq(Entry)
      <4>1. PlacesIn(messages, s) \in SUBSET DOMAIN messages
        BY DEF PlacesIn
      <4>2. Mine(messages, s) \in Seq(Entry)
        BY <1>0, <4>1, PickedTyped DEF Mine
      <4> QED
        BY <4>2, SaidIs
    <3>2. messages' = messages \o copies /\ Len(messages) + Len(mine) <= MaxMessages
      BY <1>7 DEF ForkSession
    <3> HIDE DEF mine
    <3>3. DOMAIN mine = 1..Len(mine) /\ Len(mine) \in Nat /\ \A i \in 1..Len(mine) : mine[i] \in Entry
      BY <3>1, LenProperties, ElementOfSeq
    <3>4. \A i \in 1..Len(mine) : [mine[i] EXCEPT !.session = fork] \in Entry
      BY <3>3 DEF Entry
    <3>5. copies \in [1..Len(mine) -> Entry]
      BY <3>3, <3>4
    <3> HIDE DEF copies
    <3>6. copies \in Seq(Entry) /\ Len(copies) = Len(mine)
      BY <3>3, <3>5, SeqDef
    <3>7. Len(messages \o copies) = Len(messages) + Len(copies)
      BY <1>0, <3>6, ConcatProperties
    <3> QED
      BY <3>2, <3>6, <3>7
  <2> QED
    BY <1>7, <2>1, <2>2, SessionsTyped DEF ForkSession, FileTyped
<1>8. ASSUME NEW s \in Sessions, NEW keep \in Keeps, CompactSession(s, keep)  PROVE FileTyped'
  <2> DEFINE P == PlacesOf(s)
             K == Kept(s, keep)
             dropped == Len(Of(s)) - Len(At(K))
  <2>1. P \in SUBSET DOMAIN messages /\ K \in SUBSET P
    BY DEF PlacesOf, Kept
  <2>2. /\ s \in Live /\ messages' = At((DOMAIN messages \ P) \cup K) /\ used' = used
        /\ Replace(s, [sessions[s] EXCEPT !.removed = dropped])
    BY <1>8 DEF CompactSession, Replace
  <2>3. Of(s) = PickAt(messages, P) /\ At(K) = PickAt(messages, K)
    BY SaidIs DEF Mine
  <2> HIDE DEF P, K
  <2>4. /\ Len(PickAt(messages, K)) \in Nat /\ Len(PickAt(messages, P)) \in Nat
        /\ Len(PickAt(messages, K)) <= Len(PickAt(messages, P))
        /\ Len(PickAt(messages, P)) <= Len(messages)
    BY <1>0, <2>1, PickedFewer
  <2>5. dropped \in 0..MaxMessages
    BY <1>0, <2>3, <2>4, FileStoreAssumption DEF FileTyped
  <2>6. Len(messages') <= MaxMessages
    BY <1>2, <2>1, <2>2
  <2> HIDE DEF dropped
  <2>7. [sessions[s] EXCEPT !.removed = dropped] \in Session
    BY <1>4, <2>2, <2>5 DEF Session
  <2> QED
    BY <2>2, <2>6, <2>7, SessionsTyped DEF FileTyped
<1>9. ASSUME NEW s \in Sessions, NEW body \in Bodies, AddMessage(s, body)  PROVE FileTyped'
  <2> DEFINE new == [session |-> s, body |-> body]
  <2>1. messages' = Append(messages, new) /\ Len(messages) < MaxMessages /\ UNCHANGED <<sessions, used>>
    BY <1>9 DEF AddMessage
  <2>2. new \in Entry
    BY DEF Entry
  <2> HIDE DEF new
  <2>3. Len(messages') = Len(messages) + 1
    BY <1>0, <2>1, <2>2, AppendProperties
  <2> QED
    BY <1>0, <2>1, <2>3, FileStoreAssumption DEF FileTyped, Live
<1>10. ASSUME NEW s \in Sessions, ClearMessages(s)  PROVE FileTyped'
  <2>1. messages' = At(DOMAIN messages \ PlacesOf(s)) /\ UNCHANGED <<sessions, used>>
    BY <1>10 DEF ClearMessages
  <2> QED
    BY <1>2, <2>1 DEF FileTyped, Live
<1>11. ASSUME NEW s \in Sessions, DeleteSession(s)  PROVE FileTyped'
  <2>1. /\ messages' = At(DOMAIN messages \ PlacesOf(s)) /\ used' = used
        /\ sessions' = [x \in Live \ {s} |-> sessions[x]]
    BY <1>11 DEF DeleteSession
  <2>2. sessions' \in [Live \ {s} -> Session] /\ DOMAIN sessions' = Live \ {s}
    BY <2>1 DEF FileTyped
  <2> QED
    BY <1>2, <2>1, <2>2 DEF FileTyped, Live
<1> QED
  BY <1>1, <1>3, <1>5, <1>6, <1>7, <1>8, <1>9, <1>10, <1>11 DEF FileStoreNext

LEMMA FileTypesStart == FileStoreInit => FileTyped
<1> SUFFICES ASSUME FileStoreInit  PROVE FileTyped
  OBVIOUS
<1>1. sessions = << >> /\ used = {} /\ DOMAIN sessions = {} /\ Len(messages) = 0
  BY DEF FileStoreInit
<1>2. sessions \in [{} -> Session]
  BY <1>1
<1> QED
  BY <1>1, <1>2, FileStoreAssumption DEF FileTyped, Live

(* The document has its types after any calls: every session that is there was *)
(* created once, and what a compaction says it removed is no more than there   *)
(* was (file-session-store.ts).                                                *)
THEOREM FileStoreTypeCorrect == FileStoreSpec => []FileStoreTypeOK
<1>1. FileInv /\ FileTyped => FileStoreTypeOK
  BY DEF FileInv, FileTyped, Entry, Session, FileStoreTypeOK
<1> QED
  BY StoreStart, StoreStep, FileTypesStart, FileTypes, <1>1, PTL DEF FileStoreSpec

(***************************************************************************)
(* A call: the invariant                                                   *)
(***************************************************************************)
Yielded == [index : Nat, pieces : Seq(Nat)]

\* The calls that were yielded are those that the server gave a valid name, in its order, each
\* with its arguments.
AsSent ==
  /\ \A i \in DOMAIN calls : calls[i].pieces = sent[calls[i].index]
  /\ \A i, j \in DOMAIN calls : i < j => calls[i].index < calls[j].index
  /\ {calls[i].index : i \in DOMAIN calls} = proper

\* Before the headers came, nothing is left of an earlier attempt or of the primary model.
NothingYet ==
  at \in {"prepare", "headers", "backoff"} =>
    /\ sent = None /\ pending = None /\ named = {} /\ proper = {} /\ calls = << >>
    /\ numbered /\ ~finished /\ items = 0

\* What is pending are pieces of calls, and of each call exactly what was sent of it where the
\* server's fragments can be told apart.
Merged ==
  /\ calls = << >> /\ named \subseteq DOMAIN pending
  /\ DOMAIN pending \subseteq Indexes \cup {0} /\ pending \in [DOMAIN pending -> Seq(Nat)]
  /\ Apart => pending = sent /\ named = proper

\* Gemini's calls are numbered as they come.
InTurn ==
  /\ pending = None /\ named = {} /\ calls \in Seq(Yielded)
  /\ proper = DOMAIN sent /\ DOMAIN sent = 0..(Len(calls) - 1)
  /\ \A i \in 1..Len(calls) : calls[i].index = i - 1 /\ calls[i].pieces = sent[i - 1]

\* What the server has sent while a body is read, and what the adapter knows of it.
Collected ==
  at = "body" /\ ~finished =>
    /\ DOMAIN sent \subseteq Indexes /\ sent \in [DOMAIN sent -> Seq(Nat)] /\ items \in Nat
    /\ proper \subseteq DOMAIN sent
    /\ IF proto = "gemini" THEN InTurn ELSE Merged

\* After the server's last event everything was yielded, and there is nothing to yield again.
Delivered ==
  /\ at = "body" /\ finished =>
       pending = None /\ named = {} /\ calls \in Seq(Yielded) /\ (Apart => AsSent)
  /\ at = "ok" /\ finished => (Apart => AsSent)

CallInv == NothingYet /\ Collected /\ Delivered

(* The calls that Gemini sent are those that were yielded for them.            *)
LEMMA InTurnAsSent == InTurn => AsSent
<1> SUFFICES ASSUME InTurn PROVE AsSent
  OBVIOUS
<1>1. DOMAIN calls = 1..Len(calls) /\ Len(calls) \in Nat
  BY LenProperties DEF InTurn
<1>2. \A i \in DOMAIN calls : calls[i].pieces = sent[calls[i].index]
  BY <1>1 DEF InTurn
<1>3. \A i, j \in DOMAIN calls : i < j => calls[i].index < calls[j].index
  BY <1>1 DEF InTurn
<1>4. {calls[i].index : i \in DOMAIN calls} = 0..(Len(calls) - 1)
  <2>1. \A i \in 1..Len(calls) : calls[i].index \in 0..(Len(calls) - 1)
    BY <1>1 DEF InTurn
  <2>2. \A s \in 0..(Len(calls) - 1) : s + 1 \in 1..Len(calls) /\ calls[s + 1].index = s
    BY <1>1 DEF InTurn
  <2> QED
    BY <1>1, <2>1, <2>2
<1> QED
  BY <1>2, <1>3, <1>4 DEF InTurn, AsSent

(* Yielding what is pending, in the order of the indexes, makes the calls what *)
(* the server sent (flushToolCalls); a second flush adds nothing.              *)
LEMMA FlushDelivers ==
  ASSUME CallInv, at = "body", Flush, UNCHANGED <<sent, proper, proto, numbered>>
  PROVE  pending' = None /\ named' = {} /\ calls' \in Seq(Yielded) /\ (Apart' => AsSent')
<1>1. pending' = None /\ named' = {} /\ calls' = Flushed /\ (Apart' <=> Apart)
  BY DEF Flush, Apart
<1>2. CASE finished \/ proto = "gemini"
  <2> DEFINE order == Sorted({})
             more == [i \in DOMAIN order |-> [index |-> order[i], pieces |-> pending[order[i]]]]
  <2>1. DOMAIN order = {}
    <3>1. IsFiniteSet({}) /\ Cardinality({}) = 0
      BY FS_EmptySet
    <3> QED
      BY <3>1, SortedLists
  <2>2. more = << >>
    <3> HIDE DEF order
    <3> QED
      BY <2>1
  <2>3. named = {} /\ calls \in Seq(Yielded)
    BY <1>2 DEF CallInv, Collected, InTurn, Delivered
  <2>4. calls' = calls \o more
    BY <1>1, <2>3 DEF Flushed
  <2>5. calls' = calls
    <3> HIDE DEF more
    <3> QED
      BY <2>2, <2>3, <2>4, ConcatEmptySeq
  <2>6. Apart => AsSent
    BY <1>2, InTurnAsSent DEF CallInv, Collected, Delivered
  <2> QED
    BY <1>1, <2>3, <2>5, <2>6 DEF AsSent
<1>3. CASE ~finished /\ proto # "gemini"
  <2>1. Merged
    BY <1>3 DEF CallInv, Collected
  <2> DEFINE n == Cardinality(named)
             order == Sorted(named)
             more == [i \in 1..n |-> [index |-> order[i], pieces |-> pending[order[i]]]]
  <2>2. named \subseteq Nat /\ IsFiniteSet(named)
    <3>1. IsFiniteSet(Indexes \cup {0}) /\ Indexes \cup {0} \subseteq Nat
      BY CallAssumption, FS_AddElement
    <3>2. named \subseteq Indexes \cup {0}
      BY <2>1 DEF Merged
    <3> QED
      BY <3>1, <3>2, FS_Subset
  <2>3. order \in [1..n -> named] /\ n \in Nat /\ Ascending(order) /\ {order[i] : i \in 1..n} = named
    BY <2>2, SortedLists
  <2>4. calls' = << >> \o more
    BY <1>1, <2>1, <2>3 DEF Flushed, Merged
  <2> HIDE DEF n, order
  <2>5. \A i \in 1..n : order[i] \in Nat /\ order[i] \in DOMAIN pending /\ pending[order[i]] \in Seq(Nat)
    BY <2>1, <2>2, <2>3 DEF Merged
  <2>6. more \in [1..n -> Yielded]
    BY <2>5 DEF Yielded
  <2>7. DOMAIN more = 1..n /\ \A i \in 1..n : more[i].index = order[i] /\ more[i].pieces = pending[order[i]]
    OBVIOUS
  <2> HIDE DEF more
  <2>8. more \in Seq(Yielded)
    BY <2>3, <2>6, SeqDef
  <2>9. calls' = more
    BY <2>4, <2>8, ConcatEmptySeq
  <2>10. \A i \in 1..n : more[i].pieces = pending[more[i].index]
    BY <2>7
  <2>11. \A i, j \in 1..n : i < j => more[i].index < more[j].index
    BY <2>3, <2>7 DEF Ascending
  <2>12. {more[i].index : i \in 1..n} = named
    BY <2>3, <2>7
  <2>13. ASSUME Apart PROVE AsSent'
    <3>0. pending = sent /\ named = proper
      BY <2>1, <2>13 DEF Merged
    <3>1. DOMAIN calls' = 1..n
      BY <2>7, <2>9
    <3>2. \A i \in DOMAIN calls' : calls'[i].pieces = sent'[calls'[i].index]
      BY <2>9, <2>10, <3>0, <3>1
    <3>3. \A i, j \in DOMAIN calls' : i < j => calls'[i].index < calls'[j].index
      BY <2>9, <2>11, <3>1
    <3>4. {calls'[i].index : i \in DOMAIN calls'} = proper'
      BY <2>9, <2>12, <3>0, <3>1
    <3> QED
      BY <3>2, <3>3, <3>4 DEF AsSent
  <2> QED
    BY <1>1, <2>8, <2>9, <2>13
<1> QED
  BY <1>2, <1>3

(* However a response fails, the next attempt and the fallback start with      *)
(* nothing of it (NewBody; stream's own pendingToolCalls).                     *)
LEMMA ThrowKeeps ==
  ASSUME CallInv, NEW eligible \in BOOLEAN, Throw(eligible)
  PROVE  CallInv'
<1>1. CASE eligible /\ fallback /\ model = "primary" /\ ~aborted
  BY <1>1 DEF Throw, NewBody, CallInv, NothingYet, Collected, Delivered
<1>2. CASE ~(eligible /\ fallback /\ model = "primary" /\ ~aborted)
  BY <1>2 DEF Throw, CallInv, NothingYet, Collected, Delivered
<1> QED
  BY <1>1, <1>2

LEMMA RetryKeeps ==
  ASSUME CallInv, at = "headers", NEW eligible \in BOOLEAN, Retry(eligible)
  PROVE  CallInv'
<1>1. CASE attempt < MaxRetries
  BY <1>1 DEF Retry, bodyVars, CallInv, NothingYet, Collected, Delivered
<1>2. CASE ~(attempt < MaxRetries)
  BY <1>2, ThrowKeeps DEF Retry
<1> QED
  BY <1>1, <1>2

(* A server that does not stream sends all its calls at once, in order.        *)
LEMMA JsonKeeps ==
  ASSUME CallInv, NEW n \in Nat, NEW valid \in SUBSET (1..n), JsonAnswer(n, valid)
  PROVE  CallInv'
<1> DEFINE k == Cardinality(valid)
           order == Sorted(valid)
<1>1. /\ finished' /\ at' \in {"failed", "ok"}
      /\ sent' = [s \in 1..n |-> << >>] /\ proper' = valid
      /\ calls' = [i \in DOMAIN order |-> [index |-> order[i], pieces |-> << >>]]
  BY DEF JsonAnswer
<1>2. IsFiniteSet(valid) /\ valid \subseteq Nat
  <2>1. IsFiniteSet(1..n) /\ 1..n \subseteq Nat
    BY FS_Interval
  <2> QED
    BY <2>1, FS_Subset
<1>3. order \in [1..k -> valid] /\ k \in Nat /\ Ascending(order) /\ {order[i] : i \in 1..k} = valid
  BY <1>2, SortedLists
<1> HIDE DEF k, order
<1>4. DOMAIN calls' = 1..k /\ \A i \in 1..k : calls'[i].index = order[i] /\ calls'[i].pieces = << >>
  BY <1>1, <1>3
<1>5. \A i \in DOMAIN calls' : calls'[i].pieces = sent'[calls'[i].index]
  BY <1>1, <1>3, <1>4
<1>6. \A i, j \in DOMAIN calls' : i < j => calls'[i].index < calls'[j].index
  BY <1>3, <1>4 DEF Ascending
<1>7. {calls'[i].index : i \in DOMAIN calls'} = valid
  BY <1>3, <1>4
<1>8. AsSent'
  BY <1>1, <1>5, <1>6, <1>7 DEF AsSent
<1> QED
  BY <1>1, <1>8 DEF CallInv, NothingYet, Collected, Delivered

(* A body is read from its beginning.                                          *)
LEMMA HeadersKeep ==
  ASSUME CallInv, Headers
  PROVE  CallInv'
<1>1. /\ at' = "body" /\ UNCHANGED <<proto, sent, pending, named, proper, calls, finished, items>>
      /\ sent = None /\ pending = None /\ named = {} /\ proper = {} /\ calls = << >>
      /\ ~finished /\ items = 0
  BY DEF Headers, CallInv, NothingYet
<1>2. DOMAIN sent = {} /\ sent \in [{} -> Seq(Nat)] /\ calls \in Seq(Yielded) /\ Len(calls) = 0
  BY <1>1 DEF None
<1>3. 1..Len(calls) = {} /\ 0..(Len(calls) - 1) = {}
  BY <1>2
<1>4. InTurn' /\ Merged'
  BY <1>1, <1>2, <1>3 DEF InTurn, Merged
<1>5. Collected'
  BY <1>1, <1>2, <1>4 DEF Collected
<1> QED
  BY <1>1, <1>5 DEF CallInv, NothingYet, Delivered

(* A call that begins, and a piece of one, go to the entry of its index, or to *)
(* the one entry there is where there are no indexes.                          *)
LEMMA FragmentKeeps ==
  ASSUME CallInv, NEW s \in Indexes,
         (\E valid \in BOOLEAN : CallStarts(s, valid)) \/ Arguments(s)
  PROVE  CallInv'
<1>1. /\ at = "body" /\ ~finished /\ proto # "gemini"
      /\ UNCHANGED <<proto, at, finished, calls, numbered>> /\ items' = items + 1
  BY DEF CallStarts, Arguments
<1>2. /\ DOMAIN sent \subseteq Indexes /\ sent \in [DOMAIN sent -> Seq(Nat)] /\ items \in Nat
      /\ proper \subseteq DOMAIN sent /\ Merged
  BY <1>1 DEF CallInv, Collected
<1>3. SUFFICES /\ DOMAIN sent' \subseteq Indexes /\ sent' \in [DOMAIN sent' -> Seq(Nat)]
               /\ proper' \subseteq DOMAIN sent' /\ Merged'
  BY <1>1, <1>2 DEF CallInv, NothingYet, Collected, Delivered
<1>4. Place(s) \in Indexes \cup {0}
  BY DEF Place
<1>5. CASE \E valid \in BOOLEAN : CallStarts(s, valid)
  <2>1. PICK valid \in BOOLEAN : CallStarts(s, valid)
    BY <1>5
  <2>2. /\ sent' = [t \in DOMAIN sent \cup {s} |-> IF t = s THEN << >> ELSE sent[t]]
        /\ pending' = [t \in DOMAIN pending \cup {Place(s)} |->
                         IF t \in DOMAIN pending THEN pending[t] ELSE << >>]
        /\ named' = IF valid THEN named \cup {Place(s)} ELSE named \ {Place(s)}
        /\ proper' = IF valid THEN proper \cup {s} ELSE proper
        /\ s \notin DOMAIN sent
    BY <2>1 DEF CallStarts
  <2>3. << >> \in Seq(Nat)
    OBVIOUS
  <2>4. /\ DOMAIN sent' = DOMAIN sent \cup {s} /\ sent' \in [DOMAIN sent' -> Seq(Nat)]
        /\ proper' \subseteq DOMAIN sent'
    BY <1>2, <2>2, <2>3
  <2>5. /\ DOMAIN pending' = DOMAIN pending \cup {Place(s)}
        /\ pending' \in [DOMAIN pending' -> Seq(Nat)] /\ named' \subseteq DOMAIN pending'
    BY <1>2, <2>2, <2>3 DEF Merged
  <2>6. ASSUME Apart' PROVE pending' = sent' /\ named' = proper'
    <3>1. Apart /\ Place(s) = s
      BY <1>1, <2>4, <2>6 DEF Apart, Place
    <3>2. pending = sent /\ named = proper
      BY <1>2, <3>1 DEF Merged
    <3>3. pending' = sent'
      BY <2>2, <3>1, <3>2
    <3>4. named' = proper'
      BY <1>2, <2>2, <3>1, <3>2
    <3> QED
      BY <3>3, <3>4
  <2>7. Merged'
    BY <1>1, <1>2, <1>4, <2>5, <2>6 DEF Merged
  <2> QED
    BY <1>2, <2>4, <2>7
<1>6. CASE Arguments(s)
  <2>1. /\ s \in DOMAIN sent /\ UNCHANGED <<named, proper>>
        /\ sent' = [sent EXCEPT ![s] = Append(@, items + 1)]
        /\ pending' = [pending EXCEPT ![Place(s)] = Append(@, items + 1)]
    BY <1>6 DEF Arguments, SentPiece
  <2>2. \A list \in Seq(Nat) : Append(list, items + 1) \in Seq(Nat)
    BY <1>2, AppendProperties
  <2>3. DOMAIN sent' = DOMAIN sent /\ sent' \in [DOMAIN sent' -> Seq(Nat)]
    BY <1>2, <2>1, <2>2
  <2>4. DOMAIN pending' = DOMAIN pending /\ pending' \in [DOMAIN pending' -> Seq(Nat)]
    BY <1>2, <2>1, <2>2 DEF Merged
  <2>5. ASSUME Apart' PROVE pending' = sent' /\ named' = proper'
    <3>1. Apart /\ Place(s) = s
      BY <1>1, <2>1, <2>3, <2>5 DEF Apart, Place
    <3> QED
      BY <1>2, <2>1, <3>1 DEF Merged
  <2>6. Merged'
    BY <1>1, <1>2, <2>1, <2>4, <2>5 DEF Merged
  <2> QED
    BY <1>2, <2>1, <2>3, <2>6
<1> QED
  BY <1>5, <1>6

(* Gemini's calls come whole and are numbered in the order they come.          *)
LEMMA WholeCallKeeps ==
  ASSUME CallInv, NEW s \in Indexes, WholeCall(s)
  PROVE  CallInv'
<1> DEFINE call == [index |-> s, pieces |-> <<items + 1>>]
<1>1. /\ at = "body" /\ ~finished /\ proto = "gemini" /\ s = Len(calls)
      /\ UNCHANGED <<proto, at, pending, named, finished>> /\ items' = items + 1
      /\ sent' = [t \in DOMAIN sent \cup {s} |-> IF t = s THEN <<items + 1>> ELSE sent[t]]
      /\ proper' = proper \cup {s} /\ calls' = Append(calls, call)
  BY DEF WholeCall
<1>2. /\ DOMAIN sent \subseteq Indexes /\ sent \in [DOMAIN sent -> Seq(Nat)] /\ items \in Nat
      /\ pending = None /\ named = {} /\ calls \in Seq(Yielded)
      /\ proper = DOMAIN sent /\ DOMAIN sent = 0..(Len(calls) - 1)
      /\ \A i \in 1..Len(calls) : calls[i].index = i - 1 /\ calls[i].pieces = sent[i - 1]
  BY <1>1 DEF CallInv, Collected, InTurn
<1>3. <<items + 1>> \in Seq(Nat) /\ s \in Nat
  BY <1>2, CallAssumption
<1>4. call \in Yielded /\ call.index = s /\ call.pieces = <<items + 1>>
  BY <1>3 DEF Yielded
<1> HIDE DEF call
<1>5. /\ calls' \in Seq(Yielded) /\ Len(calls') = s + 1 /\ calls'[s + 1] = call
      /\ \A i \in 1..s : calls'[i] = calls[i]
  BY <1>1, <1>2, <1>4, AppendProperties
<1>6. DOMAIN sent' = 0..s /\ sent'[s] = <<items + 1>> /\ \A i \in 0..(s - 1) : sent'[i] = sent[i]
  <2>1. DOMAIN sent' = (0..(s - 1)) \cup {s}
    BY <1>1, <1>2
  <2>2. (0..(s - 1)) \cup {s} = 0..s
    BY <1>3
  <2>3. \A i \in 0..(s - 1) : i # s
    BY <1>3
  <2> QED
    BY <1>1, <1>2, <2>1, <2>2, <2>3
<1>7. \A i \in 1..(s + 1) : calls'[i].index = i - 1 /\ calls'[i].pieces = sent'[i - 1]
  <2>1. \A i \in 1..(s + 1) : i = s + 1 \/ (i \in 1..s /\ i - 1 \in 0..(s - 1))
    BY <1>3
  <2>2. calls'[s + 1].index = (s + 1) - 1 /\ calls'[s + 1].pieces = sent'[(s + 1) - 1]
    BY <1>3, <1>4, <1>5, <1>6
  <2>3. ASSUME NEW i \in 1..s, i - 1 \in 0..(s - 1)
        PROVE  calls'[i].index = i - 1 /\ calls'[i].pieces = sent'[i - 1]
    BY <1>1, <1>2, <1>5, <1>6, <2>3
  <2> QED
    BY <2>1, <2>2, <2>3
<1>8. DOMAIN sent' \subseteq Indexes /\ sent' \in [DOMAIN sent' -> Seq(Nat)]
  BY <1>1, <1>2, <1>3
<1>9. InTurn'
  <2>1. pending' = None /\ named' = {} /\ proper' = DOMAIN sent'
    BY <1>1, <1>2
  <2>2. DOMAIN sent' = 0..(Len(calls') - 1)
    BY <1>3, <1>5, <1>6
  <2>3. \A i \in 1..Len(calls') : calls'[i].index = i - 1 /\ calls'[i].pieces = sent'[i - 1]
    BY <1>5, <1>7
  <2> QED
    BY <1>5, <2>1, <2>2, <2>3 DEF InTurn
<1>10. Collected'
  <2>1. proto' = "gemini" /\ items' \in Nat /\ proper' = DOMAIN sent'
    BY <1>1, <1>2
  <2> QED
    BY <1>8, <1>9, <2>1 DEF Collected
<1> QED
  BY <1>1, <1>10 DEF CallInv, NothingYet, Delivered

(* The server's last event: the adapters that collect flush.                   *)
LEMMA StopKeeps ==
  ASSUME CallInv, Stop
  PROVE  CallInv'
<1>1. /\ at = "body" /\ ~finished /\ finished' /\ at' \in {"ok", "body"}
      /\ UNCHANGED <<proto, sent, proper, numbered>>
  BY DEF Stop
<1>2. CASE proto = "gemini"
  <2>1. UNCHANGED <<calls, pending, named>> /\ InTurn
    BY <1>1, <1>2 DEF Stop, CallInv, Collected
  <2>2. AsSent'
    BY <1>1, <2>1, InTurnAsSent DEF AsSent
  <2>3. pending' = None /\ named' = {} /\ calls' \in Seq(Yielded)
    BY <2>1 DEF InTurn
  <2> QED
    BY <1>1, <2>2, <2>3 DEF CallInv, NothingYet, Collected, Delivered
<1>3. CASE proto # "gemini"
  <2>1. pending' = None /\ named' = {} /\ calls' \in Seq(Yielded) /\ (Apart' => AsSent')
    BY <1>1, <1>3, FlushDelivers DEF Stop
  <2> QED
    BY <1>1, <2>1 DEF CallInv, NothingYet, Collected, Delivered
<1> QED
  BY <1>2, <1>3

LEMMA CallStart == CallInit => CallInv
  BY DEF CallInit, CallInv, NothingYet, Collected, Delivered

LEMMA CallStep == CallInv /\ [CallNext]_callVars => CallInv'
<1> SUFFICES ASSUME CallInv, [CallNext]_callVars  PROVE CallInv'
  OBVIOUS
<1>1. ASSUME NEW n \in 0..Cardinality(Indexes), NEW valid \in SUBSET (1..n), JsonAnswer(n, valid)
      PROVE  CallInv'
  <2>1. Cardinality(Indexes) \in Nat
    BY CallAssumption, FS_CardinalityType
  <2>2. n \in Nat
    BY <2>1
  <2> QED
    BY <1>1, <2>2, JsonKeeps
<1>2. CASE Request \/ BackoffEnds
  BY <1>2 DEF Request, BackoffEnds, bodyVars, CallInv, NothingYet, Collected, Delivered
<1>10. CASE Headers
  BY <1>10, HeadersKeep
<1>3. CASE RetryableAnswer \/ HeaderTimeout
  <2>1. \E eligible \in BOOLEAN : Retry(eligible) /\ at = "headers"
    BY <1>3 DEF RetryableAnswer, HeaderTimeout
  <2> QED
    BY <2>1, RetryKeeps
<1>4. CASE Refused \/ ReadFails
  <2>1. \E eligible \in BOOLEAN : Throw(eligible)
    BY <1>4 DEF Refused, ReadFails
  <2> QED
    BY <2>1, ThrowKeeps
<1>5. ASSUME NEW s \in Indexes,
             (\E valid \in BOOLEAN : CallStarts(s, valid)) \/ Arguments(s) \/ WholeCall(s)
      PROVE  CallInv'
  BY <1>5, FragmentKeeps, WholeCallKeeps
<1>6. CASE Stop
  BY <1>6, StopKeeps
<1>7. CASE BodyEnds
  <2>1. /\ at = "body" /\ at' \in {"failed", "ok"} /\ Flush
        /\ UNCHANGED <<sent, proper, proto, numbered, finished>>
    BY <1>7 DEF BodyEnds
  <2>2. Apart' => AsSent'
    BY <2>1, FlushDelivers
  <2> QED
    BY <2>1, <2>2 DEF CallInv, NothingYet, Collected, Delivered
<1>8. CASE MalformedLine \/ AbortSeen
  BY <1>8 DEF MalformedLine, AbortSeen, CallInv, NothingYet, Collected, Delivered
<1>9. CASE Abort \/ UNCHANGED callVars
  <2>1. UNCHANGED <<proto, at, pending, named, numbered, calls, sent, proper, finished, items>>
    BY <1>9 DEF Abort, callVars, bodyVars
  <2>2. /\ AsSent' <=> AsSent
        /\ Apart' <=> Apart
        /\ InTurn' <=> InTurn
        /\ Merged' <=> Merged
    BY <2>1 DEF AsSent, Apart, InTurn, Merged
  <2> QED
    BY <2>1, <2>2 DEF CallInv, NothingYet, Collected, Delivered
<1> QED
  BY <1>1, <1>2, <1>3, <1>4, <1>5, <1>6, <1>7, <1>8, <1>9, <1>10 DEF CallNext

(* However the fragments of the calls of a response are interleaved, whatever  *)
(* failed before and whenever the user aborts (core/llm), a response that came *)
(* whole yields every call that the server gave a valid name, in its order,    *)
(* each with its own arguments. An OpenAI-compatible stream must number its    *)
(* calls for that, or have but one.                                            *)
THEOREM CallsComeWhole == CallSpec => []CallsWhole
<1>1. CallInv => CallsWhole
  BY DEF CallInv, Delivered, AsSent, CallsWhole
<1> QED
  BY CallStart, CallStep, <1>1, PTL DEF CallSpec

(***************************************************************************)
(* A call: types                                                           *)
(***************************************************************************)
Called == [index : Numbers, pieces : Pieces]

\* What the adapter and the server know of the calls of the response.
BodyTyped ==
  /\ pending \in [DOMAIN pending -> Pieces] /\ DOMAIN pending \subseteq Indexes \cup {0}
  /\ named \subseteq DOMAIN pending
  /\ calls \in Seq(Called)
  /\ sent \in [DOMAIN sent -> Pieces] /\ DOMAIN sent \subseteq Numbers
  /\ proper \subseteq DOMAIN sent
  /\ items \in 0..MaxItems /\ {numbered, finished} \subseteq BOOLEAN

\* Which attempt of which model is made: after a delay there is another to make.
AttemptTyped ==
  /\ proto \in Protocols /\ model \in {"primary", "fallback"} /\ fallback \in BOOLEAN
  /\ attempt \in 0..MaxRetries /\ (at = "backoff" => attempt < MaxRetries)
  /\ at \in {"prepare", "headers", "backoff", "body", "ok", "failed"}
  /\ aborted \in BOOLEAN

LEMMA NewBodyTyped == NewBody => BodyTyped'
<1> SUFFICES ASSUME NewBody  PROVE BodyTyped'
  OBVIOUS
<1>1. /\ pending' = None /\ named' = {} /\ numbered' = TRUE /\ calls' = << >>
      /\ sent' = None /\ proper' = {} /\ finished' = FALSE /\ items' = 0
  BY DEF NewBody
<1>2. DOMAIN None = {} /\ None \in [{} -> Pieces]
  BY DEF None
<1>3. << >> \in Seq(Called) /\ 0 \in 0..MaxItems
  BY CallAssumption
<1> QED
  BY <1>1, <1>2, <1>3 DEF BodyTyped

LEMMA ThrowTypes ==
  ASSUME BodyTyped, AttemptTyped, NEW eligible, Throw(eligible), UNCHANGED <<fallback, aborted>>
  PROVE  BodyTyped' /\ AttemptTyped'
<1>1. CASE /\ model' = "fallback" /\ proto' \in Protocols
           /\ attempt' = 0 /\ at' = "prepare" /\ NewBody
  <2>1. 0 \in 0..MaxRetries
    BY CallAssumption
  <2> QED
    BY <1>1, <2>1, NewBodyTyped DEF AttemptTyped
<1>2. CASE at' = "failed" /\ UNCHANGED <<model, proto, attempt, bodyVars>>
  BY <1>2 DEF bodyVars, BodyTyped, AttemptTyped
<1> QED
  BY <1>1, <1>2 DEF Throw

LEMMA RetryTypes ==
  ASSUME BodyTyped, AttemptTyped, NEW eligible, Retry(eligible), UNCHANGED <<fallback, aborted>>
  PROVE  BodyTyped' /\ AttemptTyped'
<1>1. CASE attempt < MaxRetries /\ at' = "backoff" /\ UNCHANGED <<model, proto, attempt, bodyVars>>
  BY <1>1 DEF bodyVars, BodyTyped, AttemptTyped
<1>2. CASE Throw(eligible)
  BY <1>2, ThrowTypes
<1> QED
  BY <1>1, <1>2 DEF Retry

\* What is yielded at a flush are calls of their own, whatever was yielded before.
LEMMA FlushTypes ==
  ASSUME BodyTyped, Flush, UNCHANGED <<sent, proper, numbered, items>>, finished' \in BOOLEAN
  PROVE  BodyTyped'
<1> DEFINE order == Sorted(named)
           n == Cardinality(named)
           more == [i \in DOMAIN order |-> [index |-> order[i], pieces |-> pending[order[i]]]]
<1>1. calls' = calls \o more /\ pending' = None /\ named' = {}
  BY DEF Flush, Flushed
<1>2. IsFiniteSet(named) /\ named \subseteq Nat /\ named \subseteq Numbers
  <2>1. IsFiniteSet(Indexes \cup {0}) /\ Indexes \cup {0} \subseteq Nat
    BY CallAssumption, FS_AddElement
  <2>2. named \subseteq Indexes \cup {0} /\ Indexes \cup {0} \subseteq Numbers
    BY DEF BodyTyped, Numbers
  <2> QED
    BY <2>1, <2>2, FS_Subset
<1>3. n \in Nat /\ order \in [1..n -> named]
  BY <1>2, SortedLists
<1> HIDE DEF n, order
<1>4. \A i \in 1..n : [index |-> order[i], pieces |-> pending[order[i]]] \in Called
  BY <1>2, <1>3 DEF BodyTyped, Called
<1>5. more \in [1..n -> Called]
  BY <1>3, <1>4
<1> HIDE DEF more
<1>6. more \in Seq(Called)
  BY <1>3, <1>5, SeqDef
<1>7. calls' \in Seq(Called)
  BY <1>1, <1>6, ConcatProperties DEF BodyTyped
<1>8. DOMAIN None = {} /\ None \in [{} -> Pieces]
  BY DEF None
<1> QED
  BY <1>1, <1>7, <1>8 DEF BodyTyped

LEMMA JsonTypes ==
  ASSUME BodyTyped, NEW n \in 0..Cardinality(Indexes), NEW valid \in SUBSET (1..n),
         JsonAnswer(n, valid)
  PROVE  BodyTyped'
<1> DEFINE k == Cardinality(valid)
           order == Sorted(valid)
<1>1. /\ sent' = [s \in 1..n |-> << >>] /\ proper' = valid /\ finished' = TRUE
      /\ calls' = [i \in DOMAIN order |-> [index |-> order[i], pieces |-> << >>]]
      /\ UNCHANGED <<pending, named, numbered, items>>
  BY DEF JsonAnswer
<1>2. n \in Nat /\ 1..n \subseteq Numbers
  BY CallAssumption, FS_CardinalityType DEF Numbers
<1>3. << >> \in Pieces
  BY DEF Pieces
<1>4. k \in Nat /\ order \in [1..k -> valid]
  <2>1. IsFiniteSet(1..n) /\ 1..n \subseteq Nat
    BY <1>2, FS_Interval
  <2>2. IsFiniteSet(valid) /\ valid \subseteq Nat
    BY <2>1, FS_Subset
  <2> QED
    BY <2>2, SortedLists
<1> HIDE DEF k, order
<1>5. \A i \in 1..k : [index |-> order[i], pieces |-> << >>] \in Called
  BY <1>2, <1>3, <1>4 DEF Called
<1>6. calls' \in [1..k -> Called]
  BY <1>1, <1>4, <1>5
<1>7. calls' \in Seq(Called)
  BY <1>4, <1>6, SeqDef
<1>8. sent' \in [1..n -> Pieces] /\ DOMAIN sent' = 1..n
  BY <1>1, <1>3
<1> QED
  BY <1>1, <1>2, <1>7, <1>8 DEF BodyTyped

\* An event of a stream adds a call, or a piece to one.
LEMMA EventTypes ==
  ASSUME BodyTyped, NEW s \in Indexes,
         (\E valid \in BOOLEAN : CallStarts(s, valid)) \/ Arguments(s) \/ WholeCall(s)
  PROVE  BodyTyped'
<1>1. items' = items + 1 /\ items < MaxItems /\ UNCHANGED <<numbered, finished>>
  BY DEF CallStarts, Arguments, WholeCall
<1>2. items' \in 0..MaxItems /\ items + 1 \in 1..MaxItems /\ s \in Numbers
  BY <1>1, CallAssumption DEF BodyTyped, Numbers
<1>3. << >> \in Pieces /\ <<items + 1>> \in Pieces
  <2>1. <<items + 1>> \in Seq(1..MaxItems)
    BY <1>2
  <2> QED
    BY <2>1 DEF Pieces
<1>4. CASE \E valid \in BOOLEAN : CallStarts(s, valid)
  <2> DEFINE p == Place(s)
  <2>1. /\ sent' = [t \in DOMAIN sent \cup {s} |-> IF t = s THEN << >> ELSE sent[t]]
        /\ pending' = [t \in DOMAIN pending \cup {p} |-> IF t \in DOMAIN pending THEN pending[t] ELSE << >>]
        /\ calls' = calls /\ (named' = named \cup {p} \/ named' = named \ {p})
        /\ proper' \subseteq proper \cup {s}
    BY <1>4 DEF CallStarts
  <2>2. p \in Indexes \cup {0}
    BY DEF Place
  <2> HIDE DEF p
  <2>3. sent' \in [DOMAIN sent \cup {s} -> Pieces] /\ DOMAIN sent' = DOMAIN sent \cup {s}
    BY <1>3, <2>1 DEF BodyTyped
  <2>4. pending' \in [DOMAIN pending \cup {p} -> Pieces] /\ DOMAIN pending' = DOMAIN pending \cup {p}
    BY <1>3, <2>1 DEF BodyTyped
  <2>5. named' \subseteq DOMAIN pending' /\ DOMAIN pending' \subseteq Indexes \cup {0}
    BY <2>1, <2>2, <2>4 DEF BodyTyped
  <2>6. proper' \subseteq DOMAIN sent' /\ DOMAIN sent' \subseteq Numbers
    BY <1>2, <2>1, <2>3 DEF BodyTyped
  <2> QED
    BY <1>1, <1>2, <2>1, <2>3, <2>4, <2>5, <2>6 DEF BodyTyped
<1>5. CASE Arguments(s)
  <2>1. /\ sent' = [sent EXCEPT ![s] = Append(@, items + 1)]
        /\ pending' = [pending EXCEPT ![Place(s)] = Append(@, items + 1)]
        /\ UNCHANGED <<calls, named, proper>>
    BY <1>5 DEF Arguments, SentPiece
  <2>2. \A list \in Pieces : Append(list, items + 1) \in Pieces
    BY <1>2, AppendProperties DEF Pieces
  <2>3. sent' \in [DOMAIN sent -> Pieces] /\ DOMAIN sent' = DOMAIN sent
    BY <2>1, <2>2 DEF BodyTyped
  <2>4. pending' \in [DOMAIN pending -> Pieces] /\ DOMAIN pending' = DOMAIN pending
    BY <2>1, <2>2 DEF BodyTyped
  <2> QED
    BY <1>1, <1>2, <2>1, <2>3, <2>4 DEF BodyTyped
<1>6. CASE WholeCall(s)
  <2> DEFINE call == [index |-> s, pieces |-> <<items + 1>>]
  <2>1. /\ sent' = [t \in DOMAIN sent \cup {s} |-> IF t = s THEN <<items + 1>> ELSE sent[t]]
        /\ proper' = proper \cup {s}
        /\ calls' = Append(calls, call) /\ UNCHANGED <<pending, named>>
    BY <1>6 DEF WholeCall
  <2>2. sent' \in [DOMAIN sent \cup {s} -> Pieces] /\ DOMAIN sent' = DOMAIN sent \cup {s}
    BY <1>3, <2>1 DEF BodyTyped
  <2>3. call \in Called
    BY <1>2, <1>3 DEF Called
  <2> HIDE DEF call
  <2>4. calls' \in Seq(Called)
    BY <2>1, <2>3, AppendProperties DEF BodyTyped
  <2>5. proper' \subseteq DOMAIN sent' /\ DOMAIN sent' \subseteq Numbers
    BY <1>2, <2>1, <2>2 DEF BodyTyped
  <2> QED
    BY <1>1, <1>2, <2>1, <2>2, <2>4, <2>5 DEF BodyTyped
<1> QED
  BY <1>4, <1>5, <1>6

LEMMA CallTypes ==
  ASSUME BodyTyped, AttemptTyped, [CallNext]_callVars
  PROVE  BodyTyped' /\ AttemptTyped'
<1>1. CASE UNCHANGED callVars
  BY <1>1 DEF callVars, bodyVars, BodyTyped, AttemptTyped
<1>2. ASSUME NEW n \in 0..Cardinality(Indexes), NEW valid \in SUBSET (1..n), JsonAnswer(n, valid)
      PROVE  BodyTyped' /\ AttemptTyped'
  <2>1. at' \in {"failed", "ok"} /\ UNCHANGED <<proto, model, fallback, attempt, aborted>>
    BY <1>2 DEF JsonAnswer
  <2> QED
    BY <1>2, <2>1, JsonTypes DEF AttemptTyped
<1>3. CASE Request \/ Headers \/ MalformedLine \/ AbortSeen
  BY <1>3 DEF Request, Headers, MalformedLine, AbortSeen, bodyVars, BodyTyped, AttemptTyped
<1>4. CASE RetryableAnswer \/ HeaderTimeout
  BY <1>4, RetryTypes DEF RetryableAnswer, HeaderTimeout
<1>5. CASE Refused \/ ReadFails
  BY <1>5, ThrowTypes DEF Refused, ReadFails
<1>6. CASE BackoffEnds
  <2>1. attempt + 1 \in 0..MaxRetries
    BY <1>6, CallAssumption DEF BackoffEnds, AttemptTyped
  <2> QED
    BY <1>6, <2>1 DEF BackoffEnds, bodyVars, BodyTyped, AttemptTyped
<1>7. ASSUME NEW s \in Indexes,
             (\E valid \in BOOLEAN : CallStarts(s, valid)) \/ Arguments(s) \/ WholeCall(s)
      PROVE  BodyTyped' /\ AttemptTyped'
  <2>1. UNCHANGED <<proto, model, fallback, attempt, at, aborted>>
    BY <1>7 DEF CallStarts, Arguments, WholeCall
  <2> QED
    BY <1>7, <2>1, EventTypes DEF AttemptTyped
<1>8. CASE Stop
  <2>1. /\ at' \in {at, "ok"} /\ UNCHANGED <<proto, model, fallback, attempt, aborted>>
        /\ UNCHANGED <<numbered, sent, proper, items>>
    BY <1>8 DEF Stop
  <2>2. finished' = TRUE /\ (UNCHANGED <<pending, named, calls>> \/ Flush)
    BY <1>8 DEF Stop
  <2>3. BodyTyped'
    BY <2>1, <2>2, FlushTypes DEF BodyTyped
  <2> QED
    BY <2>1, <2>3 DEF AttemptTyped
<1>9. CASE BodyEnds
  <2>1. /\ at' \in {"failed", "ok"} /\ UNCHANGED <<proto, model, fallback, attempt, aborted>>
        /\ UNCHANGED <<numbered, sent, proper, items, finished>>
    BY <1>9 DEF BodyEnds
  <2>2. BodyTyped'
    BY <1>9, <2>1, FlushTypes DEF BodyEnds, BodyTyped
  <2> QED
    BY <2>1, <2>2 DEF AttemptTyped
<1>10. CASE Abort
  BY <1>10 DEF Abort, bodyVars, BodyTyped, AttemptTyped
<1> QED
  BY <1>1, <1>2, <1>3, <1>4, <1>5, <1>6, <1>7, <1>8, <1>9, <1>10 DEF CallNext

LEMMA CallTypesStart == CallInit => BodyTyped /\ AttemptTyped
<1> SUFFICES ASSUME CallInit  PROVE BodyTyped /\ AttemptTyped
  OBVIOUS
<1>1. DOMAIN None = {} /\ None \in [{} -> Pieces]
  BY DEF None
<1>2. << >> \in Seq(Called) /\ 0 \in 0..MaxItems /\ 0 \in 0..MaxRetries
  BY CallAssumption
<1> QED
  BY <1>1, <1>2 DEF CallInit, BodyTyped, AttemptTyped

(* A call has its types whatever the server sends and however often it is      *)
(* tried: no attempt is beyond the last (fetchWithProviderPolicy), and every   *)
(* call that is yielded is one of the response, its arguments pieces of it.    *)
THEOREM CallTypeCorrect == CallSpec => []CallTypeOK
<1>1. BodyTyped /\ AttemptTyped => CallTypeOK
  BY DEF BodyTyped, AttemptTyped, Called, CallTypeOK
<1> QED
  BY CallTypesStart, CallTypes, <1>1, PTL DEF CallSpec
(***************************************************************************)
(* An aborted provider call ends.                                          *)
(***************************************************************************)
Awaits == aborted /\ at \in {"headers", "backoff", "body"}
Prepares == aborted /\ at = "prepare"
CallOver == at \in {"ok", "failed"}

\* Nothing undoes an abort, and what it finds waiting can only end, or prepare one more attempt.
LEMMA AbortedStep ==
  ASSUME [CallNext]_callVars
  PROVE  /\ Awaits => Awaits' \/ Prepares' \/ CallOver'
         /\ Prepares => Prepares' \/ CallOver'
<1>1. Awaits => Awaits' \/ Prepares' \/ CallOver'
  BY DEF Awaits, Prepares, CallOver, callVars, CallNext, JsonAnswer, Request, RetryableAnswer,
     HeaderTimeout, Refused, Headers, BackoffEnds, CallStarts, Arguments, WholeCall, Stop, BodyEnds,
     MalformedLine, ReadFails, Abort, AbortSeen, Throw, Retry
<1>2. Prepares => Prepares' \/ CallOver'
  BY DEF Awaits, Prepares, CallOver, callVars, CallNext, JsonAnswer, Request, RetryableAnswer,
     HeaderTimeout, Refused, Headers, BackoffEnds, CallStarts, Arguments, WholeCall, Stop, BodyEnds,
     MalformedLine, ReadFails, Abort, AbortSeen, Throw, Retry
<1> QED BY <1>1, <1>2

\* An abort ends the call of any protocol, with any number of attempts left and however silent
\* the server is (the signal of fetchWithProviderPolicy, of its delay and of the reader).
THEOREM AbortEndsTheCall ==
  CallSpec /\ WF_callVars(CallProgress) /\ []AbortCanHappen => AbortSettles
<1>1. CallTypeOK /\ aborted => Awaits \/ Prepares \/ CallOver
  BY DEF CallTypeOK, Awaits, Prepares, CallOver
<1>2. AbortCanHappen /\ (Awaits \/ Prepares) => ENABLED <<CallProgress>>_callVars
  BY DEF Awaits, Prepares, AbortCanHappen
<1>3. Awaits /\ [CallNext]_callVars => Awaits' \/ Prepares' \/ CallOver'
  BY AbortedStep
<1>4. Prepares /\ [CallNext]_callVars => Prepares' \/ CallOver'
  BY AbortedStep
<1>5. Awaits /\ <<CallProgress>>_callVars => Prepares' \/ CallOver'
  BY DEF Awaits, Prepares, CallOver, CallProgress, Request, HeaderTimeout, BackoffEnds, AbortSeen
<1>6. Prepares /\ <<CallProgress>>_callVars => CallOver'
  BY DEF Prepares, CallOver, CallProgress, Request, HeaderTimeout, BackoffEnds, AbortSeen
<1> QED
  BY <1>1, <1>2, <1>3, <1>4, <1>5, <1>6, CallTypeCorrect, PTL DEF CallSpec, AbortSettles, CallOver
=============================================================================

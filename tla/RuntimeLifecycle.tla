-------------------------- MODULE RuntimeLifecycle --------------------------
(* The life of a runtime (core/runtime.ts): createRuntime loads hook providers, *)
(* opens the storage, constructs the runtime and waits for its tool providers   *)
(* (core/tools/registry.ts; adapters/local, adapters/mcp), any of which may     *)
(* fail or hang; dispose, which anybody may call at any time and again, takes   *)
(* it all down. A resource is what has to be given back: a loaded module, a     *)
(* child process, a database.                                                   *)
EXTENDS Integers, Sequences, SequencesExt, FiniteSets

CONSTANTS
  Hooked,       \* hook providers in their order
  OwnHooks,     \* the hooks they load that have a dispose of their own
  Tooled,       \* tool providers in their order
  Mcp,          \* those of Tooled that are MCP servers: failureMode is "isolate"
  Storage,      \* the storage adapter
  MaxDisposals  \* bound on the calls of dispose

Resources == Range(Hooked) \cup Range(Tooled) \cup {OwnHooks, Storage}

\* The caller gives each hook provider once, and loadToolProviders refuses a second tool
\* provider of one id.
ProvidersOnce ==
  /\ Hooked \in Seq(Resources) /\ IsInjective(Hooked)
  /\ Tooled \in Seq(Resources) /\ IsInjective(Tooled)
  /\ Range(Hooked) \cap Range(Tooled) = {}
  /\ OwnHooks # Storage /\ {OwnHooks, Storage} \cap (Range(Hooked) \cup Range(Tooled)) = {}

ASSUME LifeAssumption == ProvidersOnce /\ MaxDisposals \in Nat

VARIABLES
  creator,      \* createRuntime: hooks, storage, construct, ready; up, failing, failed
  hooked,       \* resolveHooks: how many hook providers have been asked
  loader,       \* the promise "ready": off, next, connect, list, import; done, failed
  sink,         \* initializedToolProviders
  open,         \* the resources that are held
  stranded,     \* the modules that were imported, but whose load threw
  stopping,     \* the first dispose: no, waiting, closing, done
  closing,      \* what it has yet to dispose, in its order
  asked,        \* how often dispose was called
  disposals     \* history: how often each provider's dispose was called

lifeVars == <<creator, hooked, loader, sink, open, stranded, stopping, closing, asked, disposals>>

LifeTypeOK ==
  /\ creator \in {"hooks", "storage", "construct", "ready", "up", "failing", "failed"}
  /\ hooked \in 0..Len(Hooked)
  /\ loader \in {"off", "next", "connect", "list", "import", "done", "failed"}
  /\ sink \in Seq(Resources) /\ open \subseteq Resources /\ stranded \subseteq Resources
  /\ stopping \in {"no", "waiting", "closing", "done"}
  /\ closing \in Seq(Resources) /\ asked \in 0..MaxDisposals
  /\ disposals \in [Resources -> Nat]

LifeInit ==
  /\ creator = "hooks" /\ hooked = 0 /\ loader = "off" /\ sink = << >>
  /\ open = {} /\ stranded = {}
  /\ stopping = "no" /\ closing = << >> /\ asked = 0
  /\ disposals = [r \in Resources |-> 0]

Disposed(rs) == [r \in Resources |-> disposals[r] + IF r \in rs THEN 1 ELSE 0]

(***************************************************************************)
(* createRuntime                                                           *)
(***************************************************************************)
LoadHooks ==
  /\ creator = "hooks"
  /\ IF hooked = Len(Hooked)
       THEN creator' = "storage" /\ UNCHANGED <<hooked, open>>
       ELSE /\ hooked' = hooked + 1 /\ open' = open \cup {Hooked[hooked'], OwnHooks}
            /\ UNCHANGED creator
  /\ UNCHANGED <<loader, sink, stranded, stopping, closing, asked, disposals>>

\* Faulty: only the providers that were loaded before are disposed, and not the storage.
FailEarly_Fault ==
  /\ creator' = "failed"
  /\ open' = open \ Range(Hooked)
  /\ disposals' = Disposed({Hooked[i] : i \in 1..hooked})

\* The catch of createRuntimeAsync without a runtime: only a HookPipeline would dispose the hooks
\* themselves.
FailEarly ==
  /\ creator' = "failed"
  /\ open' = open \ (Range(Hooked) \cup {Storage})
  /\ disposals' = Disposed({Hooked[i] : i \in 1..hooked} \cup ({Storage} \cap open))

\* The catch of resolveHooks. A provider is among those to be disposed before it is loaded, but a
\* local one knows its module's dispose only when all of its hooks were found in it.
HookFails ==
  /\ creator = "hooks" /\ hooked < Len(Hooked)
  /\ hooked' = hooked + 1
  /\ creator' = "failed" /\ open' = open \ Range(Hooked)
  /\ stranded' \in {stranded, stranded \cup {Hooked[hooked']}}
  /\ disposals' = Disposed({Hooked[i] : i \in 1..hooked'})
  /\ UNCHANGED <<loader, sink, stopping, closing, asked>>

OpenStorage ==
  /\ creator = "storage" /\ creator' = "construct"
  /\ open' = open \cup {Storage}
  /\ UNCHANGED <<hooked, loader, sink, stranded, stopping, closing, asked, disposals>>

\* No adapter, a store that cannot be opened, or constructRuntime before it loads tools.
CreateFails ==
  /\ creator \in {"storage", "construct"} /\ FailEarly
  /\ UNCHANGED <<hooked, loader, sink, stranded, stopping, closing, asked>>

\* constructRuntime starts loadToolProviders, then creates the provider adapter: when that
\* throws, the signal is aborted, nobody has the runtime, and the loading goes on.
Construct ==
  /\ creator = "construct" /\ loader' = "next"
  /\ FailEarly \/ (creator' = "ready" /\ UNCHANGED <<open, disposals>>)
  /\ UNCHANGED <<hooked, sink, stranded, stopping, closing, asked>>

\* await runtime.ready.
Ready ==
  /\ creator = "ready" /\ loader \in {"done", "failed"}
  /\ creator' = IF loader = "done" THEN "up" ELSE "failing"
  /\ UNCHANGED <<hooked, loader, sink, open, stranded, stopping, closing, asked, disposals>>

(***************************************************************************)
(* loadToolProviders                                                       *)
(***************************************************************************)
Current == sink[Len(sink)]

\* The next provider is noted, then asked for its tools; an MCP client is made first. A local
\* provider looks at the signal before it imports its module; only the load of the very first
\* provider begins before constructRuntime may throw.
LoadNext ==
  /\ loader = "next"
  /\ IF Len(sink) = Len(Tooled) THEN loader' = "done" /\ UNCHANGED <<sink, open>>
     ELSE LET p == Tooled[Len(sink) + 1] IN
          /\ sink' = Append(sink, p)
          /\ loader' = IF p \in Mcp THEN "connect"
                       ELSE IF creator = "failed" /\ sink # << >> THEN "failed" ELSE "import"
          /\ open' = IF p \in Mcp THEN open \cup {p} ELSE open
  /\ UNCHANGED <<creator, hooked, stranded, stopping, closing, asked, disposals>>

\* client.connect
Connected ==
  /\ loader = "connect" /\ loader' = "list"
  /\ UNCHANGED <<creator, hooked, sink, open, stranded, stopping, closing, asked, disposals>>

\* The tools are there; registerBatch takes them, or throws whatever the failureMode.
Registers ==
  /\ loader' \in {"next", "failed"}
  /\ open' = open \cup {Current}
  /\ UNCHANGED <<creator, hooked, sink, stranded, stopping, closing, asked, disposals>>

\* client.listTools, whose listener comes too late for a signal that is aborted already; the
\* import of a local module, after which the signal is looked at again.
Listed == loader = "list" /\ Registers
Imported == loader = "import" /\ creator # "failed" /\ Registers

\* A local provider that throws may have imported its module, whose dispose it then never learns:
\* the signal, or an export that is no tool.
Rejected == UNCHANGED stranded \/ (loader = "import" /\ stranded' = stranded \cup {Current})

\* An MCP server that fails is closed and left out; any other provider fails the runtime.
LoadFails ==
  /\ loader \in {"connect", "list", "import"}
  /\ loader' = IF Current \in Mcp THEN "next" ELSE "failed"
  /\ open' = open \ {Current} /\ Rejected
  /\ UNCHANGED <<creator, hooked, sink, stopping, closing, asked, disposals>>

\* Faulty: the discovery of the tools has no timeout.
McpTimeout_Fault == loader = "connect" /\ LoadFails

\* withSignalTimeout, around the connection and around the discovery of the tools.
McpTimeout == loader \in {"connect", "list"} /\ LoadFails

(***************************************************************************)
(* dispose                                                                 *)
(***************************************************************************)
\* Faulty: a call does not see that there was one before.
Dispose_Fault ==
  /\ asked < MaxDisposals /\ creator \in {"up", "failing"}
  /\ asked' = asked + 1
  /\ stopping' = "waiting"
  /\ UNCHANGED <<creator, hooked, loader, sink, open, stranded, closing, disposals>>

\* The user's call, any number of times, or that of createRuntime's catch. Any call but the
\* first returns at once.
Dispose ==
  /\ asked < MaxDisposals /\ (creator = "up" \/ (creator = "failing" /\ asked = 0))
  /\ asked' = asked + 1
  /\ stopping' = IF stopping = "no" THEN "waiting" ELSE stopping
  /\ UNCHANGED <<creator, hooked, loader, sink, open, stranded, closing, disposals>>

\* Tool providers, the hooks themselves and their providers, the storage.
DisposeWaits ==
  /\ stopping = "waiting" /\ loader \in {"done", "failed"}
  /\ stopping' = "closing"
  /\ closing' = Reverse(sink) \o <<OwnHooks>> \o Reverse(Hooked) \o <<Storage>>
  /\ UNCHANGED <<creator, hooked, loader, sink, open, stranded, asked, disposals>>

\* An error is kept for the end and does not stop the others.
DisposeOne ==
  /\ stopping = "closing" /\ closing # << >>
  /\ open' = open \ {Head(closing)}
  /\ disposals' = Disposed({Head(closing)})
  /\ closing' = Tail(closing)
  /\ UNCHANGED <<creator, hooked, loader, sink, stranded, stopping, asked>>

DisposeEnds ==
  /\ stopping = "closing" /\ closing = << >>
  /\ stopping' = "done"
  /\ creator' = IF creator = "failing" THEN "failed" ELSE creator
  /\ UNCHANGED <<hooked, loader, sink, open, stranded, closing, asked, disposals>>

\* What goes on by itself: the program and its timers. An MCP server may be silent for ever, the
\* import of a local module ends somehow.
LifeProgress ==
  \/ LoadHooks \/ OpenStorage \/ Construct \/ Ready
  \/ LoadNext \/ McpTimeout \/ Imported \/ (loader = "import" /\ LoadFails)
  \/ creator = "failing" /\ Dispose
  \/ DisposeWaits \/ DisposeOne \/ DisposeEnds

LifeNext ==
  \/ LoadHooks \/ HookFails \/ OpenStorage \/ CreateFails \/ Construct \/ Ready
  \/ LoadNext \/ Connected \/ Listed \/ Imported \/ LoadFails \/ McpTimeout
  \/ Dispose \/ DisposeWaits \/ DisposeOne \/ DisposeEnds

LifeSpec == LifeInit /\ [][LifeNext]_lifeVars

(***************************************************************************)
(* Properties                                                              *)
(***************************************************************************)
NothingHeld ==
  /\ stopping = "done" => open = {}
  /\ creator = "failed" /\ loader = "off" => open \subseteq {OwnHooks}
  /\ creator = "failed" /\ stopping = "no" => open \subseteq {OwnHooks} \cup Mcp

DisposedOnce == \A r \in Resources : disposals[r] <= 1

(* When dispose has ended, also the one that createRuntime calls itself,       *)
(* nothing is held any more. Where creation failed without a runtime to        *)
(* dispose, every hook provider and the storage were given back, and so was    *)
(* every tool provider but an MCP server, if it was being loaded when          *)
(* constructRuntime threw; what is left are the hooks' own resources. However  *)
(* often dispose is called, also while a first call is on its way, each        *)
(* provider is disposed once at most. And no runtime that came up has a module *)
(* that nobody can dispose.                                                    *)
NothingLeaks == NothingHeld /\ DisposedOnce /\ (creator = "up" => stranded = {})

(* A claim of docs/architecture.md: failures of createRuntime dispose the      *)
(* providers that were initialized (said when the loading has ended).          *)
FailureDisposes ==
  creator = "failed" /\ loader \in {"off", "done", "failed"} =>
    open \cap (Range(Hooked) \cup Range(Tooled)) = {}

(* createRuntime returns or throws even if an MCP server never answers.        *)
CreateSettles == <>(creator \in {"up", "failed"})
=============================================================================

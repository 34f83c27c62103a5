---------------------------- MODULE ModelSettings ---------------------------
(* Models, providers and keys: what "/connect", "/switch", "/key-add",         *)
(* "/key-delete" and "/model-remove" of the terminal UI change in the           *)
(* configuration in memory (adapters/tui/controller.ts, core/runtime.ts) and in *)
(* the stored settings (core/storage/runtime-state.ts, adapters/sqlite), what   *)
(* the CLI's "keys" and "models" change there meanwhile, and what a process     *)
(* started later makes of it. A connection is abstracted to its key, the        *)
(* environment has none, and AtomicJsonFile is the lock of each single write.   *)
EXTENDS FiniteSets

CONSTANTS
  Shared,    \* openai-compatible; anthropic and gemini are like it but have no aliases
  Aliases,   \* openai, openai-chat: they use Shared's section unless they have a custom one
  Others,    \* custom providers
  Models,    \* the models the terminal UI uses, records with a provider
  CliModels, \* models the CLI adds to the list and removes
  Mock,      \* the model that needs no provider
  Keys, NoKey, NoModel,
  Bases      \* what the configuration file may say

Customs == Aliases \cup Others
Providers == Customs \cup {Shared}
AllModels == Models \cup {Mock}
MaybeKey == Keys \cup {NoKey}

VARIABLES
  kind,      \* config.storage.kind: "file" or "sqlite"
  base,      \* the configuration file
  cfg,       \* runtime.config of the terminal UI
  secrets, saved, models, activeModel,  \* stored: keys, provider configs, custom models, active model
  tui, cli,  \* the command each process is in
  wanted,    \* history: the custom models added and not removed
  overlap,   \* history: were two processes changing the list of models at once?
  excused    \* history: what keeps memory and store apart: a key was deleted, given by the CLI or
             \* for an alias without a section; the model was changed by half or by the CLI

stored == <<secrets, saved, models, activeModel>>
settingsVars == <<kind, base, cfg, stored, tui, cli, wanted, overlap, excused>>

Config == [model : AllModels, shared : MaybeKey,
           custom : UNION {[D -> MaybeKey] : D \in SUBSET Customs}]
NoCommand == [at |-> "idle", m |-> NoModel, k |-> NoKey, read |-> {}]
Excuses == {"key", "switch"}
ASSUME SettingsAssumption ==
  /\ Shared \notin Customs /\ NoKey \notin Keys /\ NoModel \notin AllModels
  /\ \A m \in Models : m.provider \in Providers
  /\ Bases \subseteq Config

SettingsTypeOK ==
  /\ kind \in {"file", "sqlite"} /\ base \in Bases /\ cfg \in Config
  /\ secrets \in [Providers -> MaybeKey]
  /\ saved \subseteq Providers /\ models \subseteq Models \cup CliModels
  /\ activeModel \in AllModels \cup {NoModel}
  /\ tui \in [at : {"idle", "keyed", "upsert", "upserted", "remove", "down"},
              m : Models \cup {NoModel}, k : MaybeKey, read : SUBSET (Models \cup CliModels)]
  /\ cli \in [at : {"idle", "upsert", "remove"}, m : CliModels \cup {NoModel}, k : {NoKey},
              read : SUBSET (Models \cup CliModels)]
  /\ wanted \subseteq Models \cup CliModels /\ overlap \in BOOLEAN /\ excused \subseteq Excuses

(***************************************************************************)
(* What a configuration says                                               *)
(***************************************************************************)
Has(c, p) == p \in DOMAIN c.custom

\* usesSharedOpenAIConfig: an alias shares the section unless it has its own.
UsesShared(c, p) == p \in Aliases \cup {Shared} /\ ~Has(c, p)

\* getProviderApiKey.
ApiKey(c, p) == IF Has(c, p) THEN c.custom[p] ELSE IF UsesShared(c, p) THEN c.shared ELSE NoKey

\* createProviderAdapter throws for a provider that is unknown or has no key.
HasAdapter(c, m) == m \in {Mock} \cup {n \in Models : ApiKey(c, n.provider) # NoKey}

\* SQLite gives Shared the key of an alias that has no provider config.
LegacyKeys == IF kind = "sqlite" THEN {secrets[a] : a \in Aliases \ saved} \ {NoKey} ELSE {}

\* The key of a custom section in the file: a file store replaces a section that was saved,
\* SQLite keeps its key.
BaseKey(p) ==
  IF p \in DOMAIN base.custom /\ (kind = "sqlite" \/ p \notin saved) THEN base.custom[p] ELSE NoKey

\* applyOverrides, for the key LegacyKeys yields.
Effective(legacy) ==
  [ model |-> IF activeModel = NoModel THEN base.model ELSE activeModel,
    shared |-> IF base.shared # NoKey THEN base.shared
               ELSE IF secrets[Shared] # NoKey THEN secrets[Shared] ELSE legacy,
    custom |-> [p \in DOMAIN base.custom \cup (saved \cap Customs) |->
                  IF BaseKey(p) # NoKey THEN BaseKey(p) ELSE secrets[p]] ]

Effectives == {Effective(k) : k \in IF LegacyKeys = {} THEN {NoKey} ELSE LegacyKeys}

SettingsInit ==
  /\ kind \in {"file", "sqlite"} /\ base \in Bases
  /\ secrets = [p \in Providers |-> NoKey]
  /\ saved = {} /\ models = {} /\ activeModel = NoModel
  /\ cfg = base /\ HasAdapter(base, base.model)
  /\ tui = NoCommand /\ cli = NoCommand
  /\ wanted = {} /\ overlap = FALSE /\ excused = {}

(***************************************************************************)
(* Changing what is in memory                                              *)
(***************************************************************************)
\* "/key-add" and "/key-delete": a key of an unknown provider is only stored.
WithKey(c, p, k) ==
  IF Has(c, p) THEN [c EXCEPT !.custom[p] = k]
  ELSE IF UsesShared(c, p) THEN [c EXCEPT !.shared = k] ELSE c

\* applyProviderConfig: all but the built-in providers get a custom section.
WithConnection(c, p, k) ==
  IF p = Shared THEN [c EXCEPT !.shared = k]
  ELSE [c EXCEPT !.custom = [q \in DOMAIN @ \cup {p} |-> IF q = p THEN k ELSE @[q]]]

\* Faulty: the model is changed in memory only, or stored before the adapter is created.
SwitchUnsaved_Fault(c, m) ==
  /\ cfg' = [c EXCEPT !.model = m]
  /\ UNCHANGED <<activeModel, excused>>
SwitchEager_Fault(c, m) ==
  /\ cfg' = [c EXCEPT !.model = m] /\ activeModel' = m
  /\ excused' = IF HasAdapter(c, m) THEN excused \ {"switch"} ELSE excused \cup {"switch"}

\* switchModel of configuration c: what comes before the adapter is created stays when
\* that throws, and then nothing is stored.
SwitchModel(c, m) ==
  /\ cfg' = [c EXCEPT !.model = m]
  /\ IF HasAdapter(c, m) THEN activeModel' = m /\ excused' = excused \ {"switch"}
     ELSE UNCHANGED activeModel /\ excused' = excused \cup {"switch"}

\* pickReplacementModel: the fallback, or another model of the catalog, or the mock model.
Replacements(m) == AllModels \ {m}

\* "/switch" and "/models"; an error becomes a notice.
Switch(m) ==
  /\ tui.at = "idle" /\ SwitchModel(cfg, m)
  /\ UNCHANGED <<kind, base, secrets, saved, models, tui, cli, wanted, overlap>>

\* "/key-add" (k a key) and "/key-delete" (none).
SetKey(p, k) ==
  /\ tui.at = "idle"
  /\ secrets' = [secrets EXCEPT ![p] = k]
  /\ cfg' = WithKey(cfg, p, k)
  /\ excused' = excused \cup (IF k = NoKey \/ p \in Aliases THEN {"key"} ELSE {})
  /\ UNCHANGED <<kind, base, saved, models, activeModel, tui, cli, wanted, overlap>>

(***************************************************************************)
(* The list of custom models                                               *)
(***************************************************************************)
\* The list is read, then written: two calls on a file store, one statement in SQLite.
ReadModels(self, other, at) ==
  /\ self.at = at /\ overlap' = (overlap \/ other.at \in {"upsert", "remove"})

Upserted(read, m) ==
  /\ models' = (IF kind = "file" THEN read ELSE models) \cup {m}
  /\ wanted' = wanted \cup {m}

\* deleteCustomModel also clears the active model if it is the one.
Deleted(read, m) ==
  /\ models' = (IF kind = "file" THEN read ELSE models) \ {m}
  /\ wanted' = wanted \ {m}

(***************************************************************************)
(* "/connect"                                                              *)
(***************************************************************************)
\* Enter keeps the key that there is; then the key is stored first.
Connect(m, k) ==
  LET p == m.provider
      known == IF ApiKey(cfg, p) # NoKey THEN ApiKey(cfg, p) ELSE secrets[p]
      key == IF k = NoKey THEN known ELSE k
  IN
  /\ tui.at = "idle" /\ key # NoKey
  /\ secrets' = [secrets EXCEPT ![p] = key]
  /\ tui' = [at |-> "keyed", m |-> m, k |-> key, read |-> {}]
  /\ UNCHANGED <<kind, base, cfg, saved, models, activeModel, cli, wanted, overlap, excused>>

\* Faulty: the list is the one of the time the command was started.
ConnectSaves_Fault ==
  /\ ReadModels(tui, cli, "keyed")
  /\ saved' = saved \cup {tui.m.provider}
  /\ tui' = [tui EXCEPT !.at = "upsert"]
  /\ UNCHANGED <<kind, base, cfg, secrets, models, activeModel, cli, wanted, excused>>

\* setProviderConfig, and upsertCustomModel reads the list.
ConnectSaves ==
  /\ ReadModels(tui, cli, "keyed")
  /\ saved' = saved \cup {tui.m.provider}
  /\ tui' = [tui EXCEPT !.at = "upsert", !.read = models]
  /\ UNCHANGED <<kind, base, cfg, secrets, models, activeModel, cli, wanted, excused>>

ConnectUpserts ==
  /\ tui.at = "upsert"
  /\ Upserted(tui.read, tui.m)
  /\ tui' = [tui EXCEPT !.at = "upserted"]
  /\ UNCHANGED <<kind, base, cfg, secrets, saved, activeModel, cli, overlap, excused>>

\* setActiveModel, the configuration in memory, switchModel.
ConnectApplies ==
  /\ tui.at = "upserted"
  /\ SwitchModel(WithConnection(cfg, tui.m.provider, tui.k), tui.m)
  /\ tui' = NoCommand
  /\ UNCHANGED <<kind, base, secrets, saved, models, cli, wanted, overlap>>

(***************************************************************************)
(* "/model-remove"                                                         *)
(***************************************************************************)
RemoveModel(m) ==
  /\ ReadModels(tui, cli, "idle")
  /\ tui' = [at |-> "remove", m |-> m, k |-> NoKey, read |-> models]
  /\ UNCHANGED <<kind, base, cfg, stored, cli, wanted, excused>>

\* An active model is replaced; when the replacement has no adapter the error ends the UI.
RemoveEnds ==
  LET m == tui.m
      cleared == IF activeModel = m THEN NoModel ELSE activeModel
  IN
  /\ tui.at = "remove" /\ Deleted(tui.read, m)
  /\ \/ /\ cfg.model # m
        /\ UNCHANGED cfg /\ activeModel' = cleared /\ tui' = NoCommand
        /\ excused' = excused \cup (IF activeModel = m THEN {"switch"} ELSE {})
     \/ /\ cfg.model = m
        /\ \E r \in Replacements(m) :
             IF HasAdapter(cfg, r)
               THEN SwitchModel(cfg, r) /\ tui' = NoCommand
               ELSE /\ tui' = [NoCommand EXCEPT !.at = "down"]
                    /\ activeModel' = cleared /\ UNCHANGED <<cfg, excused>>
  /\ UNCHANGED <<kind, base, secrets, saved, cli, overlap>>

(***************************************************************************)
(* Another process, and the next one                                       *)
(***************************************************************************)
\* "keys set" and "keys delete".
CliSetKey(p, k) ==
  /\ cli.at = "idle"
  /\ secrets' = [secrets EXCEPT ![p] = k]
  /\ excused' = excused \cup {"key"}
  /\ UNCHANGED <<kind, base, cfg, saved, models, activeModel, tui, cli, wanted, overlap>>

\* "models add" and "models remove".
CliReads(at, m) ==
  /\ ReadModels(cli, tui, "idle")
  /\ cli' = [at |-> at, m |-> m, k |-> NoKey, read |-> models]
  /\ UNCHANGED <<kind, base, cfg, stored, tui, wanted, excused>>

CliWrites ==
  /\ \/ cli.at = "upsert" /\ Upserted(cli.read, cli.m) /\ UNCHANGED <<activeModel, excused>>
     \/ /\ cli.at = "remove" /\ Deleted(cli.read, cli.m)
        /\ activeModel' = IF activeModel = cli.m THEN NoModel ELSE activeModel
        /\ excused' = excused \cup (IF activeModel = cli.m THEN {"switch"} ELSE {})
  /\ cli' = NoCommand
  /\ UNCHANGED <<kind, base, cfg, secrets, saved, tui, overlap>>

\* The UI ends, or dies wherever it is, and is started again: that fails without an adapter.
Restart ==
  \E c \in Effectives :
    /\ IF HasAdapter(c, c.model) THEN cfg' = c /\ tui' = NoCommand
       ELSE tui' = [NoCommand EXCEPT !.at = "down"] /\ UNCHANGED cfg
    /\ excused' = (excused \ {"switch"}) \cup
         (IF tui.at = "keyed" /\ tui.m.provider \in Aliases THEN {"key"} ELSE {})
    /\ wanted' = IF tui.at = "upsert" THEN models ELSE wanted
    /\ UNCHANGED <<kind, base, stored, cli, overlap>>

SettingsNext ==
  \/ \E m \in AllModels : Switch(m)
  \/ \E m \in Models : RemoveModel(m)
  \/ \E m \in CliModels : CliReads("upsert", m) \/ CliReads("remove", m)
  \/ \E p \in Providers, k \in MaybeKey : SetKey(p, k) \/ CliSetKey(p, k)
  \/ \E m \in Models, k \in MaybeKey : Connect(m, k)
  \/ ConnectSaves \/ ConnectUpserts \/ ConnectApplies \/ RemoveEnds \/ CliWrites \/ Restart

SettingsSpec == SettingsInit /\ [][SettingsNext]_settingsVars

(***************************************************************************)
(* Properties                                                              *)
(***************************************************************************)
(* A custom model that was added is in the list until it is removed, whatever  *)
(* other processes add and remove, and with a file store at least as long as   *)
(* no two processes were changing the list at the same time.                   *)
ModelsKept == kind = "sqlite" \/ ~overlap => models = wanted

ConnectionKept ==
  (tui.at = "idle" /\ excused = {} /\ cfg.model # Mock)
    => LET p == cfg.model.provider IN \A c \in Effectives :
         /\ c.model = cfg.model
         /\ (IF Has(c, p) THEN BaseKey(p) ELSE base.shared) = NoKey => ApiKey(c, p) = ApiKey(cfg, p)

RestartStarts ==
  excused = {} => \A c \in Effectives : HasAdapter(c, c.model)

(* What the UI says it is connected to, it is connected to after a restart:    *)
(* the same model with the same key, unless the file names a key of its own.   *)
(* And it can be started again after it died in the middle of "/connect": the  *)
(* active model is stored only after the key and the section it needs.         *)
RestartKeepsConnection == ConnectionKept /\ RestartStarts
=============================================================================

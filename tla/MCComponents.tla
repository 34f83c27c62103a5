---------------------------- MODULE MCComponents ----------------------------
(* The components that share no state with others, each on a small instance:   *)
(* part chooses the one that moves; the others stay in an initial state, where *)
(* their invariants hold and their action properties are stutters.             *)
EXTENDS TuiInput, TuiEditor, TextPatch, EditPipeline, SkillBundles, ModelSettings, ProviderCall,
        RuntimeLifecycle, FileSessionStore, TLC

CONSTANT k1

\* TuiEditor
MCHints == << <<"/", "a">>, <<"/", " ">> >>
MCCatalog == << <<"a">>, <<"a", "/">> >>
\* ModelSettings: a model of the shared section and one of an alias; a configuration file with
\* neither key, with the shared one, and with a section of the alias's own
SharedModel == [provider |-> "openai-compatible", id |-> 1]
AliasModel == [provider |-> "openai", id |-> 2]
MCModels == {AliasModel}
MCCliModels == {SharedModel}
NoSections == [p \in {} |-> NoKey]
MCBases == {[model |-> Mock, shared |-> NoKey, custom |-> NoSections],
            [model |-> AliasModel, shared |-> k1, custom |-> NoSections],
            [model |-> Mock, shared |-> NoKey, custom |-> ("openai" :> k1)]}
\* RuntimeLifecycle
MCHooked == <<"h1", "h2">>
MCTooled == <<"mcp1", "local", "mcp2">>

VARIABLE part

screenVars == <<tuiVars, editorVars>>
fileVars == <<patchVars, editVars, skillVars, fileStoreVars>>
restVars == <<settingsVars, callVars, lifeVars>>
vars == <<part, screenVars, fileVars, restVars>>

Movers == {"input", "editor", "patch", "edits", "skills", "settings", "call", "life", "files"}

\* A part that does not move starts in one of its initial states.
Init ==
  /\ part \in Movers
  /\ TuiInit /\ (part # "input" => tty)
  /\ EditorInit /\ (part # "editor" => body = 2)
  /\ PatchInit /\ (part # "patch" => basis = << >> /\ source = << >>)
  /\ EditInit /\ (part # "edits" => file = "missing")
  /\ SkillInit
  /\ SettingsInit /\ (part # "settings" => kind = "file" /\ base.shared = k1)
  /\ CallInit /\ (part # "call" => proto = "openai" /\ fallback)
  /\ LifeInit
  /\ FileStoreInit

Next ==
  \/ /\ part = "input" /\ TuiNext
     /\ UNCHANGED <<part, editorVars, fileVars, restVars>>
  \/ /\ part = "editor" /\ EditorNext
     /\ UNCHANGED <<part, tuiVars, fileVars, restVars>>
  \/ /\ part = "patch" /\ PatchNext
     /\ UNCHANGED <<part, screenVars, editVars, skillVars, fileStoreVars, restVars>>
  \/ /\ part = "edits" /\ EditNext
     /\ UNCHANGED <<part, screenVars, patchVars, skillVars, fileStoreVars, restVars>>
  \/ /\ part = "skills" /\ SkillNext
     /\ UNCHANGED <<part, screenVars, patchVars, editVars, fileStoreVars, restVars>>
  \/ /\ part = "files" /\ FileStoreNext
     /\ UNCHANGED <<part, screenVars, patchVars, editVars, skillVars, restVars>>
  \/ /\ part = "settings" /\ SettingsNext
     /\ UNCHANGED <<part, screenVars, fileVars, callVars, lifeVars>>
  \/ /\ part = "call" /\ CallNext
     /\ UNCHANGED <<part, screenVars, fileVars, settingsVars, lifeVars>>
  \/ /\ part = "life" /\ LifeNext
     /\ UNCHANGED <<part, screenVars, fileVars, settingsVars, callVars>>

\* The program's own steps and its timers; nothing of a user, a server or another process.
Fairness ==
  /\ WF_tuiVars(part = "input" /\ InputProgress)
  /\ WF_callVars(part = "call" /\ CallProgress)
  /\ WF_lifeVars(part = "life" /\ LifeProgress)

Spec == Init /\ [][Next]_vars /\ Fairness

(* Besides these the run checks what the components' own modules state.        *)

\* Every variable of the part that moves has its type.
TypeOK ==
  /\ part \in Movers
  /\ part = "input" => TuiTypeOK
  /\ part = "editor" => EditorTypeOK
  /\ part = "patch" => PatchTypeOK
  /\ part = "edits" => EditTypeOK
  /\ part = "skills" => SkillTypeOK
  /\ part = "settings" => SettingsTypeOK
  /\ part = "call" => CallTypeOK
  /\ part = "life" => LifeTypeOK
  /\ part = "files" => FileStoreTypeOK

\* createRuntime returns or throws even if an MCP server is silent.
CreationSettles == part = "life" => CreateSettles
=============================================================================

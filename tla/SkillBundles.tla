----------------------------- MODULE SkillBundles ---------------------------
(* Skills on disk: what "skills import" and "skills bundle install" copy       *)
(* (core/context/skills-import.ts, bundle-install.ts, and the same wizards of  *)
(* the terminal UI), what "skills add" and "skills remove" change              *)
(* (cli/commands/skills.ts) and which skills an index lists (skills.ts). Files *)
(* are copied one after another, so the user, another command or a crash may   *)
(* come between two of them, and between a look at the target and its write.   *)
EXTENDS FiniteSets

CONSTANTS
  Paths,    \* config.agent.skillPaths
  Default,  \* the first of them
  Names,    \* skills with a directory of their own
  Parts,    \* the other components of the bundle: hooks, tools, shared
  Nothing, Malformed

Root == "root"      \* a SKILL.md in a skill path itself
Install == "install"
Dirs == Paths \X (Names \cup {Root})
PartDirs == {Install} \X Parts
\* A skill's SKILL.md and the rest of its directory; of a root skill only SKILL.md is copied.
Slots == (Dirs \X {"SKILL.md"}) \cup ((Paths \X Names) \X {"rest"}) \cup (PartDirs \X {"rest"})
Bundles == {"this", "other"}

VARIABLES
  disk,      \* what each file holds: nothing, the start of a copy, the bundle's text, the user's
  install,   \* the import or installation that runs
  adding,    \* the skill "skills add" has found not to exist
  registry,  \* .agents/bundles.json: the bundles it lists, or Malformed
  kept,      \* history: the skills that came to be and that nobody asked to remove
  crashed    \* history: did the process die during a copy?

skillVars == <<disk, install, adding, registry, kept, crashed>>

Written == {"torn", "bundle", "user"}
\* A bundle's other components go to .agents/bundles, which is no skill path.
ASSUME SkillAssumption == Nothing \notin Written \cup Slots /\ Install \notin Paths

NoInstall == [pc |-> "idle", kind |-> "import", todo |-> {}, dir |-> Nothing, at |-> Nothing,
              copied |-> {}, read |-> {}]
Task == [slot : Slots, existing : {"error", "skip"}]

SkillTypeOK ==
  /\ disk \in [Slots -> Written \cup {Nothing}]
  /\ install \in [pc : {"idle", "copy", "parts", "read", "write", "fill"},
                  kind : {"import", "bundle"}, todo : SUBSET Task,
                  dir : Dirs \cup PartDirs \cup {Nothing}, at : Slots \cup {Nothing},
                  copied : SUBSET Parts, read : SUBSET Bundles]
  /\ adding \in Dirs \cup {Nothing}
  /\ registry \in (SUBSET Bundles) \cup {Malformed}
  /\ kept \subseteq Dirs /\ crashed \in BOOLEAN

SkillInit ==
  /\ disk = [s \in Slots |-> Nothing]
  /\ install = NoInstall /\ adding = Nothing
  /\ registry = {} /\ kept = {} /\ crashed = FALSE

SkillFile(d) == <<d, "SKILL.md">>
Exists(s) == disk[s] # Nothing
SlotsOf(d) == {s \in Slots : s[1] = d}

(***************************************************************************)
(* Importing                                                               *)
(***************************************************************************)
\* importSkillsBundle for one skill: of one that exists only the other files are copied, and
\* those that exist are kept; of a new one every file must be new. Neither the CLI nor the
\* terminal UI asks to overwrite.
TasksFor(d) ==
  IF Exists(SkillFile(d))
    THEN {[slot |-> s, existing |-> "skip"] : s \in SlotsOf(d) \ {SkillFile(d)}}
    ELSE {[slot |-> s, existing |-> "error"] : s \in SlotsOf(d)}

\* The scan of the bundle's skills, which decides what is to be copied: a bundle with an
\* unsafe path or link ends here. What the user was shown, and confirmed, was an older scan.
Targets(path) == {path} \X (Names \cup {Root})

InstallStarts(kind, path) ==
  /\ install = NoInstall
  /\ install' = [NoInstall EXCEPT !.pc = "copy", !.kind = kind,
                            !.todo = UNION {TasksFor(d) : d \in Targets(path)}]
  /\ UNCHANGED <<disk, adding, registry, kept, crashed>>

\* "skills import" ends when there is nothing new.
StartImport(path) ==
  /\ \E d \in Targets(path) : ~Exists(SkillFile(d))
  /\ InstallStarts("import", path)

\* "skills bundle install": a malformed registry throws before anything is written.
StartBundle(path) == registry # Malformed /\ InstallStarts("bundle", path)

\* The wizards of the terminal UI have no "--skill-path", and that of an import goes on
\* when there is nothing new.
WizardImports == InstallStarts("import", Default)
WizardInstalls == registry # Malformed /\ InstallStarts("bundle", Default)

\* The next file: those of one directory together, in the order of readdir.
NextTasks ==
  LET same == {t \in install.todo : t.slot[1] = install.dir}
  IN IF same # {} THEN same ELSE install.todo

TasksLeftBy(t) == {u \in install.todo : u.slot[1] # t.slot[1]}

\* Faulty: the copy replaces a file that exists.
CopyBegins_Fault ==
  /\ install.pc \in {"copy", "parts"} /\ install.at = Nothing
  /\ \E t \in NextTasks :
       /\ install' = [install EXCEPT !.dir = t.slot[1], !.at = t.slot, !.todo = @ \ {t}]
       /\ disk' = [disk EXCEPT ![t.slot] = "torn"]
  /\ UNCHANGED <<adding, registry, kept, crashed>>

\* copyFile with COPYFILE_EXCL: a file that exists is skipped, or ends the skill with an error.
CopyBegins ==
  /\ install.pc \in {"copy", "parts"} /\ install.at = Nothing
  /\ \E t \in NextTasks :
       IF Exists(t.slot)
         THEN /\ install' = [install EXCEPT !.dir = t.slot[1],
                   !.todo = IF t.existing = "skip" THEN @ \ {t} ELSE TasksLeftBy(t)]
              /\ UNCHANGED disk
         ELSE /\ install' = [install EXCEPT !.dir = t.slot[1], !.at = t.slot, !.todo = @ \ {t}]
              /\ disk' = [disk EXCEPT ![t.slot] = "torn"]
  /\ UNCHANGED <<adding, registry, kept, crashed>>

CopyDone ==
  /\ install.at # Nothing
  /\ disk' = [disk EXCEPT ![install.at] = "bundle"]
  /\ kept' = IF install.at[2] = "SKILL.md" THEN kept \cup {install.at[1]} ELSE kept
  /\ install' = [install EXCEPT !.at = Nothing]
  /\ UNCHANGED <<adding, registry, crashed>>

\* Faulty: the component stays among the copied ones.
CopyFails_Fault ==
  /\ install.at # Nothing
  /\ disk' = [disk EXCEPT ![install.at] = Nothing]
  /\ install' = [install EXCEPT !.at = Nothing, !.todo = {u \in @ : u.slot[1] # install.at[1]}]
  /\ UNCHANGED <<adding, registry, kept, crashed>>

\* An error ends the skill or the component, which is then not among the copied ones.
CopyFails ==
  /\ install.at # Nothing
  /\ disk' = [disk EXCEPT ![install.at] = Nothing]
  /\ install' = [install EXCEPT !.at = Nothing, !.todo = {u \in @ : u.slot[1] # install.at[1]},
                                !.copied = @ \ {install.at[1][2]}]
  /\ UNCHANGED <<adding, registry, kept, crashed>>

SkillsCopied ==
  /\ install.pc = "copy" /\ install.todo = {} /\ install.at = Nothing
  /\ install' = IF install.kind = "import" THEN NoInstall
                ELSE [install EXCEPT !.pc = "parts", !.copied = Parts,
                        !.todo = {[slot |-> <<d, "rest">>, existing |-> "skip"] : d \in PartDirs}]
  /\ UNCHANGED <<disk, adding, registry, kept, crashed>>

(***************************************************************************)
(* registerBundle                                                          *)
(***************************************************************************)
PartsCopied ==
  /\ install.pc = "parts" /\ install.todo = {} /\ install.at = Nothing
  /\ install' = [install EXCEPT !.pc = "read"]
  /\ UNCHANGED <<disk, adding, registry, kept, crashed>>

ReadRegistry ==
  /\ install.pc = "read"
  /\ install' = IF registry = Malformed THEN NoInstall ELSE [install EXCEPT !.pc = "write", !.read = registry]
  /\ UNCHANGED <<disk, adding, registry, kept, crashed>>

\* writeFile empties the file, then fills it.
TruncateRegistry ==
  /\ install.pc = "write" /\ registry' = Malformed
  /\ install' = [install EXCEPT !.pc = "fill"]
  /\ UNCHANGED <<disk, adding, kept, crashed>>

FillRegistry ==
  /\ install.pc = "fill" /\ registry' = install.read \cup {"this"}
  /\ install' = NoInstall
  /\ UNCHANGED <<disk, adding, kept, crashed>>

\* Another process installs another bundle.
OtherRegisters ==
  /\ registry # Malformed /\ "other" \notin registry
  /\ registry' = registry \cup {"other"}
  /\ UNCHANGED <<disk, install, adding, kept, crashed>>

InstallDies ==
  /\ install # NoInstall
  /\ crashed' = (crashed \/ install.at # Nothing)
  /\ install' = NoInstall
  /\ UNCHANGED <<disk, adding, registry, kept>>

(***************************************************************************)
(* Adding, listing, removing                                               *)
(***************************************************************************)
AddChecks(d) ==
  /\ adding = Nothing /\ d[2] # Root /\ ~Exists(SkillFile(d))
  /\ adding' = d
  /\ UNCHANGED <<disk, install, registry, kept, crashed>>

\* writeFile without a flag: a file that has come since is replaced.
AddWrites ==
  /\ adding # Nothing /\ install.at # SkillFile(adding)
  /\ disk' = [disk EXCEPT ![SkillFile(adding)] = "user"]
  /\ kept' = kept \cup {adding} /\ adding' = Nothing
  /\ UNCHANGED <<install, registry, crashed>>

\* discover throws for the whole path when one SKILL.md in it is empty; of two skills of one
\* name the one of the earlier path is listed.
IsListed(d) ==
  /\ disk[SkillFile(d)] \in {"bundle", "user"}
  /\ \A e \in Dirs : e[1] = d[1] => disk[SkillFile(e)] # "torn"
  /\ d[1] # Default /\ d[2] # Root => ~Exists(SkillFile(<<Default, d[2]>>))

\* skillsRemove: the directory unless it is the (only) skill path.
RemovedWith(d) ==
  IF \E p \in Paths : d # <<p, Root>>
    THEN IF d[2] = Root THEN {s \in Slots : s[1][1] = d[1]} ELSE SlotsOf(d)
    ELSE {SkillFile(d)}

RemoveSkill(d) ==
  /\ IsListed(d) /\ install.at \notin RemovedWith(d)
  /\ disk' = [s \in Slots |-> IF s \in RemovedWith(d) THEN Nothing ELSE disk[s]]
  /\ kept' = kept \ {d}
  /\ UNCHANGED <<install, adding, registry, crashed>>

\* The user edits or deletes a file, but not one that is being copied.
UserWrites(s) ==
  /\ s[1] \in Dirs /\ s # install.at
  /\ \/ disk' = [disk EXCEPT ![s] = "user"]
        /\ kept' = IF s[2] = "SKILL.md" THEN kept \cup {s[1]} ELSE kept
     \/ disk' = [disk EXCEPT ![s] = Nothing]
        /\ kept' = IF s[2] = "SKILL.md" THEN kept \ {s[1]} ELSE kept
  /\ UNCHANGED <<install, adding, registry, crashed>>

SkillNext ==
  \/ \E p \in Paths : StartImport(p) \/ StartBundle(p)
  \/ WizardImports \/ WizardInstalls
  \/ CopyBegins \/ CopyDone \/ CopyFails \/ SkillsCopied
  \/ PartsCopied \/ ReadRegistry \/ TruncateRegistry \/ FillRegistry
  \/ OtherRegisters \/ InstallDies
  \/ \E d \in Dirs : AddChecks(d) \/ RemoveSkill(d)
  \/ AddWrites
  \/ \E s \in Slots : UserWrites(s)

SkillSpec == SkillInit /\ [][SkillNext]_skillVars

(***************************************************************************)
(* Properties                                                              *)
(***************************************************************************)
(* An import or installation never changes a file that exists, whatever the    *)
(* user and other commands wrote since its scan.                               *)
ImportKeepsFiles ==
  [][install' # install =>
       \A s \in Slots : disk[s] \in {"bundle", "user"} => disk'[s] = disk[s]]_skillVars

(* A component that the registry is about to list as copied is there, and      *)
(* whole unless a process died while it copied: a retry skips the remains.     *)
CopiedIsThere ==
  install.pc \in {"read", "write", "fill"} =>
    \A c \in install.copied : disk[<<<<Install, c>>, "rest">>] \in
                                (IF crashed THEN {"torn", "bundle"} ELSE {"bundle"})

(* "skills remove" removes the one skill it was asked to: every other skill    *)
(* that came to be is still there.                                             *)
SkillsKept == \A d \in kept : Exists(SkillFile(d))
=============================================================================

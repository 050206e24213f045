--------------------------------- MODULE Setup ---------------------------------
(***************************************************************************)
(* `triss config wizard` (src/src/setup/), with the engine's own setup     *)
(* (runCoderSetup), beside `triss config set`, `config unset` and `coder   *)
(* init`.  They share the two env files: the wizard reads them, collects a *)
(* draft, shows what will be in force, and patches the one of its scope    *)
(* behind two comparisons and a rename; the others, and the wizard's       *)
(* engine setup, rewrite a file in place.                                  *)
(*                                                                         *)
(* A text is the sequence of its assignments; a file that is not there is  *)
(* an empty one.                                                           *)
(***************************************************************************)
EXTENDS Naturals, Sequences, SequencesExt

CONSTANTS Wizard, Setter,
          Value, Default,   \* what an assignment gives; what the registry gives
          Absent,
          Texts,            \* what an env file may hold
          Drafts,           \* the drafts a user may arrive at
          Commands,         \* [scope, todo]: the commands of the other processes
          MaxDeaths

Key == {"cred", "model", "schema", "other"}
Scope == {"local", "global"}
Keep == "keep"
Erase == "erase"

VARIABLES
  text,       \* scope -> the assignments of its env file
  shell,      \* what the shell exports: key -> value
  ignored,    \* .gitignore names the local file
  migration,  \* what the preflight of the migration would say
  installed,  \* the coding engine: "absent", "old" or "good"
  wizard,
  writer,     \* process -> its rewriting of a file in place
  deaths,
  meant,      \* history: scope -> key -> what it was last known to be made to say
  raced       \* history: some write landed on another text than was read, or amid a rewriting

setupVars == <<text, shell, ignored, migration, installed, wizard, writer, deaths, meant, raced>>

Line == [key : Key, value : Value]
Assignment(key, value) == [key |-> key, value |-> value]
Draft == [{"cred", "model"} -> Value \cup {Keep, Erase}]
Order == [scope : Scope, todo : Seq([key : Key, value : Value \cup {Erase}]) \ {<<>>}]

ASSUME SetupAssumption ==
  /\ Default \in Value /\ Absent \notin Value \cup {Keep, Erase} /\ {Keep, Erase} \cap Value = {}
  /\ Texts \subseteq Seq(Line) /\ Drafts \subseteq Draft /\ Commands \subseteq Order

-----------------------------------------------------------------------------
(* The env files                                                           *)

At(lines, key) == {n \in DOMAIN lines : lines[n].key = key}
Has(lines, key) == At(lines, key) # {}
Greatest(S) == CHOOSE n \in S : \A k \in S : k <= n
Least(S) == CHOOSE n \in S : \A k \in S : n <= k

\* parseEnvText: the last assignment stands.
Says(lines, key) == IF Has(lines, key) THEN lines[Greatest(At(lines, key))].value ELSE Absent

\* The shell, the project's file, the user's file, the registry.
InForce(texts, key) ==
  IF shell[key] # Absent THEN shell[key]
  ELSE IF Has(texts["local"], key) THEN Says(texts["local"], key)
  ELSE IF Has(texts["global"], key) THEN Says(texts["global"], key)
  ELSE IF key = "cred" THEN Absent ELSE Default

Without(lines, key) ==
  LET kept[n \in 0..Len(lines)] ==
        IF n = 0 THEN <<>> ELSE IF lines[n].key = key THEN kept[n - 1] ELSE Append(kept[n - 1], lines[n])
  IN kept[Len(lines)]

\* setVar and unsetVar: the first assignment.
Assigned(lines, key, value) ==
  IF ~Has(lines, key) THEN IF value = Erase THEN lines ELSE Append(lines, Assignment(key, value))
  ELSE LET n == Least(At(lines, key)) IN
       IF value = Erase THEN RemoveAt(lines, n) ELSE ReplaceAt(lines, n, Assignment(key, value))

\* planEnvPatch: the last assignment is replaced, every one is removed.
PatchedKey(lines, key, value) ==
  IF value = Keep THEN lines
  ELSE IF value = Erase THEN Without(lines, key)
  ELSE IF Has(lines, key) THEN ReplaceAt(lines, Greatest(At(lines, key)), Assignment(key, value))
  ELSE Append(lines, Assignment(key, value))

Patched(lines, edits) ==
  LET patch(acc, key) == PatchedKey(acc, key, edits[key])
  IN patch(patch(patch(patch(lines, "cred"), "model"), "schema"), "other")

\* A removal is an edit only of what the file has and the shell does not cover;
\* the first real edit also stamps the schema.
DraftEdits(draft, texts, scope) ==
  LET of(k) == IF draft[k] = Erase /\ (shell[k] # Absent \/ ~Has(texts[scope], k)) THEN Keep ELSE draft[k]
      any == \E k \in {"cred", "model"} : of(k) # Keep
      stamped == \E s \in Scope : Has(texts[s], "schema")
  IN [k \in Key |-> CASE k \in {"cred", "model"} -> of(k)
                      [] k = "schema" -> IF any /\ ~stamped /\ shell["schema"] = Absent THEN Default ELSE Keep
                      [] OTHER -> Keep]

NoEdits == [k \in Key |-> Keep]

\* previewSetupState: the draft on a copy of the file of its scope.
Preview(draft, texts, scope) ==
  LET after == [texts EXCEPT ![scope] = Patched(@, [k \in Key |-> IF k \in DOMAIN draft THEN draft[k] ELSE Keep])]
  IN [k \in Key |-> InForce(after, k)]

-----------------------------------------------------------------------------

Idle == [at |-> "idle", scope |-> "global", raw |-> <<>>, todo |-> <<>>, ignores |-> FALSE]
Forgotten == [s \in Scope |-> <<>>]
NewWizard ==
  [at |-> "gate", scope |-> "global", interactive |-> FALSE, saw |-> Forgotten, hash |-> <<>>,
   edits |-> NoEdits, preview |-> [k \in Key |-> Absent], engine |-> "none", needs |-> FALSE, install |-> FALSE,
   base |-> <<>>, failed |-> {}, loaded |-> Absent, touched |-> FALSE, says |-> "none"]

Engines == {"none", "opencode", "opencode2", "crush", "omp"}
Opened(scope, interactive, engine) ==
  [NewWizard EXCEPT !.scope = scope, !.interactive = interactive, !.engine = engine]
Ordered(command) ==
  [Idle EXCEPT !.at = "read", !.scope = command.scope, !.todo = command.todo, !.ignores = TRUE]

FilesInit ==
  /\ text \in [Scope -> Texts]
  /\ meant = [s \in Scope |-> [k \in Key |-> Says(text[s], k)]]
  /\ raced = FALSE

\* The shell has no say in anything but the credential here.
SystemInit ==
  /\ shell \in [Key -> Value \cup {Absent}] /\ \A k \in Key \ {"cred"} : shell[k] = Absent
  /\ ignored \in BOOLEAN
  /\ migration \in {"not required", "additions", "legacy", "blocked"}
  /\ installed \in {"absent", "old", "good"}
  /\ deaths = 0

WizardsInit == wizard \in [Wizard -> {Opened(s, i, e) : s \in Scope, i \in BOOLEAN, e \in Engines}]
WritersInit ==
  \E command \in [Setter -> Commands] :
    writer = [p \in Wizard \cup Setter |-> IF p \in Wizard THEN Idle ELSE Ordered(command[p])]

SetupInit == FilesInit /\ SystemInit /\ WizardsInit /\ WritersInit

Wiz(w, place) == wizard[w].at = place
WizGoes(w, changed) == wizard' = [wizard EXCEPT ![w] = changed]
Refuse(w) == WizGoes(w, [wizard[w] EXCEPT !.at = "done", !.says = "refused", !.saw = Forgotten, !.hash = <<>>])
RestStays == UNCHANGED <<shell, deaths>>
SystemStays == UNCHANGED <<ignored, migration, installed>>
FilesStay == UNCHANGED <<text, writer, meant, raced>>

\* A rewriting of the file in progress has left it empty.
Emptied(scope) == \E p \in DOMAIN writer : writer[p].at = "fill" /\ writer[p].scope = scope

\* What another process changes behind the wizard's back: in its own file only before the
\* first hash and after the last comparison, which is there if anything is to be written.
Exposed(w, scope) ==
  LET me == wizard[w] IN
  ~(\/ me.at \in {"gate", "read"}
    \/ scope = me.scope /\ me.at \in {"collect", "plan"}
    \/ scope = me.scope /\ me.at \in {"confirm", "ignore", "compare"} /\ me.edits # NoEdits)
TouchedBy(p, scope) ==
  [w \in Wizard |-> IF w # p /\ Exposed(w, scope) THEN [wizard[w] EXCEPT !.touched = TRUE] ELSE wizard[w]]

-----------------------------------------------------------------------------
(* The wizard, until it is confirmed                                       *)

\* Additions alone do not stop it; what is legacy must be migrated first, and is if the user agrees.
Gate(w) ==
  /\ Wiz(w, "gate")
  /\ \/ migration = "blocked" /\ Refuse(w) /\ UNCHANGED migration
     \/ migration = "legacy" /\ Refuse(w) /\ UNCHANGED migration
     \/ /\ migration = "legacy" /\ wizard[w].interactive
        /\ migration' = "not required"
        /\ WizGoes(w, [wizard[w] EXCEPT !.at = "read"])
     \/ /\ migration \in {"not required", "additions"} /\ UNCHANGED migration
        /\ WizGoes(w, [wizard[w] EXCEPT !.at = "read"])
  /\ FilesStay /\ RestStays /\ UNCHANGED <<ignored, installed>>

ReadState(w) ==
  /\ Wiz(w, "read")
  /\ WizGoes(w, [wizard[w] EXCEPT !.at = "hash", !.saw = text])
  /\ FilesStay /\ RestStays /\ SystemStays

ReadHash(w) ==
  /\ Wiz(w, "hash")
  /\ WizGoes(w, [wizard[w] EXCEPT !.at = "collect", !.hash = text[wizard[w].scope]])
  /\ FilesStay /\ RestStays /\ SystemStays

\* Prompts leave out what they cannot change; a headless run asks for nothing.
EasyDrafts(w) ==
  {d \in Drafts : d["model"] = Keep /\ d["cred"] # Erase
                  /\ (InForce(wizard[w].saw, "cred") # Absent => d["cred"] = Keep)}
AdvancedDrafts(w) == {d \in Drafts : \A k \in DOMAIN d : d[k] = Erase => shell[k] = Absent}
HeadlessDrafts == {d \in Drafts : \A k \in DOMAIN d : d[k] = Keep}
Collected(w) == IF wizard[w].interactive THEN EasyDrafts(w) \cup AdvancedDrafts(w) ELSE HeadlessDrafts

\* planEngineSetup: the probe finds the engine missing, or older than its minimum.
NeedsInstall(engine) == engine # "none" /\ installed # "good"

\* The engine is probed and planned for after the draft; headless, the credential must be there.
Collect(w) ==
  /\ Wiz(w, "collect")
  /\ \E draft \in Collected(w), install \in BOOLEAN :
       LET preview == Preview(draft, wizard[w].saw, wizard[w].scope)
           planned == [wizard[w] EXCEPT !.at = "plan", !.preview = preview, !.saw = Forgotten,
                         !.edits = DraftEdits(draft, wizard[w].saw, wizard[w].scope),
                         !.needs = NeedsInstall(wizard[w].engine), !.install = install] IN
       /\ wizard[w].interactive => install
       /\ IF ~wizard[w].interactive /\ preview["cred"] = Absent THEN Refuse(w) ELSE WizGoes(w, planned)
  /\ FilesStay /\ RestStays /\ SystemStays

\* A bug: the plan is not compared with the text the answers were given for.
BuildPlanUnguarded(w) ==
  /\ Wiz(w, "plan")
  /\ WizGoes(w, [wizard[w] EXCEPT !.at = "confirm", !.hash = text[wizard[w].scope]])
  /\ FilesStay /\ RestStays /\ SystemStays

BuildPlan(w) ==
  /\ Wiz(w, "plan")
  /\ IF text[wizard[w].scope] # wizard[w].hash THEN Refuse(w)
     ELSE WizGoes(w, [wizard[w] EXCEPT !.at = "confirm"])
  /\ FilesStay /\ RestStays /\ SystemStays

Confirm(w) ==
  /\ Wiz(w, "confirm")
  /\ \/ WizGoes(w, [wizard[w] EXCEPT !.at = "ignore"])
     \/ wizard[w].interactive /\ WizGoes(w, [wizard[w] EXCEPT !.at = "done", !.says = "cancelled", !.hash = <<>>])
  /\ FilesStay /\ RestStays /\ SystemStays

-----------------------------------------------------------------------------
(* applySetupPlan                                                          *)

\* The entry in .gitignore comes first; without it nothing else is applied.
Ignore(w) ==
  LET me == wizard[w] IN
  /\ Wiz(w, "ignore")
  /\ IF me.edits = NoEdits THEN WizGoes(w, [me EXCEPT !.at = "hosts", !.hash = <<>>]) /\ UNCHANGED ignored
     ELSE IF me.scope = "global" THEN WizGoes(w, [me EXCEPT !.at = "compare"]) /\ UNCHANGED ignored
     ELSE \/ WizGoes(w, [me EXCEPT !.at = "compare"]) /\ ignored' = TRUE
          \/ WizGoes(w, [me EXCEPT !.at = "install", !.hash = <<>>, !.failed = {"gitignore", "env"}]) /\ UNCHANGED ignored
  /\ FilesStay /\ RestStays /\ UNCHANGED <<migration, installed>>

Compare(w) ==
  /\ Wiz(w, "compare")
  /\ IF text[wizard[w].scope] # wizard[w].hash THEN Refuse(w)
     ELSE WizGoes(w, [wizard[w] EXCEPT !.at = "base", !.hash = <<>>])
  /\ FilesStay /\ RestStays /\ SystemStays

\* applyEnvPatch reads again, and replaces the file by a rename.
ReadToPatch(w) ==
  /\ Wiz(w, "base")
  /\ WizGoes(w, [wizard[w] EXCEPT !.at = "rename", !.base = text[wizard[w].scope]])
  /\ FilesStay /\ RestStays /\ SystemStays

RenameEnv(w) ==
  LET me == wizard[w] IN
  /\ Wiz(w, "rename")
  /\ \/ /\ text' = [text EXCEPT ![me.scope] = Patched(me.base, me.edits)]
        /\ meant' = [meant EXCEPT ![me.scope] =
             [k \in Key |-> CASE me.edits[k] = Keep -> @[k] [] me.edits[k] = Erase -> Absent [] OTHER -> me.edits[k]]]
        /\ raced' = (raced \/ text[me.scope] # me.base \/ Emptied(me.scope))
        /\ wizard' = [TouchedBy(w, me.scope) EXCEPT ![w] = [me EXCEPT !.at = "hosts", !.base = <<>>]]
     \/ /\ WizGoes(w, [me EXCEPT !.at = "hosts", !.base = <<>>, !.failed = {"env"}])
        /\ UNCHANGED <<text, meant, raced>>
  /\ UNCHANGED writer /\ RestStays /\ SystemStays

\* The MCP entries and the rules, each recorded; then the state is read again.
ApplyHosts(w) ==
  /\ Wiz(w, "hosts")
  /\ \E failures \in SUBSET {"host", "reread"} :
       WizGoes(w, [wizard[w] EXCEPT !.at = "install", !.failed = @ \cup failures])
  /\ FilesStay /\ RestStays /\ SystemStays

-----------------------------------------------------------------------------
(* applyEngineSetup and runCoderSetup                                      *)

\* An installer that succeeds may have put a version below the minimum, or nothing on the path.
InstallEngine(w) ==
  LET me == wizard[w] IN
  /\ Wiz(w, "install")
  /\ \/ me.engine = "none" /\ WizGoes(w, [me EXCEPT !.at = "missing"]) /\ UNCHANGED installed
     \/ me.engine # "none" /\ ~me.needs /\ WizGoes(w, [me EXCEPT !.at = "load"]) /\ UNCHANGED installed
     \/ me.needs /\ me.install /\ WizGoes(w, [me EXCEPT !.at = "load"])
        /\ installed' \in {"good", installed}
     \/ me.needs /\ WizGoes(w, [me EXCEPT !.at = "load", !.failed = @ \cup {"install"}]) /\ UNCHANGED installed
  /\ FilesStay /\ RestStays /\ UNCHANGED <<ignored, migration>>

\* loadEnvFiles: what the process keeps for the rest of its life.
LoadFiles(w) ==
  /\ Wiz(w, "load")
  /\ WizGoes(w, [wizard[w] EXCEPT !.at = "provider", !.loaded = InForce(text, "cred")])
  /\ FilesStay /\ RestStays /\ SystemStays

ProviderFails(me) == [me EXCEPT !.at = "missing", !.failed = @ \cup {"provider"}]
ProviderDone(me) == [me EXCEPT !.at = "missing"]

\* omp has only its version and its credential to check.
SetUpOmp(w) ==
  LET me == wizard[w] IN
  /\ Wiz(w, "provider") /\ me.engine = "omp"
  /\ WizGoes(w, IF installed # "good" \/ me.loaded = Absent THEN ProviderFails(me) ELSE ProviderDone(me))
  /\ FilesStay /\ RestStays /\ SystemStays

\* crush's models and permissions are best effort.
SetUpCrush(w) ==
  LET me == wizard[w] IN
  /\ Wiz(w, "provider") /\ me.engine = "crush"
  /\ \/ WizGoes(w, IF me.loaded = Absent THEN ProviderFails(me) ELSE ProviderDone(me))
     \/ WizGoes(w, ProviderFails(me))
  /\ FilesStay /\ RestStays /\ SystemStays

\* The binary of opencode, its lock, its opencode.json and the audit of it may fail;
\* then the models of the plan are written to the env file, one after the other.
SetUpOpencode(w) ==
  LET me == wizard[w] IN
  /\ Wiz(w, "provider") /\ me.engine \in {"opencode", "opencode2"}
  /\ \/ WizGoes(w, ProviderFails(me)) /\ UNCHANGED writer
     \/ /\ me.engine = "opencode" => installed # "absent"
        /\ WizGoes(w, [me EXCEPT !.at = "persist"])
        /\ writer' = [writer EXCEPT ![w] = [Idle EXCEPT !.at = "read", !.scope = me.scope,
                                              !.todo = <<Assignment("model", me.preview["model"])>>]]
  /\ UNCHANGED <<text, meant, raced>> /\ RestStays /\ SystemStays

\* The missing key is noticed only now.
EndPersist(w) ==
  LET me == wizard[w] IN
  /\ Wiz(w, "persist") /\ writer[w].at = "idle"
  /\ WizGoes(w, IF me.loaded = Absent THEN ProviderFails(me) ELSE ProviderDone(me))
  /\ FilesStay /\ RestStays /\ SystemStays

\* What is required is looked up once more; nothing that failed is called ready.
Finish(w) ==
  LET me == wizard[w]
      missing == me.loaded = Absent /\ InForce(text, "cred") = Absent IN
  /\ Wiz(w, "missing")
  /\ WizGoes(w, [me EXCEPT !.at = "done", !.says = IF me.failed = {} /\ ~missing THEN "ready" ELSE "incomplete"])
  /\ FilesStay /\ RestStays /\ SystemStays

-----------------------------------------------------------------------------
(* setVar and unsetVar: a reading, and a file that is emptied and filled   *)

Wri(p, place) == writer[p].at = place

ReadInPlace(p) ==
  /\ Wri(p, "read")
  /\ writer' = [writer EXCEPT ![p].at = "empty", ![p].raw = text[writer[p].scope]]
  /\ UNCHANGED <<text, meant, raced, wizard>> /\ RestStays /\ SystemStays

NewText(p) == Assigned(writer[p].raw, writer[p].todo[1].key, writer[p].todo[1].value)
Unchanged(p) == writer[p].todo[1].value = Erase /\ NewText(p) = writer[p].raw

EmptyFile(p) ==
  LET me == writer[p] IN
  /\ Wri(p, "empty")
  /\ writer' = [writer EXCEPT ![p].at = IF Unchanged(p) THEN "next" ELSE "fill"]
  /\ IF Unchanged(p) THEN UNCHANGED <<text, raced, wizard>>
     ELSE /\ text' = [text EXCEPT ![me.scope] = <<>>]
          /\ raced' = (raced \/ text[me.scope] # me.raw \/ Emptied(me.scope))
          /\ wizard' = TouchedBy(p, me.scope)
  /\ UNCHANGED meant /\ RestStays /\ SystemStays

FillFile(p) ==
  LET me == writer[p] IN
  /\ Wri(p, "fill")
  /\ writer' = [writer EXCEPT ![p].at = "next"]
  /\ text' = [text EXCEPT ![me.scope] = NewText(p)]
  /\ meant' = [meant EXCEPT ![me.scope][me.todo[1].key] = Says(NewText(p), me.todo[1].key)]
  /\ wizard' = TouchedBy(p, me.scope)
  /\ UNCHANGED raced /\ RestStays /\ SystemStays

\* The commands name the file in .gitignore at their end, in a repository.
NextAssignment(p) ==
  LET me == writer[p] IN
  /\ Wri(p, "next")
  /\ IF Len(me.todo) > 1 THEN /\ writer' = [writer EXCEPT ![p].at = "read", ![p].raw = <<>>, ![p].todo = Tail(@)]
                              /\ UNCHANGED ignored
     ELSE /\ writer' = [writer EXCEPT ![p] = Idle]
          /\ ignored' \in {ignored, ignored \/ (me.ignores /\ me.scope = "local")}
  /\ UNCHANGED <<text, meant, raced, wizard, migration, installed>> /\ RestStays

SetupDies(p) ==
  /\ deaths < MaxDeaths /\ deaths' = deaths + 1
  /\ \/ p \in Wizard /\ wizard[p].at # "done"
     \/ p \in Setter /\ writer[p].at # "idle"
  /\ wizard' = IF p \in Wizard THEN [wizard EXCEPT ![p].at = "done", ![p].says = "died"] ELSE wizard
  /\ writer' = [writer EXCEPT ![p] = Idle]
  /\ raced' = (raced \/ writer[p].at = "fill")
  /\ UNCHANGED <<text, shell, meant>> /\ SystemStays

SetupStep(w) ==
  \/ Gate(w) \/ ReadState(w) \/ ReadHash(w) \/ Collect(w) \/ BuildPlan(w) \/ Confirm(w)
  \/ Ignore(w) \/ Compare(w) \/ ReadToPatch(w) \/ RenameEnv(w) \/ ApplyHosts(w)
  \/ InstallEngine(w) \/ LoadFiles(w) \/ SetUpOmp(w) \/ SetUpCrush(w) \/ SetUpOpencode(w)
  \/ EndPersist(w) \/ Finish(w)

WriterStep(p) == ReadInPlace(p) \/ EmptyFile(p) \/ FillFile(p) \/ NextAssignment(p) \/ SetupDies(p)

SetupNext == (\E w \in Wizard : SetupStep(w)) \/ \E p \in Wizard \cup Setter : WriterStep(p)
SetupSpec == SetupInit /\ [][SetupNext]_setupVars

-----------------------------------------------------------------------------
SetupTypeOK ==
  /\ \A s \in Scope : \A n \in DOMAIN text[s] : text[s][n] \in Line
  /\ \A w \in Wizard : /\ wizard[w].says \in {"none", "refused", "cancelled", "ready", "incomplete", "died"}
                       /\ wizard[w].failed \subseteq {"gitignore", "env", "host", "reread", "install", "provider"}
  /\ \A p \in DOMAIN writer : writer[p].at \in {"idle", "read", "empty", "fill", "next"}

(* No command and no wizard changes what a file says of a key it was not   *)
(* told to change, and what the wizard was told is in the file when it is  *)
(* done, unless some write landed on another text than was read, or amid   *)
(* another's rewriting.                                                    *)
OthersSurvive ==
  ~raced => \A s \in Scope : ~Emptied(s) => \A k \in Key : Says(text[s], k) = meant[s][k]

(* What the user confirmed is in force once everything is applied: through *)
(* duplicates, both files, the shell, and a save while the answers were    *)
(* given, which the wizard refuses to write over.                          *)
ConfirmedHolds ==
  \A w \in Wizard : wizard[w].says \in {"ready", "incomplete"} /\ "env" \notin wizard[w].failed /\ ~wizard[w].touched =>
    \A k \in Key : InForce(text, k) = wizard[w].preview[k]

(* The wizard leaves no credential in a local file that git would take.    *)
SecretsAreIgnored ==
  \A w \in Wizard : wizard[w].scope = "local" /\ wizard[w].edits["cred"] \in Value =>
    (wizard[w].at \in {"hosts", "install", "load", "provider", "persist", "missing"}
       /\ "env" \notin wizard[w].failed => ignored)

(* "ready only when the file transaction AND the engine setup AND every    *)
(* required credential succeeded" (setup/wizard.js:876), as far as the     *)
(* engine's setup checks its engine.                                       *)
ReadyIsReady ==
  \A w \in Wizard : wizard[w].says = "ready" /\ ~wizard[w].touched =>
    /\ InForce(text, "cred") # Absent
    /\ wizard[w].engine = "omp" => installed = "good"
    /\ wizard[w].engine = "opencode" => installed # "absent"

SetupInv == SetupTypeOK /\ OthersSurvive /\ ConfirmedHolds /\ SecretsAreIgnored /\ ReadyIsReady
=============================================================================

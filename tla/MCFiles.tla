------------------------------ MODULE MCFiles ------------------------------
(* TLC instance of the protocols that replace files in place and of the    *)
(* usage log.  They share no state, so a behaviour is one of one of them:  *)
(* `focus` says of which, and the others stay where they started.          *)
EXTENDS StateBackup, MarkerTransaction, UpdateLock, StandaloneUpdate, CodexConfig, UsageLog, TLC

CONSTANTS f1, f2, a, b, p, q, t1, t2, k1, k2
VARIABLE focus

MCDestinations == <<f1, f2>>
SameUpdaters == Permutations({a, b})

\* Every text of three lines and of one or two that do not end in a newline,
\* and those with four lines behind a root table.
MCDrafts ==
  {lines \o <<"blank">> : lines \in UNION {[1..n -> Line] : n \in 0..3}}
  \cup UNION {[1..n -> Line] : n \in 1..2}
  \cup {<<"root">> \o lines \o <<"blank">> :
          lines \in [1..4 -> {"key", "pin", "section", "quoted section", "other", "legacy timeout", "blank", "quotes"}]}
MCSaves == {<<"other", "key", "blank">>, <<"key", "root", "legacy timeout", "blank", "other">>}

One(S) == [c \in Class |-> IF c \in S THEN 1 ELSE 0]
MCSpending == {One({}), One({"uncached", "read", "visible"}), One({"uncached", "write", "reasoning"}), One(Class)}
MCShowings ==
  SUBSET Class \cup {S \cup {"input", "output", "total"} : S \in SUBSET {"read", "uncached", "reasoning"}}
  \cup {{"input", "read"}, {"output", "total"}, Class \cup {"total"}}

FilesInit ==
  /\ focus \in {"backup", "marker", "lock", "standalone", "codex texts", "codex races",
               "usage counts", "usage races"}
  /\ BackupInit
  /\ focus # "backup" => files.store /\ kept.manifest = Gone /\ \A w \in Writer : writer[w].does = "run"
  /\ MarkerInit
  /\ focus # "marker" => \A f \in Destination : disk[f] = Missing
  /\ LockInit
  /\ focus # "lock" => /\ \A l \in Locker : tool[l] = "cache"
                       /\ lockFile = NoFile /\ breakLink = NoFile
  /\ StandaloneInit
  /\ focus # "standalone" => launcher = NoLauncher /\ receipt = NoReceipt
  /\ CodexInit
  /\ CASE focus = "codex texts" -> config # NoConfig /\ ~config.link /\ registrar[t2].job = "status"
       [] focus = "codex races" -> config # NoConfig => config.text \in MCSaves
       [] OTHER -> config = NoConfig /\ \A t \in Registrar : registrar[t].job = "status"
  /\ UsageInit

\* One process over every text; two and an editor over a few.
CodexTurn ==
  \/ focus = "codex races" /\ CodexNext
  \/ focus = "codex texts" /\ config.entry = 0 /\ CodexStep(t1)

\* One call over everything a source may report; two with flat records over the rotation.
UsageTurn ==
  \/ focus = "usage counts" /\ CallStep(k1) /\ Len(appended) < 1
  \/ /\ focus = "usage races" /\ UsageNext
     /\ \A k \in Caller : call'[k].at # "idle" =>
          /\ call'[k].source = "flat" /\ call'[k].spent = NoSpending
          /\ call'[k].record # Unknown => call'[k].record.plan = "listed"

FilesNext ==
  /\ UNCHANGED focus
  /\ \/ focus = "backup" /\ BackupNext /\ UNCHANGED <<markerVars, lockVars, standaloneVars, codexVars, usageVars>>
     \/ focus = "marker" /\ MarkerNext /\ UNCHANGED <<backupVars, lockVars, standaloneVars, codexVars, usageVars>>
     \/ focus = "lock" /\ LockNext /\ UNCHANGED <<backupVars, markerVars, standaloneVars, codexVars, usageVars>>
     \/ focus = "standalone" /\ StandaloneNext /\ UNCHANGED <<backupVars, markerVars, lockVars, codexVars, usageVars>>
     \/ CodexTurn /\ UNCHANGED <<backupVars, markerVars, lockVars, standaloneVars, usageVars>>
     \/ UsageTurn /\ UNCHANGED <<backupVars, markerVars, lockVars, standaloneVars, codexVars>>

FilesSpec ==
  FilesInit /\ [][FilesNext]_<<focus, backupVars, markerVars, lockVars, standaloneVars, codexVars, usageVars>>
=============================================================================

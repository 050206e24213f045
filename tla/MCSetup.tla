------------------------------ MODULE MCSetup ------------------------------
(* TLC instance that adds, as components of their own, the migration of    *)
(* what a user set up before the first run, and the report of one run of   *)
(* any engine from the lines it prints: `topic` says which of them a        *)
(* behaviour is about, or that it is about the runs of MCRuns.             *)
EXTENDS MCRuns, Migration, EngineEvents

CONSTANTS m1, m2, envFile, ruleFile, recordFile, v1, v2, t1, t2
VARIABLE topic

MCTargets == <<envFile, ruleFile, recordFile>>
MCKindOf ==
  [t \in {envFile, ruleFile, recordFile} |->
    CASE t = envFile -> "env" [] t = ruleFile -> "rule" [] OTHER -> "structured"]
Says(kind, who) == [Plain EXCEPT !.kind = kind, !.thread = who]
MCCounts == {{}, {"input", "output"}, {"total", "cost"}, {"input", "output", "total", "cost"}}
MCOpencode ==
  {[Plain EXCEPT !.kind = "garbage"], [Plain EXCEPT !.kind = "null"], Says("unknown", Nobody), Says("tool", t1), Says("step", t2)}
    \cup {[Says("step", t1) EXCEPT !.counts = c] : c \in MCCounts}
    \cup {[Says("text", t1) EXCEPT !.text = w] : w \in {"empty", "words"}}
    \cup {[Says("error", Nobody) EXCEPT !.failed = TRUE, !.limited = b] : b \in BOOLEAN}
MCMessages ==
  {[Plain EXCEPT !.kind = "message", !.usage = c # {}, !.counts = c, !.text = "words", !.stop = s] :
      c \in {{}, Class, Class \ {"cost"}}, s \in BOOLEAN}
    \cup {[Plain EXCEPT !.kind = "message", !.failed = TRUE, !.text = "empty"]}
MCEnvelopes ==
  {[Says("envelope", w) EXCEPT !.reason = r, !.failed = e # "none", !.limited = e = "rate", !.tools = 1,
      !.text = said, !.counts = c] :
     w \in {t1}, r \in {"end_turn", "timeout", "canceled", "max_cost", "none"},
     e \in {"none", "rate", "other"}, said \in {"none", "words"}, c \in {{}, {"total"}}}
    \cup {[Says("envelope", Nobody) EXCEPT !.reason = "end_turn", !.counts = {"cost"}]}
MCPrinted ==
  [opencode |-> MCOpencode, opencode2 |-> MCOpencode, messages |-> MCMessages,
   omp |-> {[Plain EXCEPT !.kind = k] : k \in {"garbage", "null", "unknown", "tool", "retry"}}
             \cup {Says("session", w) : w \in {t1, t2, Nobody}},
   crush |-> MCEnvelopes \cup {[Plain EXCEPT !.kind = "garbage"]}]

OldText == [legacy |-> v1, canonical |-> Unset, schema |-> TRUE]

\* One migration over every text of one of the files, two over plain ones.
SetupInit ==
  /\ topic \in {"runs", "migration", "migrations", "events"}
  /\ EventsInit
  /\ topic # "events" => speaker = "crush" /\ asked = "none"
  /\ speaker # "omp" => ~streams
  /\ RunsInit
  /\ topic # "runs" => runs = 0 /\ focus = "journal"
  /\ MigrationInit
  /\ topic = "migration" => \E t \in Target : \A o \in Target \ {t} : file[o] = OldText
  /\ topic # "migration" => \A t \in Target : file[t] = OldText

MigrationTurn ==
  \/ topic = "migration" /\ ((\E t \in Target : UserEdits(t)) \/ MigratorStep(m1))
  \/ /\ topic = "migrations" /\ MigrationNext
     /\ edits' + deaths' <= 1
     /\ \A t \in Target : file'[t] # Garbled /\ (edits' > edits /\ file'[t] # file[t] => t = ruleFile)

\* Longer streams are of fewer kinds, and of children that nobody ends late.
EventsTurn ==
  LET told == Len(stream') + Len(answers') IN
  /\ topic = "events" /\ EventsNext
  /\ Len(stream) + Len(answers) > 1 => child'.big = child.big /\ child'.timedOut = child.timedOut
  /\ told > 1 =>
       /\ asked = "none" /\ (child'.big => child'.cause = "none")
       /\ child'.cause \in {"none", child.cause, "provider_rate_limit"}
  /\ told > 2 => child'.cause \in {"none", "provider_rate_limit"} /\ ~child'.big
  /\ told > 2 => \A i \in DOMAIN stream' : stream'[i].kind \notin {"garbage", "null", "unknown", "tool", "retry"}
  /\ speaker = "crush" =>
       Len(stream') <= 2 /\ (Len(stream') = 2 => "garbage" \in {stream'[1].kind, stream'[2].kind})

runsVars == <<runs, runVars, focus, registryVars, quarantineVars, journalVars>>

SetupNext ==
  /\ UNCHANGED topic
  /\ \/ topic = "runs" /\ RunsNext /\ UNCHANGED <<migrationVars, eventVars>>
     \/ MigrationTurn /\ UNCHANGED <<runsVars, eventVars>>
     \/ EventsTurn /\ UNCHANGED <<runsVars, migrationVars>>

SetupSpec == SetupInit /\ [][SetupNext]_<<topic, runsVars, migrationVars, eventVars>>
=============================================================================

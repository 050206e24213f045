------------------------------ MODULE MCEngine ------------------------------
(* TLC instance of the supervision of one engine and, as components of     *)
(* their own, of the wizard and its engine setup (over many texts of the   *)
(* env files, over every engine and preflight, and beside a command that   *)
(* rewrites an env file) and of the notices of newer releases (two MCP     *)
(* servers, or one beside commands, an update or a clock that is set       *)
(* back), of the disposable folders of pull request reviews, and of one     *)
(* review.  `topic` says which of them a behaviour is about.               *)
EXTENDS EngineSupervision, Setup, UpdateNotices, Review

CONSTANTS w1, s1, v1, v2, h1, h2, c1, u1, a1, a2
VARIABLE topic

Says1(key, value) == [key |-> key, value |-> value]
MCValue == {v1, v2, Default}
MCTexts ==
  UNION {[1..n -> {Says1("cred", v1), Says1("model", v1), Says1("model", v2), Says1("other", v1)}] : n \in 0..2}
  \cup {<<Says1("model", v1), Says1("other", v1), Says1("model", v2)>>,
        <<Says1("cred", v1), Says1("other", v2), Says1("cred", v2)>>,
        <<Says1("schema", Default), Says1("cred", v1), Says1("model", v1)>>}
MCFew == {<<>>, <<Says1("model", v1), Says1("cred", v1)>>}
MCDrafts == [{"cred", "model"} -> {Keep, Erase, v2}]
MCCommands ==
  {[scope |-> s, todo |-> t] :
     s \in Scope, t \in {<<Says1("model", Erase)>>, <<Says1("cred", v2), Says1("model", v1)>>}}

MCRunning == [p \in Process |-> 0]
Telling ==
  [servers |-> {h1, h2}, command |-> {h1, c1}, updater |-> {h1, u1}, clock |-> {h1}]

MCPath == {"a", "b", "c", "d", "d/f", "o", "x"}
Part(r, p, o, b, n) == [nr |-> r, path |-> p, old |-> o, binary |-> b, size |-> n]
MCSections ==
  {Part(1, "a", "a", FALSE, 1), Part(2, "a", "a", FALSE, 2), Part(3, "b", "o", FALSE, 1),
   Part(4, "c", "c", TRUE, 1), Part(5, "d/f", "d/f", FALSE, 1)}
MCChanges == {c \in UNION {[1..n -> MCSections] : n \in 0..3} : \A i, j \in DOMAIN c : c[i] = c[j] => i = j}
MCPlain ==
  [caller |-> "cli", payload |-> "single", source |-> "local", selectors |-> {},
   change |-> <<Part(1, "a", "a", FALSE, 1)>>, stream |-> FALSE, ticket |-> 0]
MCScoped ==
  {[MCPlain EXCEPT !.caller = c, !.payload = p, !.source = s, !.selectors = f, !.change = x] :
     c \in {"cli", "mcp"}, p \in {"single", "shard"}, s \in {"local", "stdin"},
     f \in {{}, {"a"}, {"o"}, {"c"}, {"d"}, {"a", "d"}, {"b", "x"}}, x \in MCChanges}
MCPulls ==
  {[MCPlain EXCEPT !.source = "pr", !.payload = p, !.selectors = f, !.change = x] :
     p \in {"single", "shard"}, f \in {{}, {"x"}, {"d"}},
     x \in {<<Part(1, "a", "a", FALSE, 1), Part(5, "d/f", "d/f", FALSE, 1)>>, <<>>}}
MCStreams ==
  {[MCPlain EXCEPT !.stream = s, !.ticket = t, !.payload = p] :
     s \in BOOLEAN, t \in 0..1, p \in {"single", "shard"}}
MCRequest == {q \in MCScoped : q.caller = "mcp" => q.source # "stdin"} \cup MCPulls \cup MCStreams
MCBelow == {<<"d", "d/f">>}

MCEngineInit ==
  /\ topic \in {"engine", "texts", "engines", "races", "runs", "reviews"} \cup DOMAIN Telling
  /\ RunsInit /\ terminal = NewTerminal
  /\ review \in {NewReview(q) : q \in IF topic = "reviews" THEN MCRequest ELSE {MCPlain}}
  /\ NoticesInit /\ published = 1
  /\ Init
  /\ topic # "engine" => ~crush /\ ~aborted
  /\ text \in IF topic = "texts"
              THEN {f \in [Scope -> MCTexts] : f["global"] \in {<<>>, <<Says1("model", v2)>>, <<Says1("cred", v1)>>}}
              ELSE {f \in [Scope -> MCFew] : topic \in {"engine", "runs", "reviews"} \cup DOMAIN Telling => f = Forgotten}
  /\ shell \in {[k \in Key |-> IF k = "cred" THEN c ELSE Absent] :
                  c \in IF topic = "texts" THEN {Absent, v1} ELSE {Absent}}
  /\ ignored = FALSE
  /\ migration \in IF topic = "engines" THEN {"not required", "additions", "legacy", "blocked"} ELSE {"not required"}
  /\ installed \in IF topic = "engines" THEN {"absent", "old", "good"} ELSE {"good"}
  /\ wizard \in [Wizard -> {[NewWizard EXCEPT !.scope = s, !.interactive = i, !.engine = e] :
                  s \in Scope, i \in IF topic = "engines" THEN BOOLEAN ELSE {TRUE},
                  e \in CASE topic = "engines" -> Engines [] topic = "races" -> {"opencode"} [] OTHER -> {"none"}}]
  /\ SetupInit
  /\ topic \in {"texts", "engines"} => writer[s1].scope = "local" /\ Len(writer[s1].todo) = 2
  /\ topic \in {"engine", "runs", "reviews"} \cup DOMAIN Telling =>
       wizard[w1].scope = "local" /\ writer[s1].scope = "local" /\ Len(writer[s1].todo) = 2
  /\ topic = "races" => text["local"] # <<>> /\ text["global"] = <<>> /\ wizard[w1].scope = writer[s1].scope

SetupTurn ==
  \/ topic \in {"texts", "engines"} /\ (SetupStep(w1) \/ (writer[w1].at # "idle" /\ WriterStep(w1)))
  \/ /\ topic = "races" /\ SetupNext
     /\ \A w \in Wizard : wizard'[w].failed \subseteq {"env", "provider"}

NoticesTurn ==
  /\ topic \in DOMAIN Telling /\ NoticesNext
  /\ \A p \in Process \ Telling[topic] : proc'[p] = proc[p]
  /\ topic # "clock" => backs' = 0

\* One failing operation in a behaviour; of what git says, one answer each.
MaxMishaps == 1
FewMishaps == Cardinality({<<a, m>> \in Acquirer \X (Mishap \ {"swept"}) : m \in mishaps'[a]}) <= MaxMishaps
RunsTurn ==
  /\ topic = "runs" /\ RunsNext /\ FewMishaps
  /\ \A a \in Acquirer :
       /\ acquirer'[a].result # "invalid"
       /\ AtRun(a, "selecting") => acquirer'[a].result \in {"none", "ok"}

ReviewTurn ==
  /\ topic = "reviews" /\ ReviewNext /\ FewMishaps
  /\ terminal' = terminal \/ review.request \in MCStreams

MCEngineNext ==
  /\ UNCHANGED topic
  /\ \/ topic = "engine" /\ Next /\ UNCHANGED <<setupVars, noticeVars, runVars, reviewVars>>
     \/ SetupTurn /\ UNCHANGED <<vars, noticeVars, runVars, reviewVars>>
     \/ NoticesTurn /\ UNCHANGED <<vars, setupVars, runVars, reviewVars>>
     \/ RunsTurn /\ UNCHANGED <<vars, setupVars, noticeVars, reviewVars>>
     \/ ReviewTurn /\ UNCHANGED <<vars, setupVars, noticeVars>>

MCEngineSpec == MCEngineInit /\ [][MCEngineNext]_<<topic, vars, setupVars, noticeVars, runVars, reviewVars>> /\ Fairness
=============================================================================

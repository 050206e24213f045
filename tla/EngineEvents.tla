---------------------------- MODULE EngineEvents ----------------------------
(* What a run of an engine is reported to have been: the lines the engine  *)
(* prints are folded one by one into a summary, under whichever format the *)
(* engine speaks, and the summary and the way the process ended become the *)
(* envelope of the run.  A count stands for the values it is summed from,  *)
(* every report of a counter adding 1 to it; counts that are no whole      *)
(* numbers are lines without them.  The supervision of the process is      *)
(* EngineSupervision, the row and the mapping of the session CoderSession. *)
EXTENDS Naturals, Sequences, FiniteSets

CONSTANTS
  Speaker,       \* the engines: "opencode", "opencode2", "omp", "crush"
  Printed,       \* what each of them may print
  Thread,        \* the ids of native sessions
  Nobody,        \* none of them
  MaxLines,      \* lines of one run (a bound)
  MaxWarnings    \* MAX_PUBLIC_WARNINGS, OMP_MAX_WARNINGS

Class == {"input", "output", "total", "cost"}
Kind ==
  {"garbage", "null", "unknown", "error", "tool", "step", "text",     \* OpenCode
   "session", "retry", "message", "end", "envelope"}                  \* OMP; Crush
Words == {"none", "empty", "words"}
Reason == {"none", "end_turn", "done", "timeout", "canceled", "max_cost"}

\* What may stand on a line; the answers only at OMP's end.
LineWith(messages) ==
  [kind : Kind, thread : Thread \cup {Nobody}, counts : SUBSET Class, usage : BOOLEAN, text : Words,
   failed : BOOLEAN, limited : BOOLEAN, stop : BOOLEAN, final : BOOLEAN, messages : messages,
   tools : Nat, reason : Reason]
Message == {m \in LineWith({<<>>}) : m.kind = "message"}
Line == LineWith(Seq(Message))

\* Only an error of OpenCode, and an answer or an end of OMP, say that the engine failed.
ASSUME EventsAssumption ==
  /\ MaxLines \in Nat /\ MaxWarnings \in Nat \ {0}
  /\ Speaker \subseteq {"opencode", "opencode2", "omp", "crush"} /\ Printed["messages"] \subseteq Message
  /\ \A s \in Speaker : \A l \in Printed[s] :
       /\ l \in Line /\ l.kind # "end"
       /\ s \in {"opencode", "opencode2"} /\ l.failed => l.kind = "error"
       /\ s = "omp" => l.kind # "message" /\ ~l.failed

VARIABLES
  speaker,  \* the engine of the run
  streams,  \* OMP: this build prints every message as it is finished
  asked,    \* the session of the run: "none", "unavailable" or "admitted"
  stream,   \* every line that was printed and not cut off
  answers,  \* OMP: the messages of the assistant
  fold,     \* the summary so far
  child,    \* the process, and what ended it
  envelope  \* the report of the run

eventVars == <<speaker, streams, asked, stream, answers, fold, child, envelope>>

Plain ==
  [kind |-> "unknown", thread |-> Nobody, counts |-> {}, usage |-> FALSE, text |-> "none",
   failed |-> FALSE, limited |-> FALSE, stop |-> FALSE, final |-> TRUE, messages |-> <<>>,
   tools |-> 0, reason |-> "none"]

NewUsage == [steps |-> 0, reported |-> [c \in Class |-> 0]]

NewFold ==
  [parsed |-> FALSE, thread |-> Nobody, text |-> "none", usage |-> NewUsage, tools |-> 0,
   warned |-> {}, limited |-> FALSE, failed |-> FALSE, seen |-> FALSE, ended |-> FALSE,
   stopped |-> FALSE, streamed |-> FALSE, reason |-> "none", thrown |-> FALSE]

NewChild ==
  [at |-> "running", cause |-> "none", timedOut |-> FALSE, big |-> FALSE, code |-> 0, signal |-> FALSE]

NoEnvelope == [exit |-> "none"]

EventsInit ==
  /\ speaker \in Speaker
  /\ streams \in BOOLEAN
  /\ asked \in {"none", "unavailable", "admitted"}
  /\ stream = <<>> /\ answers = <<>>
  /\ fold = NewFold /\ child = NewChild /\ envelope = NoEnvelope

--------------------------------------------------------------------------
(* Folding one line.                                                       *)

Warn(f, what) ==
  IF Cardinality(f.warned) >= MaxWarnings THEN f
  ELSE [f EXCEPT !.warned = @ \cup {what}]

WarnOmp(f, what) ==
  IF what \in f.warned THEN f
  ELSE [f EXCEPT !.warned = @ \cup {IF Cardinality(@) < MaxWarnings - 1 THEN what ELSE "omitted"}]

WarnOpenCode2(f, what) == [f EXCEPT !.warned = @ \cup {what}]

FoldOpencodeStep(u, counts) ==
  [steps |-> u.steps + 1,
   reported |-> [c \in Class |-> u.reported[c] + IF c \in counts THEN 1 ELSE 0]]

\* The first id wins; no later one is looked at.
Heard(f, l) ==
  [f EXCEPT !.parsed = TRUE, !.thread = IF @ = Nobody THEN l.thread ELSE @]

\* What both formats of OpenCode make of a line that they parse.
FoldBody(f, l) ==
  CASE l.kind = "step" -> [f EXCEPT !.seen = TRUE, !.usage = FoldOpencodeStep(@, l.counts)]
    [] l.kind = "text" -> [f EXCEPT !.text = l.text]
    [] l.kind = "error" -> [f EXCEPT !.failed = TRUE, !.limited = @ \/ l.limited]
    [] OTHER -> f

FoldEventLine(f, l) ==
  CASE l.kind = "garbage" -> Warn(f, "garbage")
    [] l.kind = "tool" -> [Heard(f, l) EXCEPT !.tools = @ + 1]
    [] l.kind \in {"unknown", "error"} -> Warn(FoldBody(Heard(f, l), l), l.kind)
    [] OTHER -> FoldBody(Heard(f, l), l)

FoldOpenCode2EventLine(f, l) ==
  CASE l.kind = "garbage" -> WarnOpenCode2(f, "garbage")
    [] l.kind \in {"unknown", "error"} -> WarnOpenCode2(FoldBody(Heard(f, l), l), l.kind)
    [] OTHER -> FoldBody(Heard(f, l), l)

\* An error is for good: what a retry answers later does not take it back.
FoldAssistantMessage(f, m) ==
  [f EXCEPT
     !.text = IF m.text = "words" THEN m.text ELSE @,
     !.stopped = IF m.stop \/ m.failed THEN m.stop ELSE @,
     !.failed = @ \/ m.failed,
     !.seen = @ \/ m.usage,
     !.usage = IF m.usage THEN FoldOpencodeStep(@, m.counts) ELSE @]

FoldAll(f, messages) ==
  LET upTo[k \in 0..Len(messages)] == IF k = 0 THEN f ELSE FoldAssistantMessage(upTo[k - 1], messages[k])
  IN upTo[Len(messages)]

FoldOmpEventLine(f, l) ==
  LET p == [f EXCEPT !.parsed = TRUE] IN
  CASE l.kind = "garbage" -> WarnOmp(f, "garbage")
    [] l.kind = "session" ->
         IF l.thread = Nobody THEN WarnOmp(p, "session")
         ELSE IF p.thread \notin {Nobody, l.thread} THEN [p EXCEPT !.thrown = TRUE]
         ELSE [p EXCEPT !.thread = l.thread]
    [] l.kind = "message" -> [FoldAssistantMessage(p, l) EXCEPT !.streamed = TRUE]
    [] l.kind = "tool" -> [p EXCEPT !.tools = @ + 1]
    [] l.kind = "end" /\ ~l.final -> WarnOmp(p, "not terminal")
    [] l.kind = "end" /\ l.final ->
         LET all == IF p.streamed THEN p ELSE FoldAll(p, l.messages)
         IN  [all EXCEPT !.ended = TRUE, !.failed = @ \/ l.failed]
    [] l.kind = "retry" -> p
    [] OTHER -> WarnOmp(p, "unknown")

\* Crush prints one envelope: the last line is all there is.
ParseEnvelope(l) ==
  IF l.kind # "envelope" THEN NewFold
  ELSE [NewFold EXCEPT
          !.parsed = TRUE, !.thread = l.thread, !.text = l.text, !.reason = l.reason,
          !.failed = l.failed, !.limited = l.limited, !.tools = l.tools,
          !.seen = l.counts # {}, !.usage = FoldOpencodeStep(NewUsage, l.counts)]

\* A line that is no object is read as one, and the reading throws.
Folded(f, l) ==
  IF speaker = "crush" THEN ParseEnvelope(l)
  ELSE IF l.kind = "null" THEN [f EXCEPT !.parsed = TRUE, !.thrown = TRUE]
  ELSE CASE speaker = "opencode" -> FoldEventLine(f, l)
         [] speaker = "opencode2" -> FoldOpenCode2EventLine(f, l)
         [] OTHER -> FoldOmpEventLine(f, l)

--------------------------------------------------------------------------
(* The process, its lines, and what ends it.                               *)

First1(cause) == IF child.cause = "none" THEN cause ELSE child.cause

Room == child.at = "running" /\ Len(stream) + Len(answers) < MaxLines

\* The line is folded where its bytes arrive: what a fold throws there is
\* caught by nobody, and the host goes down with the run.
FeedLine(l) ==
  /\ stream' = Append(stream, l)
  /\ fold' = IF speaker = "crush" /\ child.big THEN fold ELSE Folded(fold, l)
  /\ child' = [child EXCEPT
       !.at = IF fold'.thrown THEN "crashed" ELSE @,
       !.cause = IF speaker # "crush" /\ fold'.limited /\ ~fold.limited
                 THEN First1("provider_rate_limit") ELSE @]

Prints(l) ==
  /\ Room /\ FeedLine(l)
  /\ UNCHANGED <<speaker, streams, asked, answers, envelope>>

\* OMP: a message is printed when it is finished, or kept for the end.
Answers(m) ==
  /\ speaker = "omp" /\ Room
  /\ ~\E i \in DOMAIN stream : stream[i].kind = "end" /\ stream[i].final
  /\ answers' = Append(answers, m)
  /\ IF streams THEN FeedLine(m) ELSE UNCHANGED <<stream, fold, child>>
  /\ UNCHANGED <<speaker, streams, asked, envelope>>

\* An attempt ends, with everything that was answered; the last one once.
Ends(final, failed) ==
  /\ speaker = "omp" /\ Room
  /\ ~\E i \in DOMAIN stream : stream[i].kind = "end" /\ stream[i].final
  /\ FeedLine([Plain EXCEPT !.kind = "end", !.final = final, !.failed = failed, !.messages = answers])
  /\ UNCHANGED <<speaker, streams, asked, answers, envelope>>

\* More than is kept: an unfinished record is dropped, and what is left of
\* Crush's output may end anywhere.
TooMuch ==
  /\ child.at = "running" /\ ~child.big
  /\ child' = [child EXCEPT !.big = TRUE, !.cause = IF speaker = "crush" THEN First1("output_limit") ELSE @]
  /\ fold' \in IF speaker = "crush" THEN {fold, NewFold} ELSE {fold}
  /\ UNCHANGED <<speaker, streams, asked, stream, answers, envelope>>

Stop(cause) ==
  /\ child.at = "running"
  /\ cause = "provider_rate_limit" => ~fold.limited
  /\ child' = [child EXCEPT !.cause = First1(cause), !.timedOut = @ \/ cause = "deadline"]
  /\ fold' = [fold EXCEPT !.limited = @ \/ cause = "provider_rate_limit"]
  /\ UNCHANGED <<speaker, streams, asked, stream, answers, envelope>>

Causes ==
  {"deadline", "caller_abort"}
    \cup IF speaker = "crush" THEN {"host_signal"} ELSE {"provider_rate_limit"}

\* A child that is told to stop may still end as it likes; one that ends by
\* a signal has no exit code, which is not 0.
Closes(code, signal) ==
  /\ child.at = "running" /\ (signal => code = 1)
  /\ child' = [child EXCEPT !.at = "closed", !.code = code, !.signal = signal]
  /\ UNCHANGED <<speaker, streams, asked, stream, answers, fold, envelope>>

--------------------------------------------------------------------------
(* The envelope.                                                           *)

\* A bug: a step is enough for a total.
AnyStep(u, c) == u.reported[c] > 0

\* A sum over some of the steps is not the total of the run.
EveryStep(u, c) == u.steps > 0 /\ u.reported[c] = u.steps

\* The totals that are known, and what they sum.
OpencodeTotals(u) ==
  LET whole == {c \in Class : EveryStep(u, c)}
  IN  [c \in whole \cup IF {"input", "output"} \subseteq whole THEN {"total"} ELSE {} |->
         IF c \in whole THEN u.reported[c] ELSE u.reported["input"]]

\* OMP's counters are summed as they come, and so is the cost.
OmpTotals(u) ==
  [c \in (Class \ {"cost"}) \cup {k \in {"cost"} : u.reported[k] > 0} |-> u.reported[c]]

CrushTotals(u) == [c \in {k \in {"total", "cost"} : u.reported[k] > 0} |-> u.reported[c]]

None == [c \in {} |-> 0]

Reported(u) == \E c \in Class : u.reported[c] > 0

OmpUsage(u) ==
  [status |-> IF ~fold.seen THEN "unknown"
              ELSE IF u.reported["cost"] > 0 THEN "reported" ELSE "estimated",
   totals |-> IF fold.seen THEN OmpTotals(u) ELSE None]

CrushUsage(u) ==
  [status |-> IF CrushTotals(u) = None THEN "missing" ELSE "reported", totals |-> CrushTotals(u)]

\* Nothing is known of a run without a step, which is not that it was free.
OpencodeUsage(u) ==
  [status |-> IF Reported(u) THEN "reported" ELSE "missing", totals |-> OpencodeTotals(u)]

Usage ==
  CASE speaker = "omp" -> OmpUsage(fold.usage)
    [] speaker = "crush" -> CrushUsage(fold.usage)
    [] OTHER -> OpencodeUsage(fold.usage)

MapExitReason(reason) ==
  CASE reason \in {"end_turn", "done"} -> "end_turn"
    [] reason = "timeout" -> "timeout"
    [] reason = "canceled" -> "killed"
    [] OTHER -> "error"

\* How the process ended, where nothing the engine said comes first.
ByProcess(clean) ==
  IF child.timedOut THEN "timeout" ELSE IF child.signal THEN "killed"
  ELSE IF child.code = 0 /\ clean THEN "end_turn" ELSE "error"

\* A bug: the exit code speaks before the errors of the stream.
ExitReasonByCode ==
  IF speaker # "crush" /\ child.code = 0 /\ ~child.signal /\ ~child.timedOut THEN "end_turn"
  ELSE ByProcess(TRUE)

\* OpenCode asks first who ended the child: the zero of a child that was told
\* to stop is not the end of a turn.
OpencodeExit ==
  IF child.timedOut THEN "timeout" ELSE IF child.big THEN "error"
  ELSE IF child.cause # "none" THEN "killed" ELSE ByProcess(~fold.failed)

OpenCode2Exit == IF fold.failed THEN "error" ELSE ByProcess(TRUE)

OmpExit == ByProcess(~fold.failed /\ (fold.ended \/ fold.stopped))

CrushExit == IF child.timedOut \/ child.signal THEN ByProcess(TRUE) ELSE MapExitReason(fold.reason)

ExitReason ==
  CASE speaker = "opencode" -> OpencodeExit
    [] speaker = "opencode2" -> OpenCode2Exit
    [] speaker = "omp" -> OmpExit
    [] OTHER -> CrushExit

\* The limit that the log tells of only afterwards is not told to OpenCode's
\* lifecycle, but to that of OpenCode 2.
RateLimited(logged) ==
  CASE speaker = "opencode" -> fold.limited
    [] speaker = "opencode2" -> fold.limited \/ logged
    [] speaker = "omp" -> FALSE
    [] OTHER -> ExitReason = "error" /\ fold.limited

\* What the folds report to the lifecycle as an error of the engine.
Erred == IF speaker = "omp" THEN ExitReason = "error" ELSE fold.failed

ProcessStatus ==
  IF child.timedOut THEN "timeout" ELSE IF child.cause # "none" \/ child.signal THEN "killed"
  ELSE IF child.code = 0 THEN "completed" ELSE "error"

EngineStatus(logged) ==
  IF RateLimited(logged) THEN "rate_limited" ELSE IF Erred THEN "error"
  ELSE CASE ExitReason = "end_turn" -> "completed"
         [] ExitReason = "timeout" -> "timeout"
         [] ExitReason = "killed" -> "cancelled"
         [] OTHER -> "unknown"

ProviderStatus(logged) ==
  IF RateLimited(logged) THEN "rate_limited" ELSE IF fold.text = "words" \/ fold.tools > 0 THEN "usable"
  ELSE IF Erred THEN "unknown_error" ELSE "not_observed"

Persistence(outcome) ==
  CASE asked = "none" -> "ephemeral"
    [] asked = "admitted" /\ outcome = "persistent" -> "persistent"
    [] OTHER -> "ephemeral_downgraded"

\* What has become of the row of the run, which needs the native session.
RowOutcomes ==
  IF asked # "admitted" THEN {"none"}
  ELSE {"removed_unusable"} \cup IF fold.thread = Nobody THEN {} ELSE {"persistent", "retained_for_recovery"}

Refuses(logged) ==
  \/ ~fold.parsed
  \/ speaker \in {"opencode", "opencode2"} /\ (fold.limited \/ logged) /\ fold.text \in {"none", "empty"}

EnvelopeOf(logged, outcome) ==
  [exit |-> ExitReason, process |-> ProcessStatus, engine |-> EngineStatus(logged),
   provider |-> ProviderStatus(logged), session |-> Persistence(outcome),
   text |-> fold.text, usage |-> Usage]

Report(logged, outcome) ==
  /\ child.at = "closed" /\ outcome \in RowOutcomes
  /\ logged => speaker \in {"opencode", "opencode2"}
  /\ IF Refuses(logged) \/ outcome = "retained_for_recovery"
     THEN child' = [child EXCEPT !.at = "refused"] /\ UNCHANGED envelope
     ELSE child' = [child EXCEPT !.at = "reported"] /\ envelope' = EnvelopeOf(logged, outcome)
  /\ UNCHANGED <<speaker, streams, asked, stream, answers, fold>>

EventsNext ==
  \/ \E l \in Printed[speaker] : Prints(l)
  \/ \E m \in Printed["messages"] : Answers(m)
  \/ \E final, failed \in BOOLEAN : Ends(final, failed)
  \/ TooMuch
  \/ \E cause \in Causes : Stop(cause)
  \/ \E code \in 0..1, signal \in BOOLEAN : Closes(code, signal)
  \/ \E logged \in BOOLEAN, outcome \in RowOutcomes : Report(logged, outcome)

EventsSpec == EventsInit /\ [][EventsNext]_eventVars

--------------------------------------------------------------------------
(* Properties.                                                             *)

EventsTypeOK ==
  /\ speaker \in Speaker /\ streams \in BOOLEAN
  /\ Len(stream) <= MaxLines /\ Len(answers) <= MaxLines
  /\ fold.text \in {"none", "empty", "words"}
  /\ \A c \in Class : fold.usage.reported[c] \in 0..fold.usage.steps
  /\ child.at \in {"running", "closed", "reported", "refused", "crashed"}
  /\ (child.at = "crashed") = fold.thrown

Reports == child.at = "reported"

Arrived(kind) == {i \in DOMAIN stream : stream[i].kind = kind}

\* An error of the engine reached us: on a line, or in a message of the end.
Failed ==
  IF speaker = "crush" THEN fold.failed
  ELSE \E i \in DOMAIN stream :
         \/ stream[i].failed /\ (stream[i].kind = "end" => stream[i].final)
         \/ /\ stream[i].kind = "end" /\ stream[i].final /\ ~streams
            /\ \E k \in DOMAIN stream[i].messages : stream[i].messages[k].failed

\* A run is said to have ended its turn only when nothing that it printed
\* told of an error and nothing that we know of cut it short: the zero a
\* child exits with when it is told to stop does not make it a success
\* (OpenCode 2 and OMP: as far as the envelope looks at the cause).
EndTurnIsHonest ==
  Reports /\ envelope.exit = "end_turn" =>
    /\ ~child.timedOut /\ ~child.signal
    /\ speaker # "crush" => ~Failed /\ child.code = 0
    /\ speaker = "opencode" => child.cause = "none" /\ ~child.big
    /\ speaker = "omp" => Arrived("end") # {} \/ \E i \in Arrived("message") : stream[i].stop

\* Whoever reads the status of the engine rather than the exit never reads
\* that it completed, or that nothing is known, after an error, whatever was
\* answered before or after.
ErrorsAreTold ==
  Reports /\ Failed =>
    envelope.engine \notin {"completed", "unknown"}

\* A process counts as completed only if nobody ended it.
CompletedByItself ==
  Reports /\ envelope.process = "completed" =>
    child.cause = "none" /\ child.code = 0 /\ ~child.signal /\ ~child.timedOut

\* A total covers every step of the stream, and where a step kept a counter
\* to itself there is no total; no message of OMP is counted twice, whether
\* it was printed when it was finished, at the end, or both; and a run that
\* told of no counter is not reported to have used nothing.
UsageIsWhole ==
  LET known == envelope.usage.totals IN
  Reports =>
    /\ speaker \in {"opencode", "opencode2"} =>
         \A c \in DOMAIN known : known[c] = Cardinality(Arrived("step"))
    /\ speaker = "omp" =>
         \A c \in DOMAIN known : known[c] <= Cardinality({i \in DOMAIN answers : c \in answers[i].counts})
    /\ envelope.usage.status \in {"unknown", "missing"} => DOMAIN known = {}
    /\ (speaker # "crush" /\ (\A i \in DOMAIN stream : stream[i].counts = {}) /\
        (\A i \in DOMAIN answers : ~answers[i].usage)) => DOMAIN known = {}

\* The text of a run is what the assistant said last, however the ends of
\* the steps lie between its texts.
TextIsTheLast ==
  Reports /\ speaker \in {"opencode", "opencode2"} =>
    envelope.text = IF Arrived("text") = {} THEN "none"
                    ELSE stream[CHOOSE i \in Arrived("text") : \A k \in Arrived("text") : k <= i].text

\* What was answered before a limit is handed over, with no session to lose.
PartialAnswersAreKept ==
  child.at = "refused" /\ speaker \in {"opencode", "opencode2"} /\ asked = "none" => fold.text # "words"

\* The warnings of OpenCode and OMP stay few, and OMP says that some are
\* missing.
WarningsAreFew ==
  /\ speaker \in {"opencode", "omp"} => Cardinality(fold.warned) <= MaxWarnings
  /\ speaker = "omp" /\ "omitted" \notin fold.warned =>
       \A i \in Arrived("unknown") : "unknown" \in fold.warned

EventsInv ==
  /\ EventsTypeOK
  /\ EndTurnIsHonest /\ ErrorsAreTold /\ CompletedByItself /\ UsageIsWhole
  /\ TextIsTheLast /\ PartialAnswersAreKept /\ WarningsAreFew
=============================================================================

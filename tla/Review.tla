------------------------------- MODULE Review -------------------------------
(* One review of a change (commands/review.js, mcp/review-core.js): what   *)
(* is acquired for the selectors, what is planned and sent to the model,   *)
(* in one call or shard by shard, what is answered, and how reasoning and  *)
(* verdict share a terminal.  The change of a pull request comes through a *)
(* disposable folder (ReviewRuns).                                         *)
EXTENDS ReviewRuns, SequencesExt

CONSTANTS Request,    \* the reviews that may be asked for
          Path,       \* the names of files and folders
          Below,      \* <<d, f>>: the pathspec d covers the file f as well
          Own,        \* the acquisition of a pull request's review
          SingleMax, ShardMax, MaxShards, TotalMax, \* reviewLimitConfig
          StdinMax,   \* REVIEW_STDIN_MAX_BYTES
          Overhead,   \* METADATA_OVERHEAD_BYTES, the question and the change
          MaxChunks   \* bound: the chunks one answer streams

(* A section of a diff: what tells it from the others of its change, its   *)
(* file, the name before a rename (its own name otherwise), whether it is  *)
(* binary, and its bytes.                                                  *)
Section == [nr : Nat, path : Path, old : Path, binary : BOOLEAN, size : Nat]
Distinct(sections) == \A i, j \in DOMAIN sections : sections[i].nr = sections[j].nr => i = j

ASSUME ReviewAssumption ==
  /\ {SingleMax, ShardMax, MaxShards, TotalMax, StdinMax, Overhead, MaxChunks} \subseteq Nat
  /\ ShardMax <= SingleMax /\ SingleMax <= TotalMax
  /\ Own \in Acquirer

ASSUME RequestAssumption ==
  /\ Request \subseteq [caller : {"cli", "mcp"}, payload : {"single", "shard"}, source : {"stdin", "local", "pr"},
                       selectors : SUBSET Path, change : Seq(Section), stream : BOOLEAN, ticket : Nat]
  /\ \A q \in Request : Distinct(q.change)

VARIABLES review, \* the review: its request, and how far it is
          terminal   \* the terminal it writes to

reviewVars == <<review, terminal>>

(* --- acquisition ------------------------------------------------------ *)
Named(s) == {s.path, s.old}
Size(sections) ==
  LET upto[n \in 0..Len(sections)] == IF n = 0 THEN 0 ELSE upto[n - 1] + sections[n].size
  IN  upto[Len(sections)]

(* The sections of a diff that are in S, in their order.                   *)
Only(sections, S) ==
  LET upto[n \in 0..Len(sections)] ==
        IF n = 0 THEN <<>>
        ELSE IF sections[n] \in S THEN Append(upto[n - 1], sections[n]) ELSE upto[n - 1]
  IN  upto[Len(sections)]

Names(sections, sel) == \E i \in DOMAIN sections : sel \in Named(sections[i])
Unmatched(change, selectors) == {sel \in selectors : ~Names(change, sel)}

(* Both sides of a rename for a selector that names one of them, and the   *)
(* selector itself where the change names it nowhere.                      *)
Expanded(change, selectors) ==
  Unmatched(change, selectors)
  \cup UNION {Named(s) : s \in {x \in ToSet(change) : Named(x) \cap selectors # {}}}

(* git's own part: the sections under some pathspec, and of a rename only  *)
(* the side that is under one; no pathspec is the whole change.            *)
Under(name, specs) == \E d \in specs : d = name \/ <<d, name>> \in Below
SideOf(s, specs) ==
  IF Under(s.path, specs) = Under(s.old, specs) THEN s
  ELSE LET side == IF Under(s.path, specs) THEN s.path ELSE s.old
       IN  [s EXCEPT !.path = side, !.old = side]
SelectedDiff(change, specs) ==
  IF specs = {} THEN change
  ELSE LET hit == Only(change, {s \in ToSet(change) : \E n \in Named(s) : Under(n, specs)})
       IN  [i \in DOMAIN hit |-> SideOf(hit[i], specs)]

Acquired(q) ==
  CASE q.source = "stdin" ->
         IF Size(q.change) > StdinMax THEN "limit" ELSE "ok"
    [] q.source = "local" ->
         IF q.selectors # {} /\ Unmatched(q.change, q.selectors) = q.selectors THEN "no such file" ELSE "ok"
    [] OTHER -> acquirer[Own].result
Diff(q) == IF q.source = "stdin" THEN q.change ELSE SelectedDiff(q.change, Expanded(q.change, q.selectors))

(* An acquisition without a single section: nothing to do, or a failure    *)
(* when files were named or a diff was piped in.                           *)
EmptyDiff(q) == IF q.source # "stdin" /\ q.selectors = {} THEN "no change" ELSE "no such file"

(* --- plans ------------------------------------------------------------ *)
Wanted(sections, selectors) ==
  IF selectors = {} THEN sections ELSE Only(sections, {s \in ToSet(sections) : Named(s) \cap selectors # {}})

(* deriveReviewCoverage: a binary section matches no selector.             *)
Matches(sections, selectors) ==
  {sel \in selectors : \E i \in DOMAIN sections : ~sections[i].binary /\ sel \in Named(sections[i])}
Coverage(sections, selectors) ==
  IF Matches(sections, selectors) = selectors THEN "complete" ELSE "partial"

SinglePlan(q, sections) ==
  LET wanted == Wanted(sections, q.selectors)
      error == IF Overhead + Size(wanted) > SingleMax THEN "limit"
               ELSE IF q.selectors # {} /\ Matches(wanted, q.selectors) = {} THEN "no such file"
               ELSE IF Overhead + q.ticket + Size(wanted) > SingleMax THEN "limit"
               ELSE "ok"
  IN  [error |-> error, shards |-> <<wanted>>, coverage |-> Coverage(wanted, q.selectors)]

(* Whole files in the order in which they are first seen.                  *)
Files(sections) ==
  LET seen[n \in 0..Len(sections)] ==
        IF n = 0 THEN <<>>
        ELSE IF sections[n].path \in ToSet(seen[n - 1]) THEN seen[n - 1] ELSE Append(seen[n - 1], sections[n].path)
  IN  seen[Len(sections)]
Whole(sections, file) == Only(sections, {s \in ToSet(sections) : s.path = file})

Pack(acc, whole, fixed) ==
  IF acc.error \/ fixed + Size(whole) > ShardMax THEN [acc EXCEPT !.error = TRUE]
  ELSE IF acc.now # <<>> /\ fixed + Size(acc.now \o whole) > ShardMax
       THEN [acc EXCEPT !.shards = Append(@, acc.now), !.now = whole]
       ELSE [acc EXCEPT !.now = @ \o whole]
Packed(sections, fixed) ==
  LET files == Files(sections)
      packed[n \in 0..Len(files)] ==
        IF n = 0 THEN [shards |-> <<>>, now |-> <<>>, error |-> FALSE]
        ELSE Pack(packed[n - 1], Whole(sections, files[n]), fixed)
  IN  packed[Len(files)]

(* Of the linked ticket the command's shards carry a copy each; the tool's *)
(* shards carry none.                                                      *)
Fixed(q) == Overhead + (IF q.caller = "cli" THEN q.ticket ELSE 0)
Weight(q, shard) == Fixed(q) + Size(shard)
Total(q, shards) ==
  LET upto[n \in 0..Len(shards)] == IF n = 0 THEN 0 ELSE upto[n - 1] + Weight(q, shards[n])
  IN  upto[Len(shards)]

(* A bug: the shard that is still being filled at the end is forgotten     *)
(* when others are full.                                                   *)
ShardPlanUnclosed(q, sections) ==
  LET packed == Packed(sections, Fixed(q))
      shards == IF packed.shards # <<>> THEN packed.shards ELSE <<packed.now>>
      over == packed.error \/ Len(shards) > MaxShards \/ Total(q, shards) > TotalMax
  IN  [error |-> IF over THEN "limit" ELSE "ok", shards |-> shards, coverage |-> "none"]

ShardPlan(q, sections) ==
  LET packed == Packed(sections, Fixed(q))
      shards == IF packed.now = <<>> THEN packed.shards ELSE Append(packed.shards, packed.now)
      over == packed.error \/ Len(shards) > MaxShards \/ Total(q, shards) > TotalMax
  IN  [error |-> IF over THEN "limit" ELSE "ok", shards |-> shards, coverage |-> "none"]

PlanFor(q, sections) == IF q.payload = "shard" THEN ShardPlan(q, sections) ELSE SinglePlan(q, sections)

(* --- the review ------------------------------------------------------- *)
NewReview(q) ==
  [at |-> "asked", request |-> q, diff |-> <<>>, plan |-> <<>>, calls |-> <<>>,
   verdicts |-> 0, shown |-> 0, coverage |-> "none", result |-> "none", cancelled |-> FALSE]

Ends(result) == review' = [review EXCEPT !.at = "done", !.result = result]
Sharded == review.request.payload = "shard"
FromMcp == review.request.caller = "mcp"

(* The tool for one review looks at the signal first; the command and the  *)
(* shard tool acquire whatever the signal says.  A shard review of the     *)
(* command refuses to stream, after it has acquired.                       *)
Acquire ==
  LET q == review.request
  IN  /\ review.at = "asked"
      /\ q.source = "pr" => AtRun(Own, "returned")
      /\ IF FromMcp /\ ~Sharded /\ review.cancelled THEN Ends("cancelled")
         ELSE IF Acquired(q) # "ok" THEN Ends(Acquired(q))
         ELSE IF Diff(q) = <<>> THEN Ends(EmptyDiff(q))
         ELSE IF Sharded /\ q.stream THEN Ends("invalid")
         ELSE review' = [review EXCEPT !.at = "acquired", !.diff = Diff(q)]
      /\ UNCHANGED terminal

Plan ==
  LET q == review.request
      plan == PlanFor(q, review.diff)
  IN  /\ review.at = "acquired"
      /\ IF plan.error # "ok" THEN Ends(plan.error)
         ELSE review' = [review EXCEPT !.at = "ready", !.plan = plan.shards, !.coverage = plan.coverage]
      /\ UNCHANGED terminal

(* Before each call the signal and, for a shard, the bounds are looked at  *)
(* afresh; an aborted provider request is refused before it is sent.       *)
Send ==
  LET q == review.request
      shard == review.plan[Len(review.calls) + 1]
      over == Weight(q, shard) > ShardMax \/ Total(q, Append(review.calls, shard)) > TotalMax
  IN  /\ review.at = "ready"
      /\ IF review.cancelled THEN Ends("cancelled")
         ELSE IF Sharded /\ over THEN Ends("limit")
         ELSE review' = [review EXCEPT !.at = "called", !.calls = Append(@, shard)]
      /\ UNCHANGED terminal

SignalAborts ==
  /\ review.at \notin {"done", "told"} /\ ~review.cancelled
  /\ review' = [review EXCEPT !.cancelled = TRUE]
  /\ UNCHANGED terminal

(* --- the terminal of a command ---------------------------------------- *)
(* `line` says what stands on the unfinished line of the terminal, which   *)
(* stdout and stderr share; `joined` which kinds of text began on the      *)
(* unfinished line of another.                                             *)
NewTerminal ==
  [started |-> FALSE, open |-> FALSE, pending |-> FALSE, stdoutOpen |-> FALSE,
   line |-> "empty", joined |-> {}, chunks |-> 0]

Writes(t, what, ends) ==
  [t EXCEPT !.joined = IF t.line \in {"empty", what} THEN @ ELSE @ \cup {what},
            !.line = IF ends THEN "empty" ELSE what]
CloseReasoning(t) == IF t.open THEN [Writes(t, "reasoning", TRUE) EXCEPT !.open = FALSE] ELSE t
TerminatePartial(t) == IF t.stdoutOpen THEN [Writes(t, "verdict", TRUE) EXCEPT !.stdoutOpen = FALSE] ELSE t
FlushPending(t) == IF t.pending THEN [Writes(t, "reasoning", TRUE) EXCEPT !.pending = FALSE] ELSE t
Reasoned(t) ==
  IF t.started THEN [t EXCEPT !.pending = TRUE]
  ELSE [Writes(IF t.open THEN t ELSE Writes(t, "marker", TRUE), "reasoning", FALSE) EXCEPT !.open = TRUE]
Texted(t, ends) ==
  [Writes(IF t.started THEN t ELSE CloseReasoning(t), "verdict", ends) EXCEPT
     !.started = TRUE, !.stdoutOpen = ~ends]

Streams == review.at = "called" /\ ~FromMcp /\ ~Sharded /\ terminal.chunks < MaxChunks
Counted(t) == [t EXCEPT !.chunks = @ + 1]

ReasoningArrives == Streams /\ terminal' = Counted(Reasoned(terminal)) /\ UNCHANGED review
TextArrives ==
  /\ Streams /\ review.request.stream
  /\ \E ends \in BOOLEAN : terminal' = Counted(Texted(terminal, ends))
  /\ UNCHANGED review

(* The warnings of a result are printed, whole lines, as soon as it is     *)
(* there: before the reasoning or the streamed text ends its line.         *)
AfterWarnings(t) == {t, Writes(t, "warning", TRUE)}

Complained(t) == Writes(FlushPending(TerminatePartial(CloseReasoning(t))), "error", TRUE)
Printed(t) == Writes(CloseReasoning(t), "verdict", TRUE)
Finished(t) == Writes(Writes(FlushPending(TerminatePartial(t)), "usage", TRUE), "usage", TRUE)

(* --- answers ---------------------------------------------------------- *)
OnTerminal(t) == terminal' = IF FromMcp \/ Sharded THEN terminal ELSE t

Answers ==
  LET last == Len(review.calls) = Len(review.plan)
  IN  /\ review.at = "called"
      /\ review.request.stream => terminal.started
      /\ review' = [review EXCEPT !.verdicts = @ + 1, !.at = IF last THEN "done" ELSE "ready",
                                  !.result = IF last THEN "ok" ELSE @]
      /\ \E t \in AfterWarnings(terminal) :
           OnTerminal(IF review.request.stream THEN Finished(t) ELSE Printed(t))

Refuses ==
  /\ review.at = "called"
  /\ \E result \in {"empty", "provider"} \cup (IF review.cancelled THEN {"cancelled"} ELSE {}) :
       /\ Ends(result)
       /\ \E t \in IF result = "empty" THEN AfterWarnings(terminal) ELSE {terminal} : OnTerminal(Complained(t))

(* The command prints the verdicts of the shards before the one that       *)
(* failed; the tool answers with the failure alone.                        *)
Reports ==
  /\ review.at = "done"
  /\ review' = [review EXCEPT !.at = "told",
       !.shown = IF review.result = "ok" \/ (Sharded /\ ~FromMcp) THEN review.verdicts ELSE 0]
  /\ UNCHANGED terminal

ReviewStep ==
  \/ Acquire \/ Plan \/ Send \/ SignalAborts \/ Answers \/ Refuses \/ Reports
  \/ ReasoningArrives \/ TextArrives

ReviewInit == review \in {NewReview(q) : q \in Request} /\ terminal = NewTerminal

ReviewNext ==
  \/ ReviewStep /\ UNCHANGED runVars
  \/ review.request.source = "pr" /\ AcquireStep(Own) /\ UNCHANGED reviewVars

ReviewSpec == RunsInit /\ ReviewInit /\ [][ReviewNext]_<<reviewVars, runVars>>

(* --- properties ------------------------------------------------------- *)
Reviewed == UNION {ToSet(review.calls[i]) : i \in DOMAIN review.calls}
Approved == review.result = "ok"

(* A review that succeeds has sent every section of the change that its    *)
(* selectors name, by either side of a rename, and none is sent twice:     *)
(* packing, selecting and stopping drop nothing silently.                  *)
NothingIsDropped ==
  /\ Approved =>
       \A s \in ToSet(review.request.change) :
         review.request.selectors = {} \/ Named(s) \cap review.request.selectors # {} => s \in Reviewed
  /\ \A i, j \in DOMAIN review.calls :
       \A k \in DOMAIN review.calls[i], l \in DOMAIN review.calls[j] :
         review.calls[i][k].nr = review.calls[j][l].nr => i = j /\ k = l

(* No file is spread over two calls.                                       *)
FilesStayWhole ==
  \A i, j \in DOMAIN review.calls : i # j =>
    \A s \in ToSet(review.calls[i]), t \in ToSet(review.calls[j]) : s.path # t.path

(* Each call keeps within its bound, with everything it carries, and all   *)
(* calls together within the total.                                        *)
CallsAreBounded ==
  /\ \A i \in DOMAIN review.calls :
       IF Sharded THEN Weight(review.request, review.calls[i]) <= ShardMax
       ELSE Overhead + review.request.ticket + Size(review.calls[i]) <= SingleMax
  /\ Sharded => Total(review.request, review.calls) <= TotalMax

(* One review of named files never approves a text none of them is in, and *)
(* calls its coverage complete only when each of them was in it.           *)
NoVerdictOverNothing ==
  Approved /\ ~Sharded =>
    LET found == {sel \in review.request.selectors : \E s \in Reviewed : ~s.binary /\ sel \in Named(s)}
    IN  /\ review.request.selectors # {} => found # {}
        /\ review.coverage = "complete" => found = review.request.selectors

(* The first call that brings no verdict is the last; success means that   *)
(* every planned call brought one.                                         *)
FailureEndsTheReview ==
  /\ Len(review.calls) - review.verdicts \in {0, 1}
  /\ review.at = "ready" => review.verdicts = Len(review.calls)
  /\ Approved => review.verdicts = Len(review.plan) /\ review.calls = review.plan
  /\ review.shown <= review.verdicts

(* On a terminal the verdict, the reasoning, an error and the usage each   *)
(* begin a line of their own, in whatever order their chunks arrive.  Only *)
(* a warning of the model's result may begin on the line of another: it is *)
(* printed before that line is ended.                                      *)
LinesAreKeptApart == terminal.joined \subseteq {"warning"}

(* Where a review stands and what there is by then: no outcome before its  *)
(* end, no call that was not planned, no verdict without its call.         *)
ReviewTypeOK ==
  /\ review.at \in {"asked", "acquired", "ready", "called", "done", "told"}
  /\ review.result = "none" <=> review.at \in {"asked", "acquired", "ready", "called"}
  /\ review.coverage \in {"none", "complete", "partial"}
  /\ IsPrefix(review.calls, review.plan)
  /\ review.verdicts <= Len(review.calls)
  /\ terminal.line \in {"empty", "marker", "reasoning", "verdict", "error", "usage"}
  /\ terminal.chunks \in 0..MaxChunks

(* What a review answers is what was asked: see each part.                 *)
ReviewInv ==
  /\ ReviewTypeOK /\ NothingIsDropped /\ FilesStayWhole /\ CallsAreBounded
  /\ NoVerdictOverNothing /\ FailureEndsTheReview /\ LinesAreKeptApart
=============================================================================

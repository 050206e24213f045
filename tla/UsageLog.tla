------------------------------ MODULE UsageLog ------------------------------
(***************************************************************************)
(* What a provider call cost and where that is written: the folding of the *)
(* steps an engine reports, the normalisation of an answer's counts, the   *)
(* estimate (src/src/usage-schema.js, src/src/usage.js) and the log that   *)
(* several processes append to and rotate, which `triss usage` sums up.    *)
(* A rate is one unit a token; what was really spent is kept beside what   *)
(* was reported, to compare the two.  No value is Unknown, never zero.     *)
(***************************************************************************)
EXTENDS Naturals, Sequences, FiniteSets

CONSTANTS Caller, Unknown, NoLog,
          Spending,     \* what one step or answer may cost: Class -> Nat
          Showings,     \* which of the counts a report may hold
          MaxSteps,     \* bound: steps of one engine run
          Cap,          \* records at which the log is rotated
          MaxRecords

InputClass == {"uncached", "read", "write"}
OutputClass == {"visible", "reasoning"}
Class == InputClass \cup OutputClass
Field == Class \cup {"input", "output", "total", "combined"}

Source == {"api", "opencode", "crush", "flat"}
Plan == {"listed", "override", "override with write", "subscription", "free", "unpriced"}

TokenCount == Nat \cup {Unknown}
UsageRecord ==
  [id : Nat, version : {1, 2}, plan : Plan, spent : [Class -> Nat], tokens : [Field -> TokenCount],
   cost : [total : TokenCount, from : {"engine", "plan", "free", "estimated", "unknown"}]]

ASSUME UsageAssumption ==
  /\ Cap \in Nat /\ Spending \subseteq [Class -> Nat]
  /\ Unknown \notin Nat /\ NoLog \notin Seq(UsageRecord)

VARIABLES
  call,      \* caller -> its call in hand
  active, archive,   \* the log and its one predecessor
  appended,  \* history: everything written since the last reset
  crossed    \* history: a rename that another rename had overtaken

usageVars == <<call, active, archive, appended, crossed>>

Blank0 == [f \in Field |-> Unknown]
Known(v) == v # Unknown
OrZero(v) == IF v = Unknown THEN 0 ELSE v
SumOf(spent, S) ==
  LET of(c) == IF c \in S THEN spent[c] ELSE 0
  IN of("uncached") + of("read") + of("write") + of("visible") + of("reasoning")
SumKnown(tokens, S) == SumOf([c \in Class |-> OrZero(tokens[c])], S)
SumTo(value, n) ==
  LET upTo[k \in 0..n] == IF k = 0 THEN 0 ELSE upTo[k - 1] + value[k]
  IN upTo[n]

-----------------------------------------------------------------------------
(* foldOpencodeStep, finalizeOpencodeUsage: per class a sum and the number *)
(* of steps that reported it.                                              *)

EmptyFold == [sum |-> [c \in Class |-> 0], reported |-> [c \in Class |-> 0], steps |-> 0,
              total |-> 0, totals |-> 0]

\* A count that is no safe natural number is a broken report: unknown.
Folded(acc, spent, shown) ==
  [sum |-> [c \in Class |-> acc.sum[c] + IF c \in shown THEN spent[c] ELSE 0],
   reported |-> [c \in Class |-> acc.reported[c] + IF c \in shown THEN 1 ELSE 0],
   steps |-> acc.steps + 1,
   total |-> acc.total + IF "total" \in shown THEN SumOf(spent, Class) ELSE 0,
   totals |-> acc.totals + IF "total" \in shown THEN 1 ELSE 0]

\* A bug: a class some step reported counts as covered.
SomeStep(acc, S) == acc.steps > 0 /\ \A c \in S : acc.reported[c] > 0

EveryStep(acc, S) == acc.steps > 0 /\ \A c \in S : acc.reported[c] = acc.steps

SideTotal(acc, S) == IF EveryStep(acc, S) THEN SumOf(acc.sum, S) ELSE Unknown
OpencodeTokens(acc) ==
  LET input == SideTotal(acc, InputClass)
      output == SideTotal(acc, OutputClass)
      total == IF acc.steps > 0 /\ acc.totals = acc.steps THEN acc.total
               ELSE IF Known(input) /\ Known(output) THEN input + output ELSE Unknown
  IN [f \in Field |->
        CASE f \in Class -> IF acc.reported[f] > 0 THEN acc.sum[f] ELSE Unknown
          [] f = "input" -> input [] f = "output" -> output
          [] f = "total" -> total [] OTHER -> Unknown]

-----------------------------------------------------------------------------
(* normalizeApiUsage.  A direct provider bills no write of its cache; what *)
(* it left out of the split is derived when that does not go below zero.   *)

Shown(spent, shown, f, value) == IF f \in shown THEN value ELSE Unknown
ApiTokens(nested, spent, shown) ==
  LET input == Shown(spent, shown, "input", SumOf(spent, InputClass))
      output == Shown(spent, shown, "output", SumOf(spent, OutputClass))
      read == Shown(spent, shown, "read", spent["read"])
      reasoning == IF nested THEN Unknown ELSE Shown(spent, shown, "reasoning", spent["reasoning"])
  IN [f \in Field |->
        CASE f = "input" -> input [] f = "output" -> output [] f = "read" -> read
          [] f = "total" -> Shown(spent, shown, "total", SumOf(spent, Class))
          [] f = "uncached" ->
               IF ~nested THEN Shown(spent, shown, "uncached", spent["uncached"])
               ELSE IF Known(input) /\ Known(read) THEN input - read ELSE Unknown
          [] f = "reasoning" -> reasoning
          [] f = "visible" -> IF Known(output) /\ Known(reasoning) THEN output - reasoning ELSE Unknown
          [] OTHER -> Unknown]

\* normalizeCrushUsage: one combined count, and the engine's own charge.
CrushTokens(spent, shown) ==
  [f \in Field |-> IF f \in {"combined", "total"} /\ "total" \in shown THEN SumOf(spent, Class) ELSE Unknown]

\* reconcileTokenSide
SideClass(side) == IF side = "input" THEN InputClass ELSE OutputClass
SideState(tokens, side) ==
  LET S == SideClass(side)
      required == S \ {"write"}
      sum == SumKnown(tokens, S)
  IN IF Known(tokens[side]) /\ \A c \in required : Known(tokens[c])
     THEN IF sum = tokens[side] THEN "reconciled" ELSE "inconsistent"
     ELSE IF \E c \in S : Known(tokens[c]) THEN "partial" ELSE "unavailable"

-----------------------------------------------------------------------------
(* estimateCanonicalCost                                                   *)

HasRate(plan, c) ==
  plan # "unpriced" /\ (c = "write" => plan = "override with write")

\* The atomics must add up to a known side, or be all there; an engine's sums need the side.
InputCovered(source, tokens) ==
  IF Known(tokens["input"]) THEN SumKnown(tokens, InputClass) = tokens["input"]
  ELSE source # "opencode" /\ \A c \in InputClass : Known(tokens[c])

Covered(source, plan, tokens) ==
  /\ InputCovered(source, tokens) /\ Known(tokens["output"])
  /\ \A c \in InputClass : OrZero(tokens[c]) # 0 => HasRate(plan, c)

\* The charge, where it comes from, and whether it is complete.
Estimate(source, plan, tokens, charge) ==
  IF source = "crush" /\ Known(charge) THEN [total |-> charge, from |-> "engine"]
  ELSE IF plan = "subscription" THEN [total |-> 0, from |-> "plan"]
  ELSE IF plan = "free" THEN [total |-> 0, from |-> "free"]
  ELSE IF plan # "unpriced" /\ Covered(source, plan, tokens)
       THEN [total |-> SumKnown(tokens, InputClass) + tokens["output"], from |-> "estimated"]
  ELSE [total |-> Unknown, from |-> "unknown"]

\* A v1 record keeps its flat counts; what it was estimated at is no total of the new kind.
FlatRecord(plan, spent) ==
  [id |-> 0, version |-> 1, plan |-> plan, spent |-> spent,
   tokens |-> [Blank0 EXCEPT !["input"] = SumOf(spent, InputClass), !["read"] = spent["read"],
                             !["output"] = SumOf(spent, OutputClass), !["total"] = SumOf(spent, Class)],
   cost |-> IF plan = "subscription" THEN [total |-> 0, from |-> "plan"]
            ELSE [total |-> Unknown, from |-> "unknown"]]

-----------------------------------------------------------------------------

NoSpending == [c \in Class |-> 0]
NoCall == [at |-> "idle", source |-> "api", spent |-> NoSpending, acc |-> EmptyFold, tokens |-> Blank0,
           charge |-> Unknown, record |-> Unknown, stale |-> FALSE]
UsageInit ==
  /\ call = [k \in Caller |-> NoCall]
  /\ active = NoLog /\ archive = NoLog
  /\ appended = <<>> /\ crossed = FALSE

LogStays == UNCHANGED <<active, archive, appended, crossed>>
CallAt(k, place) == call[k].at = place
CallGoes(k, place) == call' = [call EXCEPT ![k].at = place]
Plus(a, b) == [c \in Class |-> a[c] + b[c]]

StartCall(k) ==
  /\ CallAt(k, "idle") /\ Len(appended) < MaxRecords
  /\ \E source \in Source :
       call' = [call EXCEPT ![k].at = IF source = "opencode" THEN "steps" ELSE "answer", ![k].source = source]
  /\ LogStays

FoldStep(k) ==
  /\ CallAt(k, "steps") /\ call[k].acc.steps < MaxSteps
  /\ \E spent \in Spending, shown \in Showings :
       call' = [call EXCEPT ![k].spent = Plus(@, spent), ![k].acc = Folded(@, spent, shown)]
  /\ LogStays

FinishSteps(k) ==
  /\ CallAt(k, "steps")
  /\ call' = [call EXCEPT ![k].at = "log", ![k].tokens = OpencodeTokens(call[k].acc)]
  /\ LogStays

\* A direct answer has one report; one of a provider whose cached count is nested, or not.
ApiAnswer(k) ==
  /\ CallAt(k, "answer") /\ call[k].source = "api"
  /\ \E spent \in Spending, shown \in Showings, nested \in BOOLEAN :
       /\ spent["write"] = 0
       /\ call' = [call EXCEPT ![k].at = "log", ![k].spent = spent,
                               ![k].tokens = ApiTokens(nested, spent, shown)]
  /\ LogStays

AnswerCrush(k) ==
  /\ CallAt(k, "answer") /\ call[k].source = "crush"
  /\ \E spent \in Spending, shown \in Showings, charged \in BOOLEAN :
       call' = [call EXCEPT ![k].at = "log", ![k].spent = spent, ![k].tokens = CrushTokens(spent, shown),
                            ![k].charge = IF charged THEN SumOf(spent, Class) ELSE Unknown]
  /\ LogStays

AnswerFlat(k) ==
  /\ CallAt(k, "answer") /\ call[k].source = "flat"
  /\ \E spent \in Spending : spent["write"] = 0 /\ call' = [call EXCEPT ![k].at = "log", ![k].spent = spent]
  /\ LogStays

RecordOf(c, plan) ==
  IF c.source = "flat" THEN FlatRecord(plan, c.spent)
  ELSE [id |-> 0, version |-> 2, plan |-> plan, spent |-> c.spent, tokens |-> c.tokens,
        cost |-> Estimate(c.source, plan, c.tokens, c.charge)]

\* The plan is that of the model.  maybeRotate reads the size here and acts on it in the next step.
StatLog(k) ==
  /\ CallAt(k, "log")
  /\ \E plan \in Plan :
       /\ call[k].source = "crush" => plan = "unpriced"
       /\ call' = [call EXCEPT ![k] = [NoCall EXCEPT
            !.source = call[k].source, !.record = RecordOf(call[k], plan),
            !.at = IF active # NoLog /\ Len(active) >= Cap THEN "rotate" ELSE "append"]]
  /\ LogStays

\* The log may be switched off: nothing is written.
SkipLog(k) ==
  /\ CallAt(k, "log") /\ call' = [call EXCEPT ![k] = NoCall] /\ LogStays

\* A bug: what is renamed is not moved but emptied.
RotateByClearing(k) ==
  /\ CallAt(k, "rotate") /\ CallGoes(k, "append")
  /\ active' = NoLog
  /\ UNCHANGED <<archive, appended, crossed>>

\* A rename that fails is swallowed.
RotateLog(k) ==
  /\ CallAt(k, "rotate")
  /\ IF active = NoLog THEN CallGoes(k, "append") /\ LogStays
     ELSE /\ archive' = active /\ active' = NoLog
          /\ call' = [j \in Caller |-> IF j = k THEN [call[k] EXCEPT !.at = "append"]
                                       ELSE [call[j] EXCEPT !.stale = @ \/ call[j].at = "rotate"]]
          /\ crossed' = (crossed \/ call[k].stale)
          /\ UNCHANGED appended

\* The call goes on when the append fails.
AppendRecord(k) ==
  /\ CallAt(k, "append")
  /\ call' = [call EXCEPT ![k] = NoCall]
  /\ \/ LogStays
     \/ LET line == [call[k].record EXCEPT !.id = Len(appended) + 1] IN
        /\ active' = Append(IF active = NoLog THEN <<>> ELSE active, line)
        /\ appended' = Append(appended, line)
        /\ UNCHANGED <<archive, crossed>>

\* triss usage --reset empties the log and leaves its predecessor.
ResetLog ==
  /\ active # NoLog
  /\ active' = <<>> /\ appended' = <<>>
  /\ call' = [k \in Caller |-> [call[k] EXCEPT !.stale = @ \/ call[k].at = "rotate"]]
  /\ UNCHANGED <<archive, crossed>>

CallStep(k) ==
  \/ StartCall(k) \/ FoldStep(k) \/ FinishSteps(k) \/ ApiAnswer(k) \/ AnswerCrush(k) \/ AnswerFlat(k)
  \/ StatLog(k) \/ SkipLog(k) \/ RotateLog(k) \/ AppendRecord(k)

UsageNext == ResetLog \/ \E k \in Caller : CallStep(k)
UsageSpec == UsageInit /\ [][UsageNext]_usageVars

-----------------------------------------------------------------------------
(* summarize: per field a sum with its coverage, and the cost likewise.    *)

Records(log) == IF log = NoLog THEN <<>> ELSE log
FieldSummary(log, f) ==
  LET known == {n \in DOMAIN log : Known(log[n].tokens[f])}
  IN [sum |-> SumTo([n \in DOMAIN log |-> OrZero(log[n].tokens[f])], Len(log)),
      known |-> Cardinality(known), unknown |-> Len(log) - Cardinality(known)]
CostSummary(log) ==
  LET known == {n \in DOMAIN log : Known(log[n].cost.total)}
  IN [sum |-> SumTo([n \in DOMAIN log |-> OrZero(log[n].cost.total)], Len(log)),
      known |-> Cardinality(known), unknown |-> Len(log) - Cardinality(known)]
SideSummary(log, side, state) == Cardinality({n \in DOMAIN log : SideState(log[n].tokens, side) = state})

-----------------------------------------------------------------------------
CallPlace == {"idle", "steps", "answer", "log", "rotate", "append"}
UsageTypeOK ==
  /\ \A k \in Caller : call[k].at \in CallPlace /\ call[k].source \in Source
  /\ \A k \in Caller, f \in Field : call[k].tokens[f] \in Nat \cup {Unknown}
  /\ crossed \in BOOLEAN

(* What a call is said to cost is what it cost: an estimate is complete    *)
(* only when every class that was billed was counted and has a rate,       *)
(* whatever part of the counts a provider or a step of an engine left out. *)
Due(spent, from) == IF from \in {"plan", "free"} THEN 0 ELSE SumOf(spent, Class)
WholeCost(r) == Known(r.cost.total) => r.cost.total = Due(r.spent, r.cost.from)
ACostIsTheWholeCost == \A n \in DOMAIN appended : WholeCost(appended[n])

(* A count is what was spent, or less where only some steps reported it,   *)
(* and a side's or the call's total is never less.                         *)
HonestCounts(t, spent) ==
  /\ \A c \in Class : Known(t[c]) => t[c] <= spent[c]
  /\ Known(t["input"]) => t["input"] = SumOf(spent, InputClass)
  /\ Known(t["output"]) => t["output"] = SumOf(spent, OutputClass)
  /\ Known(t["total"]) => t["total"] = SumOf(spent, Class)
CountsAreHonest == \A n \in DOMAIN appended : HonestCounts(appended[n].tokens, appended[n].spent)

(* A report whose cost is unknown for no call gives what all of them cost, *)
(* and a side it splits is split into parts that add up to it.             *)
ReportsSayWhatIsMissing ==
  LET log == Records(active)
  IN /\ CostSummary(log).unknown = 0 =>
          CostSummary(log).sum = SumTo([n \in DOMAIN log |-> Due(log[n].spent, log[n].cost.from)], Len(log))
     /\ \A side \in {"input", "output"} :
          SideSummary(log, side, "reconciled") = Len(log) =>
            FieldSummary(log, side).unknown = 0
            /\ FieldSummary(log, side).sum = SumOf([c \in Class |-> FieldSummary(log, c).sum], SideClass(side))

(* The most recent Cap records that were appended are in the log or in its *)
(* predecessor.                                                            *)
Recent == IF Len(appended) <= Cap THEN {appended[n] : n \in DOMAIN appended}
          ELSE {appended[n] : n \in (Len(appended) - Cap + 1)..Len(appended)}
InLogs == {Records(active)[n] : n \in DOMAIN Records(active)}
          \cup {Records(archive)[n] : n \in DOMAIN Records(archive)}
RecentHistoryIsKept == Recent \subseteq InLogs

(* Unless two processes rotated on the same reading of the size.           *)
RotationKeepsRecent == crossed \/ RecentHistoryIsKept

UsageInv ==
  /\ UsageTypeOK /\ ACostIsTheWholeCost /\ CountsAreHonest
  /\ ReportsSayWhatIsMissing /\ RotationKeepsRecent
=============================================================================

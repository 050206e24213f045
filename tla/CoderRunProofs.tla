--------------------------- MODULE CoderRunProofs ---------------------------
(***************************************************************************)
(* What one run of the coder gives back, for every set of runs, choice of  *)
(* engines and number of proxies, and what it is reported to have been,    *)
(* for whatever its engine prints.                                         *)
(*                                                                         *)
(* RunInv speaks of runs that are over; it holds because of what is still  *)
(* due while a run unwinds: everything it holds is named by a step it has  *)
(* not taken yet.  The exits at which that fails are the ones              *)
(* EveryExitSettles names, and no other.                                   *)
(*                                                                         *)
(* EventsInv speaks of reports; it holds because of what the summary of    *)
(* the lines says of all the lines so far.                                 *)
(***************************************************************************)
EXTENDS CoderRun, EngineEvents, FiniteSetTheorems, WellFoundedInduction, TLAPS

-----------------------------------------------------------------------------
(* The rows of the fold of an engine's lines                               *)

NativeSession == Thread \cup {Nobody}
Warning == {"garbage", "unknown", "error", "session", "not terminal", "omitted"}
UsageRow == [steps : Nat, reported : [Class -> Nat]]
FoldRow ==
  [parsed : BOOLEAN, thread : NativeSession, text : Words, usage : UsageRow, tools : Nat, warned : SUBSET Warning,
   limited : BOOLEAN, failed : BOOLEAN, seen : BOOLEAN, ended : BOOLEAN, stopped : BOOLEAN, streamed : BOOLEAN,
   reason : Reason, thrown : BOOLEAN]
Cause == {"none", "deadline", "caller_abort", "host_signal", "provider_rate_limit", "output_limit"}
ChildRow ==
  [at : {"running", "closed", "reported", "refused", "crashed"}, cause : Cause, timedOut : BOOLEAN, big : BOOLEAN,
   code : 0..1, signal : BOOLEAN]

\* What a line that carries neither words, counts nor errors leaves alone.
SaysAlike(f, g) ==
  /\ g.text = f.text /\ g.usage = f.usage /\ g.limited = f.limited /\ g.failed = f.failed /\ g.seen = f.seen
  /\ g.ended = f.ended /\ g.stopped = f.stopped /\ g.streamed = f.streamed /\ g.thrown = f.thrown

LEMMA NewFoldRow == NewFold \in FoldRow /\ \A c \in Class : NewFold.usage.reported[c] = 0
<1>1. NewUsage \in UsageRow /\ \A c \in Class : NewUsage.reported[c] = 0
  BY DEF NewUsage, UsageRow
<1>2. NewFold.usage = NewUsage
  BY DEF NewFold
<1>3. NewFold \in FoldRow
  <2>1. Nobody \in NativeSession /\ "none" \in Words /\ {} \in SUBSET Warning /\ "none" \in Reason
    BY DEF NativeSession, Words, Reason
  <2> HIDE DEF NewUsage
  <2> QED
    BY <1>1, <2>1 DEF NewFold, FoldRow
<1> QED
  BY <1>1, <1>2, <1>3

LEMMA StepRow ==
  ASSUME NEW u \in UsageRow, NEW counts \in SUBSET Class
  PROVE  /\ FoldOpencodeStep(u, counts) \in UsageRow
         /\ FoldOpencodeStep(u, counts).steps = u.steps + 1
         /\ \A c \in Class : FoldOpencodeStep(u, counts).reported[c] = IF c \in counts THEN u.reported[c] + 1 ELSE u.reported[c]
  BY DEF FoldOpencodeStep, UsageRow

LEMMA FoldParts ==
  ASSUME NEW f \in FoldRow
  PROVE  /\ f.parsed \in BOOLEAN /\ f.thread \in NativeSession /\ f.text \in Words /\ f.usage \in UsageRow /\ f.tools \in Nat
         /\ f.warned \in SUBSET Warning /\ f.limited \in BOOLEAN /\ f.failed \in BOOLEAN /\ f.seen \in BOOLEAN
         /\ f.ended \in BOOLEAN /\ f.stopped \in BOOLEAN /\ f.streamed \in BOOLEAN /\ f.reason \in Reason
         /\ f.thrown \in BOOLEAN
  BY DEF FoldRow

LEMMA LineParts ==
  ASSUME NEW l \in Line
  PROVE  /\ l.kind \in Kind /\ l.thread \in NativeSession /\ l.counts \in SUBSET Class /\ l.usage \in BOOLEAN
         /\ l.text \in Words /\ l.failed \in BOOLEAN /\ l.limited \in BOOLEAN /\ l.stop \in BOOLEAN
         /\ l.final \in BOOLEAN /\ l.messages \in Seq(Message) /\ l.tools \in Nat /\ l.reason \in Reason
  BY DEF Line, LineWith, NativeSession

LEMMA MessagesAreLines == Message \subseteq Line
<1>1. <<>> \in Seq(Message)
  OBVIOUS
<1> DEFINE M == Message
<1>2. M \subseteq LineWith({<<>>})
  BY DEF Message
<1>3. <<>> \in Seq(M)
  BY <1>1
<1> HIDE DEF M
<1>4. M \subseteq LineWith(Seq(M))
  BY <1>2, <1>3 DEF LineWith
<1> QED
  BY <1>4 DEF M, Line

LEMMA HeardRow ==
  ASSUME NEW f \in FoldRow, NEW l \in Line
  PROVE  Heard(f, l) \in FoldRow /\ Heard(f, l).parsed /\ SaysAlike(f, Heard(f, l)) /\ Heard(f, l).warned = f.warned
<1>1. l.thread \in NativeSession
  BY LineParts
<1> QED
  BY <1>1 DEF Heard, SaysAlike, FoldRow

LEMMA WarnedRow ==
  ASSUME NEW f \in FoldRow, NEW w \in SUBSET Warning
  PROVE  LET g == [f EXCEPT !.warned = w] IN
         g \in FoldRow /\ g.parsed = f.parsed /\ SaysAlike(f, g) /\ g.warned = w
  BY DEF SaysAlike, FoldRow

LEMMA WarningsCounted ==
  ASSUME NEW w \in SUBSET Warning, NEW x \in Warning
  PROVE  /\ Cardinality(w) \in Nat /\ w \cup {x} \in SUBSET Warning
         /\ Cardinality(w \cup {x}) = IF x \in w THEN Cardinality(w) ELSE Cardinality(w) + 1
<1>1. IsFiniteSet(Warning)
  <2>1. /\ IsFiniteSet({}) /\ IsFiniteSet({"garbage"}) /\ IsFiniteSet({"unknown"}) /\ IsFiniteSet({"error"})
        /\ IsFiniteSet({"session"}) /\ IsFiniteSet({"not terminal"}) /\ IsFiniteSet({"omitted"})
    BY FS_EmptySet, FS_Singleton
  <2>2. Warning = {"garbage"} \cup ({"unknown"} \cup ({"error"} \cup ({"session"} \cup ({"not terminal"} \cup {"omitted"}))))
    BY DEF Warning
  <2> QED
    BY <2>1, <2>2, FS_Union
<1>2. IsFiniteSet(w)
  BY <1>1, FS_Subset
<1> QED
  BY <1>2, FS_AddElement, FS_CardinalityType

-----------------------------------------------------------------------------
(* What both formats of OpenCode make of a line                            *)

LEMMA BodyRow ==
  ASSUME NEW f \in FoldRow, NEW l \in Line
  PROVE  LET g == FoldBody(f, l) IN
         /\ g \in FoldRow /\ g.parsed = f.parsed /\ g.warned = f.warned /\ g.thrown = f.thrown
         /\ g.text = IF l.kind = "text" THEN l.text ELSE f.text
         /\ g.usage = IF l.kind = "step" THEN FoldOpencodeStep(f.usage, l.counts) ELSE f.usage
         /\ l.kind = "error" => g.failed
         /\ l.kind # "error" => g.failed = f.failed
<1>1. f.usage \in UsageRow /\ l.counts \in SUBSET Class /\ l.text \in Words /\ f.limited \in BOOLEAN /\ l.limited \in BOOLEAN
  BY FoldParts, LineParts
<1> DEFINE u == FoldOpencodeStep(f.usage, l.counts)
           rate == f.limited \/ l.limited
<1>2. u \in UsageRow /\ rate \in BOOLEAN
  BY <1>1, StepRow
<1> HIDE DEF u, rate
<1>3. CASE l.kind = "step"
  <2>1. FoldBody(f, l) = [f EXCEPT !.seen = TRUE, !.usage = u]
    BY <1>3 DEF FoldBody, u
  <2> QED
    BY <1>2, <1>3, <2>1 DEF FoldRow, u
<1>4. CASE l.kind = "text"
  <2>1. FoldBody(f, l) = [f EXCEPT !.text = l.text]
    BY <1>4 DEF FoldBody
  <2> QED
    BY <1>1, <1>4, <2>1 DEF FoldRow
<1>5. CASE l.kind = "error"
  <2>1. FoldBody(f, l) = [f EXCEPT !.failed = TRUE, !.limited = rate]
    BY <1>5 DEF FoldBody, rate
  <2> QED
    BY <1>2, <1>5, <2>1 DEF FoldRow
<1>6. CASE l.kind \notin {"step", "text", "error"}
  <2>1. FoldBody(f, l) = f
    BY <1>6 DEF FoldBody
  <2> QED
    BY <1>6, <2>1
<1> QED
  BY <1>3, <1>4, <1>5, <1>6

LEMMA WarnRow ==
  ASSUME NEW f \in FoldRow, NEW what \in Warning
  PROVE  LET g == Warn(f, what) IN
         /\ g \in FoldRow /\ g.parsed = f.parsed /\ SaysAlike(f, g)
         /\ Cardinality(f.warned) <= MaxWarnings => Cardinality(g.warned) <= MaxWarnings
<1> DEFINE w == f.warned
           more == w \cup {what}
           n == Cardinality(w)
           m == Cardinality(more)
<1>1. w \in SUBSET Warning /\ MaxWarnings \in Nat
  BY FoldParts, EventsAssumption
<1>2. n \in Nat /\ more \in SUBSET Warning /\ m = IF what \in w THEN n ELSE n + 1
  <2> HIDE DEF w
  <2> QED
    BY <1>1, WarningsCounted
<1>3. CASE Cardinality(f.warned) >= MaxWarnings
  <2>1. Warn(f, what) = f
    BY <1>3 DEF Warn
  <2> QED
    BY <2>1 DEF SaysAlike
<1>4. CASE ~(Cardinality(f.warned) >= MaxWarnings)
  <2>1. Warn(f, what) = [f EXCEPT !.warned = more]
    BY <1>4 DEF Warn
  <2> DEFINE g == Warn(f, what)
  <2>2. g \in FoldRow /\ g.parsed = f.parsed /\ SaysAlike(f, g) /\ g.warned = more
    <3> HIDE DEF more
    <3> QED
      BY <1>2, <2>1, WarnedRow
  <2>3. ~(n >= MaxWarnings)
    BY <1>4
  <2>4. Cardinality(g.warned) = m
    BY <2>2
  <2>5. m <= MaxWarnings
    <3> HIDE DEF n, m, w
    <3> QED
      BY <1>1, <1>2, <2>3
  <2> HIDE DEF g, m
  <2>6. Cardinality(g.warned) <= MaxWarnings
    BY <2>4, <2>5
  <2> QED
    BY <2>2, <2>6 DEF g
<1> QED
  BY <1>3, <1>4

LEMMA WarnOpenCode2Row ==
  ASSUME NEW f \in FoldRow, NEW what \in Warning
  PROVE  LET g == WarnOpenCode2(f, what) IN g \in FoldRow /\ g.parsed = f.parsed /\ SaysAlike(f, g)
<1>1. f.warned \cup {what} \in SUBSET Warning
  BY FoldParts
<1> QED
  BY <1>1, WarnedRow DEF WarnOpenCode2

\* What a fold of OpenCode makes of a line.
OpenFolds(f, l, g) ==
  /\ g \in FoldRow
  /\ g.text = IF l.kind = "text" THEN l.text ELSE f.text
  /\ g.usage = IF l.kind = "step" THEN FoldOpencodeStep(f.usage, l.counts) ELSE f.usage
  /\ f.failed \/ l.kind = "error" => g.failed
  /\ l.kind # "garbage" => g.parsed
  /\ f.parsed => g.parsed

LEMMA OpencodeFolds ==
  ASSUME NEW f \in FoldRow, NEW l \in Line, speaker = "opencode"
  PROVE  /\ OpenFolds(f, l, Folded(f, l))
         /\ Cardinality(f.warned) <= MaxWarnings => Cardinality(Folded(f, l).warned) <= MaxWarnings
<1>1. CASE l.kind = "null"
  <2>1. Folded(f, l) = [f EXCEPT !.parsed = TRUE, !.thrown = TRUE]
    BY <1>1 DEF Folded
  <2> QED
    BY <1>1, <2>1 DEF FoldRow, OpenFolds
<1>2. CASE l.kind = "garbage"
  <2>1. Folded(f, l) = Warn(f, "garbage")
    BY <1>2 DEF Folded, FoldEventLine
  <2>2. "garbage" \in Warning
    BY DEF Warning
  <2> QED
    BY <1>2, <2>1, <2>2, WarnRow DEF OpenFolds, SaysAlike
<1> DEFINE h == Heard(f, l)
<1>3. h \in FoldRow /\ h.parsed /\ SaysAlike(f, h) /\ h.warned = f.warned
  BY HeardRow
<1> HIDE DEF h
<1>4. CASE l.kind = "tool"
  <2>1. Folded(f, l) = [h EXCEPT !.tools = h.tools + 1]
    BY <1>4 DEF Folded, FoldEventLine, h
  <2>2. h.tools + 1 \in Nat
    BY <1>3, FoldParts
  <2> QED
    BY <1>3, <1>4, <2>1, <2>2 DEF FoldRow, OpenFolds, SaysAlike
<1> DEFINE b == FoldBody(h, l)
<1>5. /\ b \in FoldRow /\ b.parsed /\ b.warned = f.warned
      /\ b.text = IF l.kind = "text" THEN l.text ELSE f.text
      /\ b.usage = IF l.kind = "step" THEN FoldOpencodeStep(f.usage, l.counts) ELSE f.usage
      /\ f.failed \/ l.kind = "error" => b.failed
  BY <1>3, BodyRow DEF SaysAlike
<1> HIDE DEF b
<1>6. CASE l.kind \in {"unknown", "error"}
  <2>1. Folded(f, l) = Warn(b, l.kind)
    BY <1>6 DEF Folded, FoldEventLine, h, b
  <2>2. l.kind \in Warning
    BY <1>6 DEF Warning
  <2> QED
    BY <1>5, <1>6, <2>1, <2>2, WarnRow DEF OpenFolds, SaysAlike
<1>7. CASE l.kind \notin {"null", "garbage", "tool", "unknown", "error"}
  <2>1. Folded(f, l) = b
    BY <1>7 DEF Folded, FoldEventLine, h, b
  <2> QED
    BY <1>5, <2>1 DEF OpenFolds
<1> QED
  BY <1>1, <1>2, <1>4, <1>6, <1>7

LEMMA OpenCode2Folds ==
  ASSUME NEW f \in FoldRow, NEW l \in Line, speaker = "opencode2"
  PROVE  OpenFolds(f, l, Folded(f, l))
<1>1. CASE l.kind = "null"
  <2>1. Folded(f, l) = [f EXCEPT !.parsed = TRUE, !.thrown = TRUE]
    BY <1>1 DEF Folded
  <2> QED
    BY <1>1, <2>1 DEF FoldRow, OpenFolds
<1>2. CASE l.kind = "garbage"
  <2>1. Folded(f, l) = WarnOpenCode2(f, "garbage")
    BY <1>2 DEF Folded, FoldOpenCode2EventLine
  <2>2. "garbage" \in Warning
    BY DEF Warning
  <2> QED
    BY <1>2, <2>1, <2>2, WarnOpenCode2Row DEF OpenFolds, SaysAlike
<1> DEFINE h == Heard(f, l)
<1>3. h \in FoldRow /\ h.parsed /\ SaysAlike(f, h)
  BY HeardRow
<1> HIDE DEF h
<1> DEFINE b == FoldBody(h, l)
<1>4. /\ b \in FoldRow /\ b.parsed
      /\ b.text = IF l.kind = "text" THEN l.text ELSE f.text
      /\ b.usage = IF l.kind = "step" THEN FoldOpencodeStep(f.usage, l.counts) ELSE f.usage
      /\ f.failed \/ l.kind = "error" => b.failed
  BY <1>3, BodyRow DEF SaysAlike
<1> HIDE DEF b
<1>5. CASE l.kind \in {"unknown", "error"}
  <2>1. Folded(f, l) = WarnOpenCode2(b, l.kind)
    BY <1>5 DEF Folded, FoldOpenCode2EventLine, h, b
  <2>2. l.kind \in Warning
    BY <1>5 DEF Warning
  <2> QED
    BY <1>4, <1>5, <2>1, <2>2, WarnOpenCode2Row DEF OpenFolds, SaysAlike
<1>6. CASE l.kind \notin {"null", "garbage", "unknown", "error"}
  <2>1. Folded(f, l) = b
    BY <1>6 DEF Folded, FoldOpenCode2EventLine, h, b
  <2> QED
    BY <1>4, <2>1 DEF OpenFolds
<1> QED
  BY <1>1, <1>2, <1>5, <1>6

LEMMA OneMore ==
  ASSUME NEW X, NEW s \in Seq(X), NEW l \in X
  PROVE  LET t == Append(s, l) IN
         /\ t \in Seq(X) /\ Len(s) \in Nat /\ Len(t) = Len(s) + 1
         /\ DOMAIN s = 1..Len(s) /\ DOMAIN t = DOMAIN s \cup {Len(s) + 1} /\ Len(s) + 1 \notin DOMAIN s
         /\ t[Len(s) + 1] = l /\ \A i \in DOMAIN s : t[i] = s[i] /\ t[i] \in X /\ i <= Len(s)
<1> DEFINE t == Append(s, l)
<1>1. t \in Seq(X) /\ Len(s) \in Nat /\ Len(t) = Len(s) + 1 /\ DOMAIN s = 1..Len(s) /\ DOMAIN t = 1..Len(t)
      /\ t[Len(s) + 1] = l
  OBVIOUS
<1>2. \A i \in 1..Len(s) : t[i] = s[i] /\ s[i] \in X
  OBVIOUS
<1> HIDE DEF t
<1>3. DOMAIN t = DOMAIN s \cup {Len(s) + 1} /\ Len(s) + 1 \notin DOMAIN s
  BY <1>1
<1> QED
  BY <1>1, <1>2, <1>3 DEF t

LEMMA CountOneMore ==
  ASSUME NEW n \in Nat, NEW A, A \subseteq 1..n
  PROVE  /\ IsFiniteSet(A) /\ Cardinality(A) \in Nat
         /\ Cardinality(A \cup {n + 1}) = Cardinality(A) + 1
<1>1. IsFiniteSet(1..n)
  BY FS_Interval
<1>2. IsFiniteSet(A)
  BY <1>1, FS_Subset
<1>3. n + 1 \notin A
  BY SMT
<1> QED
  BY <1>2, <1>3, FS_AddElement, FS_CardinalityType

UsageSound(u) == u \in UsageRow /\ \A c \in Class : u.reported[c] <= u.steps

LEMMA StepSound ==
  ASSUME NEW u, UsageSound(u), NEW counts \in SUBSET Class
  PROVE  UsageSound(FoldOpencodeStep(u, counts))
<1> DEFINE v == FoldOpencodeStep(u, counts)
<1>1. v \in UsageRow /\ v.steps = u.steps + 1
      /\ \A c \in Class : v.reported[c] = IF c \in counts THEN u.reported[c] + 1 ELSE u.reported[c]
  BY StepRow DEF UsageSound
<1>2. u.steps \in Nat /\ \A c \in Class : u.reported[c] \in Nat /\ u.reported[c] <= u.steps
  BY DEF UsageSound, UsageRow
<1> HIDE DEF v
<1>3. \A c \in Class : v.reported[c] <= v.steps
  BY <1>1, <1>2
<1> QED
  BY <1>1, <1>3 DEF v, UsageSound

\* The lines of one kind.
LinesOf(st, kind) == {i \in DOMAIN st : st[i].kind = kind}

LEMMA LinesOfMore ==
  ASSUME NEW st \in Seq(Line), NEW l \in Line, NEW kind
  PROVE  LET t == Append(st, l) IN
         /\ LinesOf(t, kind) = IF l.kind = kind THEN LinesOf(st, kind) \cup {Len(st) + 1} ELSE LinesOf(st, kind)
         /\ LinesOf(st, kind) \subseteq 1..Len(st) /\ Len(st) \in Nat
<1> DEFINE t == Append(st, l)
<1>1. /\ DOMAIN st = 1..Len(st) /\ DOMAIN t = DOMAIN st \cup {Len(st) + 1} /\ t[Len(st) + 1] = l /\ Len(st) \in Nat
      /\ \A i \in DOMAIN st : t[i] = st[i]
  BY OneMore
<1> HIDE DEF t
<1> QED
  BY <1>1 DEF LinesOf, t

(* What the summary of OpenCode's lines, in either format, tells of them.  *)
ErrorsTold(f, st) == \A i \in DOMAIN st : st[i].kind # "end" /\ (st[i].failed => f.failed)
TextTold(f, st) ==
  /\ ~f.parsed => f.text = "none"
  /\ LinesOf(st, "text") = {} => f.text = "none"
  /\ LinesOf(st, "text") # {} =>
       \E m \in LinesOf(st, "text") : f.text = st[m].text /\ \A k \in LinesOf(st, "text") : k <= m
StepsTold(f, st) ==
  /\ f.usage.steps = Cardinality(LinesOf(st, "step"))
  /\ (\A i \in DOMAIN st : st[i].counts = {}) => \A c \in Class : f.usage.reported[c] = 0
OpenTold(f, st) == ErrorsTold(f, st) /\ TextTold(f, st) /\ StepsTold(f, st)

LEMMA OpenTells ==
  ASSUME NEW f \in FoldRow, NEW st \in Seq(Line), NEW l \in Line, NEW g, OpenFolds(f, l, g),
         OpenTold(f, st), UsageSound(f.usage), l.kind # "end", l.failed => l.kind = "error"
  PROVE  OpenTold(g, Append(st, l)) /\ UsageSound(g.usage)
<1> DEFINE t == Append(st, l)
<1>1. /\ DOMAIN st = 1..Len(st) /\ DOMAIN t = DOMAIN st \cup {Len(st) + 1} /\ t[Len(st) + 1] = l /\ Len(st) \in Nat
      /\ \A i \in DOMAIN st : t[i] = st[i] /\ i <= Len(st)
  BY OneMore
<1>2. \A kind : LinesOf(t, kind) = IF l.kind = kind THEN LinesOf(st, kind) \cup {Len(st) + 1} ELSE LinesOf(st, kind)
  BY LinesOfMore
<1> HIDE DEF t
<1>3. l.counts \in SUBSET Class /\ f.usage \in UsageRow
  BY LineParts, FoldParts
<1>4. UsageSound(g.usage)
  BY <1>3, StepSound DEF OpenFolds
<1>5. ErrorsTold(g, t)
  BY <1>1 DEF OpenTold, ErrorsTold, OpenFolds
<1>6. TextTold(g, t)
  <2>1. CASE l.kind = "text"
    <3>1. g.text = l.text /\ g.parsed
      BY <2>1 DEF OpenFolds
    <3>2. LinesOf(t, "text") = LinesOf(st, "text") \cup {Len(st) + 1}
      BY <1>2, <2>1
    <3>3. \A k \in LinesOf(t, "text") : k <= Len(st) + 1
      BY <1>1, <3>2 DEF LinesOf
    <3>4. \E m \in LinesOf(t, "text") : g.text = t[m].text /\ \A k \in LinesOf(t, "text") : k <= m
      BY <1>1, <3>1, <3>2, <3>3
    <3> QED
      BY <3>1, <3>2, <3>4 DEF TextTold
  <2>2. CASE l.kind # "text"
    <3>1. g.text = f.text /\ (f.parsed => g.parsed)
      BY <2>2 DEF OpenFolds
    <3>2. LinesOf(t, "text") = LinesOf(st, "text")
      BY <1>2, <2>2
    <3>3. \A m \in LinesOf(st, "text") : t[m] = st[m]
      BY <1>1 DEF LinesOf
    <3>4. TextTold(f, st)
      BY DEF OpenTold
    <3> QED
      BY <3>1, <3>2, <3>3, <3>4 DEF TextTold
  <2> QED
    BY <2>1, <2>2
<1>7. StepsTold(g, t)
  <2> DEFINE S == LinesOf(st, "step")
  <2>1. S \subseteq 1..Len(st) /\ Len(st) \in Nat
    BY LinesOfMore
  <2> HIDE DEF S
  <2>2. Cardinality(S \cup {Len(st) + 1}) = Cardinality(S) + 1
    BY <2>1, CountOneMore
  <2>3. f.usage.steps = Cardinality(S)
    BY DEF OpenTold, StepsTold, S
  <2>4. (\A i \in DOMAIN t : t[i].counts = {}) => l.counts = {} /\ \A c \in Class : f.usage.reported[c] = 0
    BY <1>1 DEF OpenTold, StepsTold
  <2>5. CASE l.kind = "step"
    <3> DEFINE v == FoldOpencodeStep(f.usage, l.counts)
    <3>1. v.steps = f.usage.steps + 1
          /\ \A c \in Class : v.reported[c] = IF c \in l.counts THEN f.usage.reported[c] + 1 ELSE f.usage.reported[c]
      BY <1>3, StepRow
    <3> HIDE DEF v
    <3>2. g.usage = v
      BY <2>5 DEF OpenFolds, v
    <3>3. LinesOf(t, "step") = S \cup {Len(st) + 1}
      BY <1>2, <2>5 DEF S
    <3>4. g.usage.steps = Cardinality(LinesOf(t, "step"))
      BY <2>2, <2>3, <3>1, <3>2, <3>3
    <3>5. (\A i \in DOMAIN t : t[i].counts = {}) => \A c \in Class : g.usage.reported[c] = 0
      BY <2>4, <3>1, <3>2
    <3> QED
      BY <3>4, <3>5 DEF StepsTold
  <2>6. CASE l.kind # "step"
    <3>1. g.usage = f.usage
      BY <2>6 DEF OpenFolds
    <3>2. LinesOf(t, "step") = S
      BY <1>2, <2>6 DEF S
    <3> QED
      BY <2>3, <2>4, <3>1, <3>2 DEF StepsTold
  <2> QED
    BY <2>5, <2>6
<1> QED
  BY <1>4, <1>5, <1>6, <1>7 DEF OpenTold, t

-----------------------------------------------------------------------------
(* What OMP's messages add up to                                           *)

\* A set of numbers has a least one.
LEMMA SomeFirst ==
  ASSUME NEW S, S \subseteq Nat, S # {}
  PROVE  \E n \in S : \A k \in S : n <= k
<1> DEFINE R == OpToRel(<, Nat)
<1>1. PICK n \in S : \A k \in S : <<k, n>> \notin R
  <2>1. IsWellFoundedOn(R, Nat)
    BY NatLessThanWellFounded
  <2> HIDE DEF R
  <2> QED
    BY <2>1, WFMin
<1>2. ASSUME NEW k \in S  PROVE n <= k
  <2>1. ~(k < n)
    BY <1>1 DEF OpToRel
  <2>2. k \in Nat /\ n \in Nat
    OBVIOUS
  <2> QED
    BY <2>1, <2>2
<1> QED
  BY <1>2

\* The recursion of FoldAll is of a function that exists.
UpTo(first, messages, f, m) ==
  f = [n \in 0..m |-> IF n = 0 THEN first ELSE FoldAssistantMessage(f[n - 1], messages[n])]

LEMMA SomeUpTo ==
  ASSUME NEW first, NEW messages, NEW m \in Nat
  PROVE  \E f : UpTo(first, messages, f, m)
<1> DEFINE Bad == {k \in 0..m : ~\E f : UpTo(first, messages, f, k)}
<1>1. SUFFICES ASSUME Bad # {}  PROVE FALSE
  <2>1. m \in 0..m
    OBVIOUS
  <2> QED
    BY <1>1, <2>1
<1>2. PICK k \in Bad : \A j \in Bad : k <= j
  <2>1. Bad \subseteq Nat
    OBVIOUS
  <2> HIDE DEF Bad
  <2> QED
    BY <1>1, <2>1, SomeFirst
<1>3. k \in 0..m /\ ~\E f : UpTo(first, messages, f, k)
  BY <1>2
<1>4. CASE k = 0
  <2> DEFINE f == [n \in 0..0 |-> first]
  <2>1. f = [n \in 0..0 |-> IF n = 0 THEN first ELSE FoldAssistantMessage(f[n - 1], messages[n])]
    <3>1. \A n \in 0..0 : n = 0
      OBVIOUS
    <3> QED
      BY <3>1
  <2> QED
    BY <1>3, <1>4, <2>1 DEF UpTo
<1>5. CASE k # 0
  <2>1. k \in Nat /\ k - 1 \in 0..m /\ ~(k <= k - 1)
    BY <1>3, <1>5
  <2>2. k - 1 \notin Bad
    <3> HIDE DEF Bad
    <3> QED
      BY <1>2, <2>1
  <2>3. PICK g : UpTo(first, messages, g, k - 1)
    BY <2>1, <2>2
  <2> DEFINE last == FoldAssistantMessage(g[k - 1], messages[k])
             f == [n \in 0..k |-> IF n = k THEN last ELSE g[n]]
             step(n) == IF n = 0 THEN first ELSE FoldAssistantMessage(f[n - 1], messages[n])
  <2>4. ASSUME NEW n \in 0..k  PROVE f[n] = step(n)
    <3>1. CASE n = k
      <4>1. k - 1 \in 0..k /\ k - 1 # k
        BY <2>1
      <4>2. f[k - 1] = g[k - 1] /\ f[k] = last
        BY <2>1, <4>1
      <4> HIDE DEF f
      <4> QED
        BY <1>5, <3>1, <4>2
    <3>2. CASE n = 0
      <4>1. 0 \in 0..k - 1 /\ n \in 0..k /\ n # k
        BY <1>5, <2>1, <3>2
      <4>2. g[0] = first
        BY <2>3, <4>1 DEF UpTo
      <4> QED
        BY <3>2, <4>1, <4>2
    <3>3. CASE n # 0 /\ n # k
      <4>1. n \in 0..k - 1 /\ n - 1 \in 0..k /\ n - 1 # k
        BY <2>1, <3>3
      <4>2. f[n - 1] = g[n - 1] /\ f[n] = g[n]
        BY <3>3, <4>1
      <4>3. g[n] = FoldAssistantMessage(g[n - 1], messages[n])
        BY <2>3, <3>3, <4>1 DEF UpTo
      <4> HIDE DEF f
      <4> QED
        BY <3>3, <4>2, <4>3
    <3> QED
      BY <3>1, <3>2, <3>3
  <2>5. f = [n \in 0..k |-> step(n)]
    <3>1. f = [n \in 0..k |-> f[n]]
      OBVIOUS
    <3> HIDE DEF f
    <3> QED
      BY <2>4, <3>1
  <2> HIDE DEF f
  <2>6. UpTo(first, messages, f, k)
    BY <2>5 DEF UpTo
  <2> QED
    BY <1>3, <2>6
<1> QED
  BY <1>4, <1>5

LEMMA FoldAllIsUpTo ==
  ASSUME NEW first, NEW messages \in Seq(Message)
  PROVE  \E f : UpTo(first, messages, f, Len(messages)) /\ FoldAll(first, messages) = f[Len(messages)]
<1>1. \E f : UpTo(first, messages, f, Len(messages))
  <2>1. Len(messages) \in Nat
    OBVIOUS
  <2> QED
    BY <2>1, SomeUpTo
<1> QED
  BY <1>1 DEF UpTo, FoldAll

LEMMA AssistantRow ==
  ASSUME NEW f \in FoldRow, NEW m \in Line, UsageSound(f.usage)
  PROVE  LET g == FoldAssistantMessage(f, m) IN
         /\ g \in FoldRow /\ g.parsed = f.parsed /\ g.warned = f.warned /\ g.thrown = f.thrown /\ g.ended = f.ended
         /\ g.streamed = f.streamed /\ UsageSound(g.usage)
         /\ f.failed \/ m.failed => g.failed
         /\ g.stopped => f.stopped \/ m.stop
         /\ g.seen => f.seen \/ m.usage
         /\ \A c \in Class : g.usage.reported[c] = f.usage.reported[c]
                             \/ (c \in m.counts /\ g.usage.reported[c] = f.usage.reported[c] + 1)
<1>1. /\ f.usage \in UsageRow /\ m.counts \in SUBSET Class /\ m.text \in Words /\ f.text \in Words
      /\ {f.failed, m.failed, f.stopped, m.stop, f.seen, m.usage} \subseteq BOOLEAN
  BY FoldParts, LineParts
<1> DEFINE words == IF m.text = "words" THEN m.text ELSE f.text
           stops == IF m.stop \/ m.failed THEN m.stop ELSE f.stopped
           fails == f.failed \/ m.failed
           sees == f.seen \/ m.usage
           u == IF m.usage THEN FoldOpencodeStep(f.usage, m.counts) ELSE f.usage
           g == FoldAssistantMessage(f, m)
<1>2. words \in Words /\ stops \in BOOLEAN /\ fails \in BOOLEAN /\ sees \in BOOLEAN
  BY <1>1
<1>3. u \in UsageRow /\ UsageSound(u)
      /\ \A c \in Class : u.reported[c] = f.usage.reported[c]
                          \/ (c \in m.counts /\ u.reported[c] = f.usage.reported[c] + 1)
  BY <1>1, StepRow, StepSound
<1>4. g = [f EXCEPT !.text = words, !.stopped = stops, !.failed = fails, !.seen = sees, !.usage = u]
  BY DEF FoldAssistantMessage
<1>5. stops => f.stopped \/ m.stop
  BY <1>1
<1> HIDE DEF g, u, words, stops
<1>6. /\ g \in FoldRow /\ g.parsed = f.parsed /\ g.warned = f.warned /\ g.thrown = f.thrown /\ g.ended = f.ended
      /\ g.streamed = f.streamed /\ g.usage = u /\ g.failed = fails /\ g.stopped = stops /\ g.seen = sees
  <2> HIDE DEF fails, sees
  <2> QED
    BY <1>2, <1>3, <1>4 DEF FoldRow
<1> QED
  BY <1>3, <1>5, <1>6 DEF g

Counting(messages, c) == {i \in DOMAIN messages : c \in messages[i].counts}
\* How far the messages before the k-th are summed up.
SummedUp(f, messages, k, g) ==
  /\ g \in FoldRow /\ g.parsed = f.parsed /\ g.warned = f.warned /\ g.thrown = f.thrown /\ g.ended = f.ended
  /\ g.streamed = f.streamed /\ UsageSound(g.usage)
  /\ f.failed => g.failed
  /\ \A i \in 1..k : messages[i].failed => g.failed
  /\ g.seen => f.seen \/ \E i \in 1..k : messages[i].usage
  /\ \A c \in Class : g.usage.reported[c] <= Cardinality({i \in 1..k : c \in messages[i].counts})

LEMMA SummedUpMore ==
  ASSUME NEW f \in FoldRow, NEW messages \in Seq(Message), NEW k \in Nat, k + 1 \in DOMAIN messages, NEW g,
         SummedUp(f, messages, k, g)
  PROVE  SummedUp(f, messages, k + 1, FoldAssistantMessage(g, messages[k + 1]))
<1> DEFINE m == messages[k + 1]
           h == FoldAssistantMessage(g, m)
<1>1. m \in Line
  <2>1. m \in Message
    OBVIOUS
  <2> QED
    BY <2>1, MessagesAreLines
<1>2. g \in FoldRow /\ UsageSound(g.usage)
  BY DEF SummedUp
<1> HIDE DEF m
<1>3. /\ h \in FoldRow /\ h.parsed = g.parsed /\ h.warned = g.warned /\ h.thrown = g.thrown /\ h.ended = g.ended
      /\ h.streamed = g.streamed /\ UsageSound(h.usage)
      /\ (g.failed \/ m.failed => h.failed) /\ (h.seen => g.seen \/ m.usage)
      /\ \A c \in Class : h.usage.reported[c] = g.usage.reported[c]
                          \/ (c \in m.counts /\ h.usage.reported[c] = g.usage.reported[c] + 1)
  BY <1>1, <1>2, AssistantRow
<1> HIDE DEF h
<1>4. 1..(k + 1) = 1..k \cup {k + 1} /\ m = messages[k + 1]
  BY DEF m
<1>5. ASSUME NEW c \in Class
      PROVE  h.usage.reported[c] <= Cardinality({i \in 1..(k + 1) : c \in messages[i].counts})
  <2> DEFINE A == {i \in 1..k : c \in messages[i].counts}
             B == {i \in 1..(k + 1) : c \in messages[i].counts}
  <2>1. B = IF c \in m.counts THEN A \cup {k + 1} ELSE A
    BY <1>4
  <2>2. A \subseteq 1..k
    OBVIOUS
  <2>3. g.usage.reported[c] <= Cardinality(A)
    BY DEF SummedUp
  <2> HIDE DEF A, B
  <2>4. Cardinality(A) \in Nat /\ Cardinality(A \cup {k + 1}) = Cardinality(A) + 1
    BY <2>2, CountOneMore
  <2>5. g.usage.reported[c] \in Nat
    BY <1>2 DEF UsageSound, UsageRow
  <2>6. h.usage.reported[c] <= Cardinality(B)
    <3>1. CASE c \in m.counts
      BY <1>3, <2>1, <2>3, <2>4, <2>5, <3>1
    <3>2. CASE c \notin m.counts
      BY <1>3, <2>1, <2>3, <3>2
    <3> QED
      BY <3>1, <3>2
  <2> QED
    BY <2>6 DEF B
<1>6. /\ \A i \in 1..(k + 1) : messages[i].failed => h.failed
      /\ h.seen => f.seen \/ \E i \in 1..(k + 1) : messages[i].usage
  BY <1>3, <1>4 DEF SummedUp
<1> QED
  BY <1>3, <1>5, <1>6 DEF SummedUp, h, m

\* What all of OMP's messages, counted at the end, add up to.
LEMMA FoldAllSums ==
  ASSUME NEW f \in FoldRow, NEW messages \in Seq(Message), UsageSound(f.usage), \A c \in Class : f.usage.reported[c] = 0
  PROVE  SummedUp(f, messages, Len(messages), FoldAll(f, messages))
<1> DEFINE n == Len(messages)
<1>1. PICK u : UpTo(f, messages, u, n) /\ FoldAll(f, messages) = u[n]
  BY FoldAllIsUpTo
<1>2. n \in Nat /\ DOMAIN messages = 1..n
  OBVIOUS
<1> HIDE DEF n
<1> DEFINE Bad == {k \in 0..n : ~SummedUp(f, messages, k, u[k])}
<1>3. Bad = {}
  <2> SUFFICES ASSUME Bad # {}  PROVE FALSE
    OBVIOUS
  <2>1. PICK k \in Bad : \A j \in Bad : k <= j
    <3>1. Bad \subseteq Nat
      OBVIOUS
    <3> HIDE DEF Bad
    <3> QED
      BY <3>1, SomeFirst
  <2>2. k \in 0..n /\ ~SummedUp(f, messages, k, u[k])
    BY <2>1
  <2>3. CASE k = 0
    <3>1. u[0] = f
      BY <1>1, <1>2 DEF UpTo
    <3>2. \A c \in Class : {i \in 1..0 : c \in messages[i].counts} = {}
      BY SMT
    <3>3. Cardinality({}) = 0
      BY FS_EmptySet
    <3>4. \A i \in 1..0 : FALSE
      BY SMT
    <3>5. SummedUp(f, messages, 0, f)
      BY <3>2, <3>3, <3>4 DEF SummedUp
    <3> QED
      BY <2>2, <2>3, <3>1, <3>5
  <2>4. CASE k # 0
    <3>1. k - 1 \in 0..n /\ k - 1 \in Nat /\ ~(k <= k - 1) /\ k \in 1..n /\ (k - 1) + 1 = k
      BY <1>2, <2>2, <2>4
    <3>2. SummedUp(f, messages, k - 1, u[k - 1])
      <4>1. k - 1 \notin Bad
        <5> HIDE DEF Bad
        <5> QED
          BY <2>1, <3>1
      <4> QED
        BY <3>1, <4>1
    <3>3. u[k] = FoldAssistantMessage(u[k - 1], messages[k])
      BY <1>1, <1>2, <2>4, <3>1 DEF UpTo
    <3>4. SummedUp(f, messages, (k - 1) + 1, FoldAssistantMessage(u[k - 1], messages[(k - 1) + 1]))
      <4> DEFINE j == k - 1
      <4>1. j \in Nat /\ j + 1 \in DOMAIN messages /\ SummedUp(f, messages, j, u[j])
        BY <1>2, <3>1, <3>2
      <4> HIDE DEF j
      <4>2. SummedUp(f, messages, j + 1, FoldAssistantMessage(u[j], messages[j + 1]))
        BY <4>1, SummedUpMore
      <4> QED
        BY <4>2 DEF j
    <3> QED
      BY <2>2, <3>1, <3>3, <3>4
  <2> QED
    BY <2>3, <2>4
<1>4. n \in 0..n
  BY <1>2
<1>5. SummedUp(f, messages, n, u[n])
  BY <1>3, <1>4
<1> QED
  BY <1>1, <1>5 DEF n

-----------------------------------------------------------------------------
(* What OMP's lines tell                                                   *)

WarnSound(w) ==
  /\ Cardinality(w) <= MaxWarnings
  /\ "omitted" \notin w => Cardinality(w) <= MaxWarnings - 1

LEMMA WarnOmpRow ==
  ASSUME NEW f \in FoldRow, NEW what \in Warning
  PROVE  LET g == WarnOmp(f, what) IN
         /\ g \in FoldRow /\ SaysAlike(f, g) /\ f.warned \subseteq g.warned
         /\ "omitted" \notin g.warned => what \in g.warned
         /\ WarnSound(f.warned) => WarnSound(g.warned)
<1> DEFINE w == f.warned
           g == WarnOmp(f, what)
           n == Cardinality(w)
<1>1. w \in SUBSET Warning /\ MaxWarnings \in Nat \ {0} /\ "omitted" \in Warning
  BY FoldParts, EventsAssumption DEF Warning
<1>2. CASE what \in w
  <2>1. g = f
    BY <1>2 DEF WarnOmp
  <2> QED
    BY <1>2, <2>1 DEF SaysAlike
<1>3. CASE what \notin w
  <2> DEFINE x == IF n < MaxWarnings - 1 THEN what ELSE "omitted"
             more == w \cup {x}
             m == Cardinality(more)
  <2>1. x \in Warning
    BY <1>1
  <2>2. g = [f EXCEPT !.warned = more]
    BY <1>3 DEF WarnOmp
  <2>3. n \in Nat /\ more \in SUBSET Warning /\ m = IF x \in w THEN n ELSE n + 1
    <3> HIDE DEF w, x
    <3> QED
      BY <1>1, <2>1, WarningsCounted
  <2>4. g \in FoldRow /\ SaysAlike(f, g) /\ g.warned = more
    <3>1. more \in SUBSET Warning
      BY <2>3
    <3> HIDE DEF more, m, n, x, w, g
    <3> QED
      BY <2>2, <3>1, WarnedRow
  <2>5. f.warned \subseteq g.warned /\ ("omitted" \notin g.warned => what \in g.warned)
    BY <2>4
  <2>6. ASSUME WarnSound(w)  PROVE WarnSound(more)
    <3>1. n <= MaxWarnings /\ ("omitted" \notin w => n <= MaxWarnings - 1)
      BY <2>6 DEF WarnSound
    <3>2. CASE n < MaxWarnings - 1
      <4> HIDE DEF n, m, w
      <4>1. m <= MaxWarnings - 1
        BY <1>1, <2>3, <3>2
      <4> QED
        BY <1>1, <2>3, <4>1 DEF WarnSound, m
    <3>3. CASE ~(n < MaxWarnings - 1)
      <4>1. x = "omitted"
        BY <3>3
      <4>2. "omitted" \in more
        BY <4>1
      <4> HIDE DEF n, m, w, x
      <4>3. m <= MaxWarnings
        BY <1>1, <2>3, <3>1, <4>1
      <4> QED
        BY <4>2, <4>3 DEF WarnSound, m
    <3> QED
      BY <3>2, <3>3
  <2> HIDE DEF g, more
  <2> QED
    BY <2>4, <2>5, <2>6 DEF g
<1> QED
  BY <1>2, <1>3

\* A line of OMP that is neither a message nor an end changes no more than this.
OmpFolds(f, l, g) ==
  /\ g \in FoldRow /\ g.usage = f.usage /\ g.failed = f.failed /\ g.seen = f.seen /\ g.ended = f.ended
  /\ g.stopped = f.stopped /\ g.streamed = f.streamed
  /\ f.warned \subseteq g.warned
  /\ "omitted" \notin g.warned /\ l.kind = "unknown" => "unknown" \in g.warned
  /\ WarnSound(f.warned) => WarnSound(g.warned)

LEMMA OmpLineFolds ==
  ASSUME NEW f \in FoldRow, NEW l \in Line, speaker = "omp", l.kind \notin {"message", "end"}
  PROVE  OmpFolds(f, l, Folded(f, l))
<1> DEFINE p == [f EXCEPT !.parsed = TRUE]
<1>1. p \in FoldRow /\ SaysAlike(f, p) /\ p.warned = f.warned /\ p.tools \in Nat
  BY DEF FoldRow, SaysAlike
<1> HIDE DEF p
<1>2. l.thread \in NativeSession
  BY LineParts
<1>3. ASSUME NEW what \in Warning, l.kind = "unknown" => what = "unknown"
      PROVE  OmpFolds(f, l, WarnOmp(p, what)) /\ (l.kind # "unknown" => OmpFolds(f, l, WarnOmp(f, what)))
  BY <1>1, <1>3, WarnOmpRow DEF OmpFolds, SaysAlike
<1>4. {"garbage", "session", "unknown"} \subseteq Warning
  BY DEF Warning
<1>5. CASE l.kind = "null"
  <2>1. Folded(f, l) = [f EXCEPT !.parsed = TRUE, !.thrown = TRUE]
    BY <1>5 DEF Folded
  <2> QED
    BY <1>5, <2>1 DEF FoldRow, OmpFolds
<1>6. CASE l.kind = "garbage"
  <2>1. Folded(f, l) = WarnOmp(f, "garbage")
    BY <1>6 DEF Folded, FoldOmpEventLine
  <2> QED
    BY <1>3, <1>4, <1>6, <2>1
<1>7. CASE l.kind = "session"
  <2>1. \/ Folded(f, l) = WarnOmp(p, "session")
        \/ Folded(f, l) = [p EXCEPT !.thrown = TRUE]
        \/ Folded(f, l) = [p EXCEPT !.thread = l.thread]
    BY <1>7 DEF Folded, FoldOmpEventLine, p
  <2>2. OmpFolds(f, l, WarnOmp(p, "session"))
    BY <1>3, <1>4, <1>7
  <2>3. OmpFolds(f, l, [p EXCEPT !.thrown = TRUE])
    BY <1>1, <1>7 DEF FoldRow, OmpFolds, SaysAlike
  <2>4. OmpFolds(f, l, [p EXCEPT !.thread = l.thread])
    BY <1>1, <1>2, <1>7 DEF FoldRow, OmpFolds, SaysAlike
  <2> QED
    BY <2>1, <2>2, <2>3, <2>4
<1>8. CASE l.kind = "tool"
  <2>1. Folded(f, l) = [p EXCEPT !.tools = p.tools + 1]
    BY <1>8 DEF Folded, FoldOmpEventLine, p
  <2> QED
    BY <1>1, <1>8, <2>1 DEF FoldRow, OmpFolds, SaysAlike
<1>9. CASE l.kind = "retry"
  <2>1. Folded(f, l) = p
    BY <1>9 DEF Folded, FoldOmpEventLine, p
  <2> QED
    BY <1>1, <1>9, <2>1 DEF OmpFolds, SaysAlike
<1>10. CASE l.kind \notin {"null", "garbage", "session", "tool", "retry"}
  <2>1. Folded(f, l) = WarnOmp(p, "unknown")
    BY <1>10 DEF Folded, FoldOmpEventLine, p
  <2> QED
    BY <1>3, <1>4, <2>1
<1> QED
  BY <1>5, <1>6, <1>7, <1>8, <1>9, <1>10

LEMMA OmpMessageFolds ==
  ASSUME NEW f \in FoldRow, NEW m \in Line, m.kind = "message", speaker = "omp", UsageSound(f.usage)
  PROVE  LET g == Folded(f, m) IN
         /\ g \in FoldRow /\ UsageSound(g.usage) /\ g.warned = f.warned /\ g.ended = f.ended /\ g.streamed
         /\ g.thrown = f.thrown
         /\ f.failed \/ m.failed => g.failed
         /\ g.stopped => f.stopped \/ m.stop
         /\ g.seen => f.seen \/ m.usage
         /\ \A c \in Class : g.usage.reported[c] = f.usage.reported[c]
                             \/ (c \in m.counts /\ g.usage.reported[c] = f.usage.reported[c] + 1)
<1> DEFINE p == [f EXCEPT !.parsed = TRUE]
           a == FoldAssistantMessage(p, m)
<1>1. p \in FoldRow /\ SaysAlike(f, p) /\ p.warned = f.warned
  BY DEF FoldRow, SaysAlike
<1>2. Folded(f, m) = [a EXCEPT !.streamed = TRUE]
  BY DEF Folded, FoldOmpEventLine
<1> HIDE DEF p
<1>3. UsageSound(p.usage)
  BY <1>1 DEF SaysAlike
<1>4. /\ a \in FoldRow /\ a.warned = f.warned /\ a.thrown = f.thrown /\ a.ended = f.ended
      /\ UsageSound(a.usage)
      /\ f.failed \/ m.failed => a.failed
      /\ a.stopped => f.stopped \/ m.stop
      /\ a.seen => f.seen \/ m.usage
      /\ \A c \in Class : a.usage.reported[c] = f.usage.reported[c]
                          \/ (c \in m.counts /\ a.usage.reported[c] = f.usage.reported[c] + 1)
  BY <1>1, <1>3, AssistantRow DEF SaysAlike
<1> HIDE DEF a
<1> DEFINE g == Folded(f, m)
<1>5. /\ g \in FoldRow /\ g.warned = a.warned /\ g.thrown = a.thrown /\ g.ended = a.ended /\ g.streamed
      /\ g.usage = a.usage /\ g.failed = a.failed /\ g.stopped = a.stopped /\ g.seen = a.seen
  BY <1>2, <1>4 DEF FoldRow
<1> HIDE DEF g
<1> QED
  BY <1>4, <1>5 DEF g

\* Messages that were printed are not summed up again at the end.
LEMMA OmpEndFolds ==
  ASSUME NEW f \in FoldRow, NEW l \in Line, l.kind = "end", speaker = "omp", UsageSound(f.usage),
         f.streamed \/ \A c \in Class : f.usage.reported[c] = 0
  PROVE  LET g == Folded(f, l) IN
         /\ g \in FoldRow /\ UsageSound(g.usage) /\ g.streamed = f.streamed /\ g.thrown = f.thrown
         /\ f.warned \subseteq g.warned
         /\ WarnSound(f.warned) => WarnSound(g.warned)
         /\ f.failed \/ (l.failed /\ l.final) => g.failed
         /\ l.final /\ ~f.streamed => \A i \in DOMAIN l.messages : l.messages[i].failed => g.failed
         /\ g.seen => f.seen \/ (~f.streamed /\ \E i \in DOMAIN l.messages : l.messages[i].usage)
         /\ \A c \in Class : \/ g.usage.reported[c] = f.usage.reported[c]
                             \/ ~f.streamed /\ g.usage.reported[c] <= Cardinality(Counting(l.messages, c))
         /\ ~l.final => g.usage = f.usage
<1> DEFINE p == [f EXCEPT !.parsed = TRUE]
           g == Folded(f, l)
<1>1. p \in FoldRow /\ SaysAlike(f, p) /\ p.warned = f.warned
  BY DEF FoldRow, SaysAlike
<1>2. CASE ~l.final
  <2>1. g = WarnOmp(p, "not terminal")
    BY <1>2 DEF Folded, FoldOmpEventLine
  <2>2. "not terminal" \in Warning
    BY DEF Warning
  <2> HIDE DEF p, g
  <2>3. /\ g \in FoldRow /\ SaysAlike(f, g) /\ f.warned \subseteq g.warned
        /\ WarnSound(f.warned) => WarnSound(g.warned)
    BY <1>1, <2>1, <2>2, WarnOmpRow DEF SaysAlike
  <2> QED
    BY <1>2, <2>3 DEF SaysAlike, g
<1>3. CASE l.final
  <2> DEFINE all == IF p.streamed THEN p ELSE FoldAll(p, l.messages)
             fails == all.failed \/ l.failed
  <2>1. g = [all EXCEPT !.ended = TRUE, !.failed = fails]
    BY <1>3 DEF Folded, FoldOmpEventLine
  <2> HIDE DEF p, g
  <2>2. l.messages \in Seq(Message) /\ l.failed \in BOOLEAN
    BY LineParts
  <2>3. DOMAIN l.messages = 1..Len(l.messages)
    BY <2>2
  <2>4. UsageSound(p.usage)
    BY <1>1 DEF SaysAlike
  <2>5. /\ all \in FoldRow /\ UsageSound(all.usage) /\ all.streamed = f.streamed /\ all.thrown = f.thrown
        /\ all.warned = f.warned
        /\ f.failed => all.failed
        /\ ~f.streamed => \A i \in DOMAIN l.messages : l.messages[i].failed => all.failed
        /\ all.seen => f.seen \/ (~f.streamed /\ \E i \in DOMAIN l.messages : l.messages[i].usage)
        /\ \A c \in Class : \/ all.usage.reported[c] = f.usage.reported[c]
                            \/ ~f.streamed /\ all.usage.reported[c] <= Cardinality(Counting(l.messages, c))
    <3>1. CASE p.streamed
      BY <1>1, <2>4, <3>1 DEF SaysAlike
    <3>2. CASE ~p.streamed
      <4>1. \A c \in Class : p.usage.reported[c] = 0
        BY <1>1, <3>2 DEF SaysAlike
      <4>2. all = FoldAll(p, l.messages)
        BY <3>2
      <4> HIDE DEF all
      <4>3. SummedUp(p, l.messages, Len(l.messages), all)
        BY <1>1, <2>2, <2>4, <4>1, <4>2, FoldAllSums
      <4>4. \A c \in Class : {i \in 1..Len(l.messages) : c \in l.messages[i].counts} = Counting(l.messages, c)
        BY <2>3 DEF Counting
      <4> QED
        BY <1>1, <2>3, <3>2, <4>3, <4>4 DEF SummedUp, SaysAlike
    <3> QED
      BY <3>1, <3>2
  <2> HIDE DEF all
  <2>6. fails \in BOOLEAN
    BY <2>2, <2>5, FoldParts
  <2>7. /\ g \in FoldRow /\ g.usage = all.usage /\ g.streamed = all.streamed /\ g.thrown = all.thrown
        /\ g.warned = all.warned /\ g.failed = fails /\ g.seen = all.seen
    <3> HIDE DEF fails
    <3> QED
      BY <2>1, <2>5, <2>6 DEF FoldRow
  <2> QED
    BY <1>3, <2>5, <2>7 DEF g
<1> QED
  BY <1>2, <1>3

(* What the summary of OMP's lines tells of them.                          *)
NoFinalEnd(st) == ~\E i \in DOMAIN st : st[i].kind = "end" /\ st[i].final
OmpErrorsTold(f, st, str) ==
  \A i \in DOMAIN st :
    /\ st[i].failed /\ (st[i].kind = "end" => st[i].final) => f.failed
    /\ st[i].kind = "end" /\ st[i].final /\ ~str =>
         \A k \in DOMAIN st[i].messages : st[i].messages[k].failed => f.failed
OmpEndTold(f, st) ==
  /\ f.ended => LinesOf(st, "end") # {}
  /\ f.stopped => LinesOf(st, "end") # {} \/ \E i \in LinesOf(st, "message") : st[i].stop
OmpUsageTold(f, st, an, str) ==
  /\ f.seen => \E i \in DOMAIN an : an[i].usage
  /\ \A c \in Class : f.usage.reported[c] <= Cardinality(Counting(an, c))
  /\ ~str => ~f.streamed
  /\ ~f.streamed /\ NoFinalEnd(st) => \A c \in Class : f.usage.reported[c] = 0
OmpWarningsTold(f, st) ==
  /\ WarnSound(f.warned)
  /\ "omitted" \notin f.warned /\ LinesOf(st, "unknown") # {} => "unknown" \in f.warned
OmpTold(f, st, an, str) ==
  OmpErrorsTold(f, st, str) /\ OmpEndTold(f, st) /\ OmpUsageTold(f, st, an, str) /\ OmpWarningsTold(f, st)

LEMMA OmpTellsLine ==
  ASSUME NEW f \in FoldRow, NEW st \in Seq(Line), NEW an \in Seq(Message), NEW str \in BOOLEAN,
         NEW l \in Line, l.kind \notin {"message", "end"}, ~l.failed, NEW g, OmpFolds(f, l, g),
         OmpTold(f, st, an, str)
  PROVE  OmpTold(g, Append(st, l), an, str)
<1> DEFINE t == Append(st, l)
<1>1. /\ DOMAIN t = DOMAIN st \cup {Len(st) + 1} /\ t[Len(st) + 1] = l
      /\ \A i \in DOMAIN st : t[i] = st[i]
  BY OneMore
<1>2. \A kind : LinesOf(t, kind) = IF l.kind = kind THEN LinesOf(st, kind) \cup {Len(st) + 1} ELSE LinesOf(st, kind)
  BY LinesOfMore
<1>3. LinesOf(t, "end") = LinesOf(st, "end") /\ LinesOf(t, "message") = LinesOf(st, "message")
      /\ \A i \in LinesOf(st, "message") : i \in DOMAIN st
  BY <1>2 DEF LinesOf
<1>4. NoFinalEnd(t) => NoFinalEnd(st)
  BY <1>1 DEF NoFinalEnd
<1>5. l.kind # "unknown" => LinesOf(t, "unknown") = LinesOf(st, "unknown")
  BY <1>2
<1> HIDE DEF t
<1>6. OmpErrorsTold(g, t, str)
  BY <1>1 DEF OmpTold, OmpErrorsTold, OmpFolds
<1>7. OmpEndTold(g, t)
  BY <1>1, <1>3 DEF OmpTold, OmpEndTold, OmpFolds
<1>8. OmpUsageTold(g, t, an, str)
  BY <1>4 DEF OmpTold, OmpUsageTold, OmpFolds
<1>9. OmpWarningsTold(g, t)
  BY <1>5 DEF OmpTold, OmpWarningsTold, OmpFolds
<1> QED
  BY <1>6, <1>7, <1>8, <1>9 DEF OmpTold, t

LEMMA OneMoreCounts ==
  ASSUME NEW an \in Seq(Message), NEW m \in Message, NEW c
  PROVE  LET n == Cardinality(Counting(an, c))
             k == Cardinality(Counting(Append(an, m), c)) IN
         n \in Nat /\ k = IF c \in m.counts THEN n + 1 ELSE n
<1> DEFINE more == Append(an, m)
           A == Counting(an, c)
<1>1. /\ Len(an) \in Nat /\ DOMAIN an = 1..Len(an) /\ DOMAIN more = DOMAIN an \cup {Len(an) + 1}
      /\ more[Len(an) + 1] = m /\ \A i \in DOMAIN an : more[i] = an[i]
  BY OneMore
<1> HIDE DEF more
<1>2. Counting(more, c) = IF c \in m.counts THEN A \cup {Len(an) + 1} ELSE A
  BY <1>1 DEF Counting
<1>3. A \subseteq 1..Len(an)
  BY <1>1 DEF Counting
<1> HIDE DEF A
<1>4. Cardinality(A) \in Nat /\ Cardinality(A \cup {Len(an) + 1}) = Cardinality(A) + 1
  BY <1>1, <1>3, CountOneMore
<1> QED
  BY <1>2, <1>4 DEF A, more

\* An answer that is kept for the end.
LEMMA OmpTellsAnswer ==
  ASSUME NEW f \in FoldRow, NEW st \in Seq(Line), NEW an \in Seq(Message), NEW str \in BOOLEAN,
         NEW m \in Message, OmpTold(f, st, an, str)
  PROVE  OmpTold(f, st, Append(an, m), str)
<1> DEFINE more == Append(an, m)
<1>1. /\ DOMAIN more = DOMAIN an \cup {Len(an) + 1} /\ \A i \in DOMAIN an : more[i] = an[i]
  BY OneMore
<1>2. ASSUME NEW c \in Class  PROVE f.usage.reported[c] <= Cardinality(Counting(more, c))
  <2> DEFINE n == Cardinality(Counting(an, c))
             k == Cardinality(Counting(more, c))
  <2>1. n \in Nat /\ k = IF c \in m.counts THEN n + 1 ELSE n
    BY OneMoreCounts
  <2>2. f.usage.reported[c] <= n
    BY DEF OmpTold, OmpUsageTold
  <2>3. f.usage.reported[c] \in Nat
    BY DEF FoldRow, UsageRow
  <2> HIDE DEF n, k
  <2>4. f.usage.reported[c] <= k
    BY <2>1, <2>2, <2>3
  <2> QED
    BY <2>4 DEF k
<1> HIDE DEF more
<1>3. OmpUsageTold(f, st, more, str)
  BY <1>1, <1>2 DEF OmpTold, OmpUsageTold
<1> QED
  BY <1>3 DEF OmpTold, more

\* An answer that is printed when it is finished.
LEMMA OmpTellsMessage ==
  ASSUME NEW f \in FoldRow, NEW st \in Seq(Line), NEW an \in Seq(Message), NEW str \in BOOLEAN, str,
         NEW m \in Message, UsageSound(f.usage), speaker = "omp", OmpTold(f, st, an, str)
  PROVE  OmpTold(Folded(f, m), Append(st, m), Append(an, m), str)
<1> DEFINE t == Append(st, m)
           more == Append(an, m)
           g == Folded(f, m)
<1>1. m \in Line /\ m.kind = "message"
  BY MessagesAreLines DEF Message
<1>2. /\ g.warned = f.warned /\ g.ended = f.ended /\ g.streamed /\ (f.failed \/ m.failed => g.failed)
      /\ (g.stopped => f.stopped \/ m.stop) /\ (g.seen => f.seen \/ m.usage)
      /\ \A c \in Class : g.usage.reported[c] = f.usage.reported[c]
                          \/ (c \in m.counts /\ g.usage.reported[c] = f.usage.reported[c] + 1)
  BY <1>1, OmpMessageFolds
<1>3. /\ DOMAIN t = DOMAIN st \cup {Len(st) + 1} /\ t[Len(st) + 1] = m /\ \A i \in DOMAIN st : t[i] = st[i]
  BY <1>1, OneMore
<1>4. /\ DOMAIN more = DOMAIN an \cup {Len(an) + 1} /\ more[Len(an) + 1] = m
      /\ \A i \in DOMAIN an : more[i] = an[i]
  BY OneMore
<1>5. \A kind : LinesOf(t, kind) = IF m.kind = kind THEN LinesOf(st, kind) \cup {Len(st) + 1} ELSE LinesOf(st, kind)
  BY <1>1, LinesOfMore
<1>6. /\ LinesOf(t, "end") = LinesOf(st, "end") /\ LinesOf(t, "unknown") = LinesOf(st, "unknown")
      /\ LinesOf(t, "message") = LinesOf(st, "message") \cup {Len(st) + 1}
      /\ \A i \in LinesOf(st, "message") : i \in DOMAIN st
  BY <1>1, <1>5 DEF LinesOf
<1>7. ASSUME NEW c \in Class  PROVE g.usage.reported[c] <= Cardinality(Counting(more, c))
  <2> DEFINE n == Cardinality(Counting(an, c))
             k == Cardinality(Counting(more, c))
             a == f.usage.reported[c]
             b == g.usage.reported[c]
  <2>1. n \in Nat /\ k = IF c \in m.counts THEN n + 1 ELSE n
    BY OneMoreCounts
  <2>2. a <= n
    BY DEF OmpTold, OmpUsageTold
  <2>3. a \in Nat
    BY DEF FoldRow, UsageRow
  <2>4. b = a \/ (c \in m.counts /\ b = a + 1)
    BY <1>2
  <2> HIDE DEF n, k, a, b
  <2>5. b <= k
    <3>1. CASE c \in m.counts
      BY <2>1, <2>2, <2>3, <2>4, <3>1
    <3>2. CASE c \notin m.counts
      BY <2>1, <2>2, <2>3, <2>4, <3>2
    <3> QED
      BY <3>1, <3>2
  <2> QED
    BY <2>5 DEF k, b
<1> HIDE DEF t, more, g
<1>8. OmpErrorsTold(g, t, str)
  BY <1>2, <1>3 DEF OmpTold, OmpErrorsTold
<1>9. OmpEndTold(g, t)
  BY <1>2, <1>3, <1>6 DEF OmpTold, OmpEndTold
<1>10. OmpUsageTold(g, t, more, str)
  BY <1>2, <1>4, <1>7 DEF OmpTold, OmpUsageTold
<1>11. OmpWarningsTold(g, t)
  BY <1>2, <1>6 DEF OmpTold, OmpWarningsTold
<1> QED
  BY <1>8, <1>9, <1>10, <1>11 DEF OmpTold, t, more, g

\* The end of an attempt, with everything that was answered.
LEMMA OmpTellsEnd ==
  ASSUME NEW f \in FoldRow, NEW st \in Seq(Line), NEW an \in Seq(Message), NEW str \in BOOLEAN,
         NEW l \in Line, l.kind = "end", l.messages = an, UsageSound(f.usage), speaker = "omp",
         NoFinalEnd(st), OmpTold(f, st, an, str)
  PROVE  OmpTold(Folded(f, l), Append(st, l), an, str)
<1> DEFINE t == Append(st, l)
           g == Folded(f, l)
<1>1. f.streamed \/ \A c \in Class : f.usage.reported[c] = 0
  BY DEF OmpTold, OmpUsageTold
<1>2. /\ g.streamed = f.streamed /\ f.warned \subseteq g.warned
      /\ (WarnSound(f.warned) => WarnSound(g.warned))
      /\ (f.failed \/ (l.failed /\ l.final) => g.failed)
      /\ (l.final /\ ~f.streamed => \A i \in DOMAIN an : an[i].failed => g.failed)
      /\ (g.seen => f.seen \/ (~f.streamed /\ \E i \in DOMAIN an : an[i].usage))
      /\ \A c \in Class : \/ g.usage.reported[c] = f.usage.reported[c]
                          \/ ~f.streamed /\ g.usage.reported[c] <= Cardinality(Counting(an, c))
      /\ ~l.final => g.usage = f.usage
  BY <1>1, OmpEndFolds
<1>3. /\ DOMAIN t = DOMAIN st \cup {Len(st) + 1} /\ t[Len(st) + 1] = l /\ \A i \in DOMAIN st : t[i] = st[i]
  BY OneMore
<1>4. \A kind : LinesOf(t, kind) = IF l.kind = kind THEN LinesOf(st, kind) \cup {Len(st) + 1} ELSE LinesOf(st, kind)
  BY LinesOfMore
<1>5. LinesOf(t, "end") # {} /\ LinesOf(t, "unknown") = LinesOf(st, "unknown")
  BY <1>4
<1>6. NoFinalEnd(t) => ~l.final
  BY <1>3 DEF NoFinalEnd
<1> HIDE DEF t, g
<1>7. OmpErrorsTold(g, t, str)
  <2> SUFFICES ASSUME NEW i \in DOMAIN t
               PROVE  /\ t[i].failed /\ (t[i].kind = "end" => t[i].final) => g.failed
                      /\ t[i].kind = "end" /\ t[i].final /\ ~str =>
                           \A k \in DOMAIN t[i].messages : t[i].messages[k].failed => g.failed
    BY DEF OmpErrorsTold
  <2>1. CASE i \in DOMAIN st
    BY <1>2, <1>3, <2>1 DEF OmpTold, OmpErrorsTold
  <2>2. CASE i = Len(st) + 1
    <3>1. t[i] = l
      BY <1>3, <2>2
    <3>2. ~str => ~f.streamed
      BY DEF OmpTold, OmpUsageTold
    <3> QED
      BY <1>2, <3>1, <3>2
  <2> QED
    BY <1>3, <2>1, <2>2
<1>8. OmpEndTold(g, t)
  BY <1>5 DEF OmpEndTold
<1>9. OmpUsageTold(g, t, an, str)
  BY <1>2, <1>6 DEF OmpTold, OmpUsageTold
<1>10. OmpWarningsTold(g, t)
  BY <1>2, <1>5 DEF OmpTold, OmpWarningsTold
<1> QED
  BY <1>7, <1>8, <1>9, <1>10 DEF OmpTold, t, g

-----------------------------------------------------------------------------
(* The run                                                                 *)

EventsTyped ==
  /\ speaker \in Speaker /\ streams \in BOOLEAN /\ asked \in {"none", "unavailable", "admitted"}
  /\ stream \in Seq(Line) /\ answers \in Seq(Message) /\ Len(stream) <= MaxLines /\ Len(answers) <= MaxLines
  /\ fold \in FoldRow /\ UsageSound(fold.usage) /\ child \in ChildRow
  /\ (child.at = "crashed") = fold.thrown

SummaryTells ==
  /\ speaker \in {"opencode", "opencode2"} => OpenTold(fold, stream)
  /\ speaker = "opencode" => Cardinality(fold.warned) <= MaxWarnings
  /\ speaker = "omp" => OmpTold(fold, stream, answers, streams)

\* What only a report says, which nothing comes after.
ReportTells ==
  EndTurnIsHonest /\ ErrorsAreTold /\ CompletedByItself /\ UsageIsWhole /\ TextIsTheLast /\ PartialAnswersAreKept

EventsIInv == EventsTyped /\ SummaryTells /\ ReportTells

LEMMA NothingReported == child.at \in {"running", "closed", "crashed"} => ReportTells
  BY DEF ReportTells, Reports, EndTurnIsHonest, ErrorsAreTold, CompletedByItself, UsageIsWhole, TextIsTheLast,
         PartialAnswersAreKept

LEMMA NothingReportedNext == child'.at \in {"running", "closed", "crashed"} => ReportTells'
  BY DEF ReportTells, Reports, EndTurnIsHonest, ErrorsAreTold, CompletedByItself, UsageIsWhole, TextIsTheLast,
         PartialAnswersAreKept

\* What the last line of Crush makes of the summary.
LEMMA EnvelopeRow ==
  ASSUME NEW l \in Line
  PROVE  LET g == ParseEnvelope(l) IN g \in FoldRow /\ UsageSound(g.usage) /\ ~g.thrown
<1> DEFINE u == FoldOpencodeStep(NewUsage, l.counts)
           g == ParseEnvelope(l)
           sees == l.counts # {}
<1>1. NewFold \in FoldRow /\ NewFold.usage = NewUsage /\ ~NewFold.thrown
  BY NewFoldRow DEF NewFold
<1>2. UsageSound(NewUsage)
  BY DEF UsageSound, NewUsage, UsageRow
<1>3. /\ l.thread \in NativeSession /\ l.text \in Words /\ l.reason \in Reason /\ l.failed \in BOOLEAN
      /\ l.limited \in BOOLEAN /\ l.tools \in Nat /\ l.counts \in SUBSET Class
  BY LineParts
<1>4. UsageSound(u) /\ u \in UsageRow
  BY <1>2, <1>3, StepSound DEF UsageSound
<1>5. CASE l.kind # "envelope"
  BY <1>1, <1>2, <1>5 DEF ParseEnvelope
<1>6. CASE l.kind = "envelope"
  <2>1. g = [NewFold EXCEPT
          !.parsed = TRUE, !.thread = l.thread, !.text = l.text, !.reason = l.reason,
          !.failed = l.failed, !.limited = l.limited, !.tools = l.tools, !.seen = sees, !.usage = u]
    BY <1>6 DEF ParseEnvelope
  <2>2. sees \in BOOLEAN
    OBVIOUS
  <2> HIDE DEF u, g, sees, NewFold
  <2>3. g \in FoldRow /\ g.usage = u /\ g.thrown = NewFold.thrown
    <3> USE DEF FoldRow
    <3> QED
      BY <1>1, <1>3, <1>4, <2>1, <2>2
  <2> QED
    BY <1>1, <1>4, <2>3 DEF g
<1> QED
  BY <1>5, <1>6

LEMMA ChildParts ==
  ASSUME NEW c \in ChildRow
  PROVE  /\ c.at \in {"running", "closed", "reported", "refused", "crashed"} /\ c.cause \in Cause
         /\ c.timedOut \in BOOLEAN /\ c.big \in BOOLEAN /\ c.code \in 0..1 /\ c.signal \in BOOLEAN
  BY DEF ChildRow

LEMMA CauseNext ==
  ASSUME child \in ChildRow, NEW cause \in Cause
  PROVE  First1(cause) \in Cause
  BY ChildParts DEF First1

\* What a line does to the process.
LEMMA Fed ==
  ASSUME EventsTyped, Room, NEW l \in Line, FeedLine(l), fold' \in FoldRow
  PROVE  /\ child' \in ChildRow /\ child'.at \in {"running", "crashed"} /\ (child'.at = "crashed") = fold'.thrown
         /\ stream' \in Seq(Line) /\ Len(stream') = Len(stream) + 1
<1>1. child \in ChildRow /\ child.at = "running" /\ stream \in Seq(Line)
  BY DEF EventsTyped, Room
<1>2. fold'.thrown \in BOOLEAN
  BY DEF FoldRow
<1>3. First1("provider_rate_limit") \in Cause /\ child.cause \in Cause
  <2>1. "provider_rate_limit" \in Cause
    BY DEF Cause
  <2> QED
    BY <1>1, <2>1, CauseNext, ChildParts
<1> DEFINE place == IF fold'.thrown THEN "crashed" ELSE child.at
           why == IF speaker # "crush" /\ fold'.limited /\ ~fold.limited
                  THEN First1("provider_rate_limit") ELSE child.cause
<1>4. child' = [child EXCEPT !.at = place, !.cause = why]
  BY DEF FeedLine
<1>5. place \in {"running", "crashed"} /\ (place = "crashed") = fold'.thrown
  BY <1>1, <1>2
<1>6. why \in Cause
  BY <1>3
<1> HIDE DEF place, why
<1>7. child' \in ChildRow /\ child'.at = place
  BY <1>1, <1>4, <1>5, <1>6 DEF ChildRow
<1>8. stream' \in Seq(Line) /\ Len(stream') = Len(stream) + 1
  BY <1>1 DEF FeedLine
<1> QED
  BY <1>5, <1>7, <1>8

\* A summary that says the same of the lines.
SaysTheSame(f, g) ==
  /\ g.text = f.text /\ g.usage = f.usage /\ g.failed = f.failed /\ g.seen = f.seen /\ g.ended = f.ended
  /\ g.stopped = f.stopped /\ g.streamed = f.streamed /\ g.warned = f.warned /\ g.parsed = f.parsed

LEMMA SummaryStays ==
  ASSUME SummaryTells, UNCHANGED <<speaker, streams, stream, answers>>,
         speaker # "crush" => SaysTheSame(fold, fold'), EventsTyped
  PROVE  SummaryTells'
<1>1. speaker \in {"opencode", "opencode2"} => OpenTold(fold', stream)
  BY DEF SummaryTells, SaysTheSame, OpenTold, ErrorsTold, TextTold, StepsTold
<1>2. speaker = "omp" => OmpTold(fold', stream, answers, streams)
  BY DEF SummaryTells, SaysTheSame, OmpTold, OmpErrorsTold, OmpEndTold, OmpUsageTold, OmpWarningsTold
<1>3. speaker = "opencode" => Cardinality(fold'.warned) <= MaxWarnings
  BY DEF SummaryTells, SaysTheSame
<1> QED
  BY <1>1, <1>2, <1>3 DEF SummaryTells

LEMMA EventsStart == EventsInit => EventsIInv
<1> SUFFICES ASSUME EventsInit  PROVE EventsIInv
  OBVIOUS
<1>1. fold = NewFold /\ NewFold \in FoldRow /\ \A c \in Class : fold.usage.reported[c] = 0
  BY NewFoldRow DEF EventsInit
<1>2. stream = <<>> /\ answers = <<>> /\ DOMAIN stream = {} /\ DOMAIN answers = {} /\ child = NewChild
  BY DEF EventsInit
<1>3. child \in ChildRow /\ child.at = "running"
  BY <1>2 DEF NewChild, ChildRow, Cause
<1>4. UsageSound(fold.usage) /\ fold.usage.steps = 0
  BY <1>1 DEF NewFold, NewUsage, UsageSound, UsageRow
<1>5. EventsTyped
  <2>1. stream \in Seq(Line) /\ answers \in Seq(Message) /\ Len(stream) <= MaxLines /\ Len(answers) <= MaxLines
    BY <1>2, EventsAssumption
  <2>2. (child.at = "crashed") = fold.thrown
    BY <1>1, <1>3 DEF NewFold
  <2>3. speaker \in Speaker /\ streams \in BOOLEAN /\ asked \in {"none", "unavailable", "admitted"}
    BY DEF EventsInit
  <2> QED
    BY <1>1, <1>3, <1>4, <2>1, <2>2, <2>3 DEF EventsTyped
<1>6. Cardinality(fold.warned) = 0 /\ fold.warned = {} /\ MaxWarnings \in Nat \ {0}
  BY <1>1, FS_EmptySet, EventsAssumption DEF NewFold
<1>7. \A kind : LinesOf(stream, kind) = {}
  BY <1>2 DEF LinesOf
<1>8. fold.text = "none" /\ ~fold.failed /\ ~fold.ended /\ ~fold.stopped /\ ~fold.seen /\ ~fold.streamed
  BY <1>1 DEF NewFold
<1>9. OpenTold(fold, stream)
  <2>1. fold.usage.steps = Cardinality(LinesOf(stream, "step"))
    BY <1>4, <1>7, FS_EmptySet
  <2> QED
    BY <1>1, <1>2, <1>7, <1>8, <2>1 DEF OpenTold, ErrorsTold, TextTold, StepsTold
<1>10. OmpTold(fold, stream, answers, streams)
  <2>1. OmpErrorsTold(fold, stream, streams)
    BY <1>2 DEF OmpErrorsTold
  <2>2. OmpEndTold(fold, stream)
    BY <1>8 DEF OmpEndTold
  <2>3. OmpUsageTold(fold, stream, answers, streams)
    <3>1. \A c \in Class : Counting(answers, c) = {}
      BY <1>2 DEF Counting
    <3>2. \A c \in Class : fold.usage.reported[c] <= Cardinality(Counting(answers, c))
      BY <1>1, <3>1, FS_EmptySet
    <3> QED
      BY <1>1, <1>8, <3>2 DEF OmpUsageTold
  <2>4. OmpWarningsTold(fold, stream)
    BY <1>6, <1>7 DEF OmpWarningsTold, WarnSound
  <2> QED
    BY <2>1, <2>2, <2>3, <2>4 DEF OmpTold
<1>11. SummaryTells
  BY <1>6, <1>9, <1>10 DEF SummaryTells
<1>12. ReportTells
  BY <1>3, NothingReported
<1> QED
  BY <1>5, <1>11, <1>12 DEF EventsIInv

LEMMA PrintsKeeps ==
  ASSUME EventsIInv, NEW l \in Printed[speaker], Prints(l)
  PROVE  EventsIInv'
<1>1. /\ speaker \in Speaker /\ speaker \in {"opencode", "opencode2", "omp", "crush"}
      /\ streams \in BOOLEAN /\ stream \in Seq(Line) /\ answers \in Seq(Message)
      /\ fold \in FoldRow /\ UsageSound(fold.usage) /\ ~fold.thrown /\ child.at = "running"
  BY EventsAssumption DEF EventsIInv, EventsTyped, Prints, Room
<1>2. /\ l \in Line /\ l.kind # "end"
      /\ (speaker \in {"opencode", "opencode2"} /\ l.failed => l.kind = "error")
      /\ (speaker = "omp" => l.kind # "message" /\ ~l.failed)
  BY <1>1, EventsAssumption
<1>3. FeedLine(l) /\ Room /\ UNCHANGED <<speaker, streams, asked, answers, envelope>>
  BY DEF Prints
<1>4. stream' = Append(stream, l) /\ (speaker # "crush" => fold' = Folded(fold, l))
  BY <1>3 DEF FeedLine
<1>5. fold' \in FoldRow /\ UsageSound(fold'.usage) /\ SummaryTells'
  <2>1. CASE speaker = "opencode"
    <3>1. OpenFolds(fold, l, fold') /\ (Cardinality(fold.warned) <= MaxWarnings => Cardinality(fold'.warned) <= MaxWarnings)
      BY <1>1, <1>2, <1>4, <2>1, OpencodeFolds
    <3>2. OpenTold(fold, stream) /\ Cardinality(fold.warned) <= MaxWarnings
      BY <2>1 DEF EventsIInv, SummaryTells
    <3>3. OpenTold(fold', Append(stream, l)) /\ UsageSound(fold'.usage)
      BY <1>1, <1>2, <2>1, <3>1, <3>2, OpenTells
    <3>4. fold' \in FoldRow
      BY <3>1 DEF OpenFolds
    <3>5. speaker' = "opencode"
      BY <1>3, <2>1
    <3> QED
      BY <1>4, <3>1, <3>2, <3>3, <3>4, <3>5 DEF SummaryTells
  <2>2. CASE speaker = "opencode2"
    <3>1. OpenFolds(fold, l, fold')
      BY <1>1, <1>2, <1>4, <2>2, OpenCode2Folds
    <3>2. OpenTold(fold, stream)
      BY <2>2 DEF EventsIInv, SummaryTells
    <3>3. OpenTold(fold', Append(stream, l)) /\ UsageSound(fold'.usage)
      BY <1>1, <1>2, <2>2, <3>1, <3>2, OpenTells
    <3>4. fold' \in FoldRow
      BY <3>1 DEF OpenFolds
    <3>5. speaker' = "opencode2"
      BY <1>3, <2>2
    <3> QED
      BY <1>4, <3>3, <3>4, <3>5 DEF SummaryTells
  <2>3. CASE speaker = "omp"
    <3>1. OmpFolds(fold, l, fold')
      BY <1>1, <1>2, <1>4, <2>3, OmpLineFolds
    <3>2. OmpTold(fold, stream, answers, streams)
      BY <2>3 DEF EventsIInv, SummaryTells
    <3>3. OmpTold(fold', Append(stream, l), answers, streams)
      BY <1>1, <1>2, <2>3, <3>1, <3>2, OmpTellsLine
    <3>4. fold' \in FoldRow /\ fold'.usage = fold.usage
      BY <3>1 DEF OmpFolds
    <3>5. speaker' = "omp"
      BY <1>3, <2>3
    <3> QED
      BY <1>1, <1>3, <1>4, <3>3, <3>4, <3>5 DEF SummaryTells
  <2>4. CASE speaker = "crush"
    <3>1. fold' = fold \/ fold' = ParseEnvelope(l)
      BY <1>3, <2>4 DEF FeedLine, Folded
    <3>2. speaker' = "crush"
      BY <1>3, <2>4
    <3> QED
      BY <1>1, <1>2, <3>1, <3>2, EnvelopeRow DEF SummaryTells
  <2> QED
    BY <1>1, <2>1, <2>2, <2>3, <2>4
<1>6. /\ child' \in ChildRow /\ child'.at \in {"running", "crashed"} /\ (child'.at = "crashed") = fold'.thrown
      /\ stream' \in Seq(Line) /\ Len(stream') = Len(stream) + 1
  BY <1>2, <1>3, <1>5, Fed DEF EventsIInv
<1>7. Len(stream') <= MaxLines /\ Len(answers') <= MaxLines
  <2>1. Len(stream) \in Nat /\ Len(answers) \in Nat /\ MaxLines \in Nat /\ Len(stream) + Len(answers) < MaxLines
    BY <1>1, <1>3, EventsAssumption DEF Room
  <2>2. Len(answers') = Len(answers)
    BY <1>3
  <2> QED
    BY <1>6, <2>1, <2>2
<1>8. EventsTyped'
  BY <1>3, <1>5, <1>6, <1>7 DEF EventsIInv, EventsTyped
<1>9. ReportTells'
  BY <1>6, NothingReportedNext
<1> QED
  BY <1>5, <1>8, <1>9 DEF EventsIInv

LEMMA AnswersKeeps ==
  ASSUME EventsIInv, NEW m \in Printed["messages"], Answers(m)
  PROVE  EventsIInv'
<1>1. /\ speaker \in Speaker /\ speaker = "omp" /\ streams \in BOOLEAN /\ stream \in Seq(Line) /\ answers \in Seq(Message)
      /\ fold \in FoldRow /\ UsageSound(fold.usage) /\ ~fold.thrown /\ child.at = "running" /\ child \in ChildRow
      /\ OmpTold(fold, stream, answers, streams)
  BY DEF EventsIInv, EventsTyped, SummaryTells, Answers, Room
<1>2. m \in Message /\ m \in Line /\ m.kind = "message"
  BY EventsAssumption, MessagesAreLines DEF Message
<1>3. /\ Room /\ answers' = Append(answers, m) /\ UNCHANGED <<speaker, streams, asked, envelope>>
      /\ IF streams THEN FeedLine(m) ELSE UNCHANGED <<stream, fold, child>>
  BY DEF Answers
<1>4. answers' \in Seq(Message) /\ Len(answers') = Len(answers) + 1
  BY <1>1, <1>2, <1>3
<1>5. Len(stream) \in Nat /\ Len(answers) \in Nat /\ MaxLines \in Nat /\ Len(stream) + Len(answers) < MaxLines
  BY <1>1, <1>3, EventsAssumption DEF Room
<1>6. CASE streams
  <2>1. FeedLine(m)
    BY <1>3, <1>6
  <2>2. stream' = Append(stream, m) /\ fold' = Folded(fold, m)
    BY <1>1, <2>1 DEF FeedLine
  <2>3. fold' \in FoldRow /\ UsageSound(fold'.usage)
    BY <1>1, <1>2, <2>2, OmpMessageFolds
  <2>4. OmpTold(fold', stream', answers', streams')
    <3>1. OmpTold(Folded(fold, m), Append(stream, m), Append(answers, m), streams)
      BY <1>1, <1>2, <1>6, OmpTellsMessage
    <3> QED
      BY <1>3, <2>2, <3>1
  <2>5. /\ child' \in ChildRow /\ child'.at \in {"running", "crashed"} /\ (child'.at = "crashed") = fold'.thrown
        /\ stream' \in Seq(Line) /\ Len(stream') = Len(stream) + 1
    BY <1>2, <1>3, <2>1, <2>3, Fed DEF EventsIInv
  <2>6. Len(stream') <= MaxLines /\ Len(answers') <= MaxLines
    BY <1>4, <1>5, <2>5
  <2>7. ReportTells'
    BY <2>5, NothingReportedNext
  <2> QED
    BY <1>1, <1>3, <1>4, <2>3, <2>4, <2>5, <2>6, <2>7 DEF EventsIInv, EventsTyped, SummaryTells
<1>7. CASE ~streams
  <2>1. UNCHANGED <<stream, fold, child>>
    BY <1>3, <1>7
  <2>2. Len(stream') <= MaxLines /\ Len(answers') <= MaxLines
    BY <1>4, <1>5, <2>1
  <2>3. OmpTold(fold', stream', answers', streams')
    BY <1>1, <1>2, <1>3, <2>1, OmpTellsAnswer
  <2>4. ReportTells'
    BY <1>1, <2>1, NothingReportedNext
  <2>5. EventsTyped'
    BY <1>3, <1>4, <2>1, <2>2 DEF EventsIInv, EventsTyped
  <2> QED
    BY <1>1, <1>3, <2>3, <2>4, <2>5 DEF EventsIInv, SummaryTells
<1> QED
  BY <1>1, <1>6, <1>7

LEMMA EndLine ==
  ASSUME answers \in Seq(Message), NEW final \in BOOLEAN, NEW failed \in BOOLEAN
  PROVE  LET l == [Plain EXCEPT !.kind = "end", !.final = final, !.failed = failed, !.messages = answers] IN
         l \in Line /\ l.kind = "end" /\ l.messages = answers
<1> DEFINE l == [Plain EXCEPT !.kind = "end", !.final = final, !.failed = failed, !.messages = answers]
           M == Seq(Message)
<1>1. /\ {"end", "unknown"} \subseteq Kind /\ Nobody \in Thread \cup {Nobody} /\ {} \in SUBSET Class /\ "none" \in Words
      /\ "none" \in Reason /\ answers \in M /\ <<>> \in M
  BY DEF Kind, Words, Reason
<1> HIDE DEF M
<1>2. Plain \in LineWith(M)
  BY <1>1 DEF Plain, LineWith
<1> HIDE DEF Plain
<1>3. l \in LineWith(M) /\ l.kind = "end" /\ l.messages = answers
  BY <1>1, <1>2 DEF LineWith
<1> HIDE DEF l
<1> QED
  BY <1>3 DEF l, M, Line

LEMMA EndsKeeps ==
  ASSUME EventsIInv, NEW final \in BOOLEAN, NEW failed \in BOOLEAN, Ends(final, failed)
  PROVE  EventsIInv'
<1> DEFINE l == [Plain EXCEPT !.kind = "end", !.final = final, !.failed = failed, !.messages = answers]
<1>1. /\ speaker \in Speaker /\ speaker = "omp" /\ streams \in BOOLEAN /\ stream \in Seq(Line) /\ answers \in Seq(Message)
      /\ fold \in FoldRow /\ UsageSound(fold.usage) /\ ~fold.thrown /\ child.at = "running" /\ child \in ChildRow
      /\ OmpTold(fold, stream, answers, streams) /\ Len(answers) <= MaxLines
  BY DEF EventsIInv, EventsTyped, SummaryTells, Ends, Room
<1>2. l \in Line /\ l.kind = "end" /\ l.messages = answers
  BY <1>1, EndLine
<1>3. Room /\ FeedLine(l) /\ NoFinalEnd(stream) /\ UNCHANGED <<speaker, streams, asked, answers, envelope>>
  BY DEF Ends, NoFinalEnd
<1> HIDE DEF l
<1>4. stream' = Append(stream, l) /\ fold' = Folded(fold, l)
  BY <1>1, <1>3 DEF FeedLine
<1>5. fold' \in FoldRow /\ UsageSound(fold'.usage)
  <2>1. fold.streamed \/ \A c \in Class : fold.usage.reported[c] = 0
    BY <1>1, <1>3 DEF OmpTold, OmpUsageTold
  <2> QED
    BY <1>1, <1>2, <1>4, <2>1, OmpEndFolds
<1>6. OmpTold(fold', stream', answers', streams')
  <2>1. OmpTold(Folded(fold, l), Append(stream, l), answers, streams)
    BY <1>1, <1>2, <1>3, OmpTellsEnd
  <2> QED
    BY <1>3, <1>4, <2>1
<1>7. /\ child' \in ChildRow /\ child'.at \in {"running", "crashed"} /\ (child'.at = "crashed") = fold'.thrown
      /\ stream' \in Seq(Line) /\ Len(stream') = Len(stream) + 1
  BY <1>2, <1>3, <1>5, Fed DEF EventsIInv
<1>8. Len(stream') <= MaxLines
  <2>1. Len(stream) \in Nat /\ Len(answers) \in Nat /\ MaxLines \in Nat /\ Len(stream) + Len(answers) < MaxLines
    BY <1>1, <1>3, EventsAssumption DEF Room
  <2> QED
    BY <1>7, <2>1
<1>9. ReportTells'
  BY <1>7, NothingReportedNext
<1> QED
  BY <1>1, <1>3, <1>5, <1>6, <1>7, <1>8, <1>9 DEF EventsIInv, EventsTyped, SummaryTells

LEMMA TooMuchKeeps ==
  ASSUME EventsIInv, TooMuch
  PROVE  EventsIInv'
<1>1. /\ child \in ChildRow /\ child.at = "running" /\ fold \in FoldRow /\ UsageSound(fold.usage) /\ ~fold.thrown
      /\ UNCHANGED <<speaker, streams, asked, stream, answers, envelope>>
  BY DEF EventsIInv, EventsTyped, TooMuch
<1> DEFINE why == IF speaker = "crush" THEN First1("output_limit") ELSE child.cause
<1>2. child' = [child EXCEPT !.big = TRUE, !.cause = why]
  BY DEF TooMuch
<1>3. why \in Cause
  <2>1. "output_limit" \in Cause
    BY DEF Cause
  <2> QED
    BY <1>1, <2>1, CauseNext, ChildParts
<1> HIDE DEF why
<1>4. child' \in ChildRow /\ child'.at = "running"
  BY <1>1, <1>2, <1>3 DEF ChildRow
<1>5. fold' = fold \/ (speaker = "crush" /\ fold' = NewFold)
  BY DEF TooMuch
<1>6. fold' \in FoldRow /\ UsageSound(fold'.usage) /\ ~fold'.thrown
  <2>1. NewFold \in FoldRow /\ NewFold.usage \in UsageRow /\ \A c \in Class : NewFold.usage.reported[c] = 0
    BY NewFoldRow, FoldParts
  <2>2. UsageSound(NewFold.usage)
    BY <2>1 DEF UsageSound, UsageRow
  <2>3. ~NewFold.thrown
    BY DEF NewFold
  <2> QED
    BY <1>1, <1>5, <2>1, <2>2, <2>3
<1>7. SummaryTells'
  BY <1>1, <1>5, SummaryStays DEF EventsIInv, SaysTheSame
<1>8. ReportTells'
  BY <1>4, NothingReportedNext
<1>9. (child'.at = "crashed") = fold'.thrown
  BY <1>4, <1>6 DEF FoldRow
<1> QED
  BY <1>1, <1>4, <1>6, <1>7, <1>8, <1>9 DEF EventsIInv, EventsTyped

LEMMA StopKeeps ==
  ASSUME EventsIInv, NEW cause \in Causes, Stop(cause)
  PROVE  EventsIInv'
<1>1. /\ child \in ChildRow /\ child.at = "running" /\ fold \in FoldRow /\ UsageSound(fold.usage)
      /\ (child.at = "crashed") = fold.thrown
      /\ UNCHANGED <<speaker, streams, asked, stream, answers, envelope>>
  BY DEF EventsIInv, EventsTyped, Stop
<1> DEFINE why == First1(cause)
           late == child.timedOut \/ cause = "deadline"
           rate == fold.limited \/ cause = "provider_rate_limit"
<1>2. child' = [child EXCEPT !.cause = why, !.timedOut = late] /\ fold' = [fold EXCEPT !.limited = rate]
  BY DEF Stop
<1>3. why \in Cause /\ late \in BOOLEAN /\ rate \in BOOLEAN
  <2>1. cause \in Cause
    BY DEF Causes, Cause
  <2> QED
    BY <1>1, <2>1, CauseNext, ChildParts, FoldParts
<1> HIDE DEF why, late, rate
<1>4. child' \in ChildRow /\ child'.at = "running"
  BY <1>1, <1>2, <1>3 DEF ChildRow
<1>5. fold' \in FoldRow /\ SaysTheSame(fold, fold') /\ fold'.thrown = fold.thrown
  BY <1>1, <1>2, <1>3 DEF FoldRow, SaysTheSame
<1>6. UsageSound(fold'.usage)
  BY <1>1, <1>5 DEF SaysTheSame
<1>7. SummaryTells'
  BY <1>1, <1>5, SummaryStays DEF EventsIInv
<1>8. ReportTells'
  BY <1>4, NothingReportedNext
<1>9. (child'.at = "crashed") = fold'.thrown
  BY <1>1, <1>4, <1>5
<1> QED
  BY <1>1, <1>4, <1>5, <1>6, <1>7, <1>8, <1>9 DEF EventsIInv, EventsTyped

LEMMA ClosesKeeps ==
  ASSUME EventsIInv, NEW code \in 0..1, NEW signal \in BOOLEAN, Closes(code, signal)
  PROVE  EventsIInv'
<1>1. child \in ChildRow /\ child.at = "running" /\ (child.at = "crashed") = fold.thrown
      /\ UNCHANGED <<speaker, streams, asked, stream, answers, fold, envelope>>
      /\ child' = [child EXCEPT !.at = "closed", !.code = code, !.signal = signal]
  BY DEF EventsIInv, EventsTyped, Closes
<1>2. child' \in ChildRow /\ child'.at = "closed"
  BY <1>1 DEF ChildRow
<1>3. SummaryTells'
  BY <1>1, SummaryStays DEF EventsIInv, SaysTheSame
<1>4. ReportTells'
  BY <1>2, NothingReportedNext
<1>5. EventsTyped'
  BY <1>1, <1>2 DEF EventsIInv, EventsTyped
<1> QED
  BY <1>3, <1>4, <1>5 DEF EventsIInv

-----------------------------------------------------------------------------
(* The report                                                              *)

\* No error of a line is missing from the summary.
LEMMA ErrorsAreFolded ==
  ASSUME EventsTyped, SummaryTells, Failed
  PROVE  fold.failed
<1>1. speaker \in {"opencode", "opencode2", "omp", "crush"}
  BY EventsAssumption DEF EventsTyped
<1>2. CASE speaker = "crush"
  BY <1>2 DEF Failed
<1>3. CASE speaker \in {"opencode", "opencode2"}
  <2>1. ErrorsTold(fold, stream)
    BY <1>3 DEF SummaryTells, OpenTold
  <2> QED
    BY <1>3, <2>1 DEF Failed, ErrorsTold
<1>4. CASE speaker = "omp"
  <2>1. OmpErrorsTold(fold, stream, streams)
    BY <1>4 DEF SummaryTells, OmpTold
  <2> QED
    BY <1>4, <2>1 DEF Failed, OmpErrorsTold
<1> QED
  BY <1>1, <1>2, <1>3, <1>4

LEMMA ByProcessTells ==
  ASSUME child \in ChildRow, NEW clean \in BOOLEAN
  PROVE  /\ ByProcess(clean) \in {"timeout", "killed", "end_turn", "error"}
         /\ ByProcess(clean) = "end_turn" => ~child.timedOut /\ ~child.signal /\ child.code = 0 /\ clean
  BY DEF ByProcess

LEMMA ExitIsHonest ==
  ASSUME EventsTyped, SummaryTells, ExitReason = "end_turn"
  PROVE  /\ ~child.timedOut /\ ~child.signal
         /\ speaker # "crush" => ~fold.failed /\ child.code = 0
         /\ speaker = "opencode" => child.cause = "none" /\ ~child.big
         /\ speaker = "omp" => LinesOf(stream, "end") # {} \/ \E i \in LinesOf(stream, "message") : stream[i].stop
<1>1. speaker \in {"opencode", "opencode2", "omp", "crush"} /\ child \in ChildRow /\ fold \in FoldRow
  BY EventsAssumption DEF EventsTyped
<1>2. {fold.failed, ~fold.failed, fold.ended, fold.stopped, TRUE, ~fold.failed /\ (fold.ended \/ fold.stopped)} \subseteq BOOLEAN
  BY <1>1, FoldParts
<1>3. CASE speaker = "opencode"
  <2>1. OpencodeExit = "end_turn"
    BY <1>3 DEF ExitReason
  <2>2. ~child.timedOut /\ ~child.big /\ child.cause = "none" /\ ByProcess(~fold.failed) = "end_turn"
    BY <2>1 DEF OpencodeExit
  <2> QED
    BY <1>1, <1>2, <1>3, <2>2, ByProcessTells
<1>4. CASE speaker = "opencode2"
  <2>1. OpenCode2Exit = "end_turn"
    BY <1>4 DEF ExitReason
  <2>2. ~fold.failed /\ ByProcess(TRUE) = "end_turn"
    BY <2>1 DEF OpenCode2Exit
  <2> QED
    BY <1>1, <1>2, <1>4, <2>2, ByProcessTells
<1>5. CASE speaker = "omp"
  <2>1. ByProcess(~fold.failed /\ (fold.ended \/ fold.stopped)) = "end_turn"
    BY <1>5 DEF ExitReason, OmpExit
  <2>2. ~child.timedOut /\ ~child.signal /\ child.code = 0 /\ ~fold.failed /\ (fold.ended \/ fold.stopped)
    BY <1>1, <1>2, <2>1, ByProcessTells
  <2>3. OmpEndTold(fold, stream)
    BY <1>5 DEF SummaryTells, OmpTold
  <2> QED
    BY <1>5, <2>2, <2>3 DEF OmpEndTold
<1>6. CASE speaker = "crush"
  <2>1. CrushExit = "end_turn"
    BY <1>6 DEF ExitReason
  <2>2. ~child.timedOut /\ ~child.signal
    BY <1>1, <1>2, <2>1, ByProcessTells DEF CrushExit
  <2> QED
    BY <1>6, <2>2
<1> QED
  BY <1>1, <1>3, <1>4, <1>5, <1>6

LEMMA StatusTells ==
  ASSUME EventsTyped, SummaryTells, fold.failed, NEW logged \in BOOLEAN
  PROVE  EngineStatus(logged) \notin {"completed", "unknown"}
<1>1. child \in ChildRow /\ fold \in FoldRow
  BY DEF EventsTyped
<1>2. CASE RateLimited(logged)
  BY <1>2 DEF EngineStatus
<1>3. CASE ~RateLimited(logged) /\ Erred
  BY <1>3 DEF EngineStatus
<1>4. CASE ~RateLimited(logged) /\ ~Erred
  <2>1. speaker = "omp" /\ ExitReason # "error"
    BY <1>4 DEF Erred
  <2>2. ExitReason = ByProcess(~fold.failed /\ (fold.ended \/ fold.stopped))
    BY <2>1 DEF ExitReason, OmpExit
  <2>3. ExitReason = ByProcess(FALSE)
    BY <2>2
  <2>4. ExitReason \in {"timeout", "killed"}
    BY <1>1, <2>1, <2>3, ByProcessTells
  <2> QED
    BY <1>4, <2>4 DEF EngineStatus
<1> QED
  BY <1>2, <1>3, <1>4

LEMMA ProcessTells ==
  ASSUME ProcessStatus = "completed"
  PROVE  child.cause = "none" /\ child.code = 0 /\ ~child.signal /\ ~child.timedOut
  BY DEF ProcessStatus

LEMMA OpencodeTotalsTell ==
  ASSUME NEW u, UsageSound(u)
  PROVE  /\ \A c \in DOMAIN OpencodeTotals(u) : OpencodeTotals(u)[c] = u.steps
         /\ (\A c \in Class : u.reported[c] = 0) => DOMAIN OpencodeTotals(u) = {}
<1> DEFINE whole == {c \in Class : EveryStep(u, c)}
           more == IF {"input", "output"} \subseteq whole THEN {"total"} ELSE {}
           value(c) == IF c \in whole THEN u.reported[c] ELSE u.reported["input"]
<1>1. OpencodeTotals(u) = [c \in whole \cup more |-> value(c)]
  BY DEF OpencodeTotals
<1>2. \A c \in whole : u.reported[c] = u.steps
  BY DEF EveryStep
<1>3. ASSUME NEW c \in whole \cup more  PROVE value(c) = u.steps
  <2>1. c \in whole \/ "input" \in whole
    BY <1>3
  <2> QED
    BY <1>2, <2>1
<1>4. (\A c \in Class : u.reported[c] = 0) => whole = {}
  <2>1. u.steps \in Nat
    BY DEF UsageSound, UsageRow
  <2> QED
    BY <2>1 DEF EveryStep
<1>5. whole = {} => more = {}
  OBVIOUS
<1> HIDE DEF whole, more, value
<1> QED
  BY <1>1, <1>3, <1>4, <1>5

LEMMA OmpTotalsTell ==
  ASSUME NEW u
  PROVE  DOMAIN OmpTotals(u) \subseteq Class /\ \A c \in DOMAIN OmpTotals(u) : OmpTotals(u)[c] = u.reported[c]
  BY DEF OmpTotals, Class

\* What the usage of a report gives away, of whichever engine.
LEMMA UsageTells ==
  ASSUME EventsTyped, SummaryTells
  PROVE  LET known == Usage.totals IN
         /\ speaker \in {"opencode", "opencode2"} => \A c \in DOMAIN known : known[c] = Cardinality(LinesOf(stream, "step"))
         /\ speaker = "omp" => \A c \in DOMAIN known : known[c] <= Cardinality(Counting(answers, c))
         /\ Usage.status \in {"unknown", "missing"} => DOMAIN known = {}
         /\ (speaker # "crush" /\ (\A i \in DOMAIN stream : stream[i].counts = {}) /\
             (\A i \in DOMAIN answers : ~answers[i].usage)) => DOMAIN known = {}
<1> DEFINE u == fold.usage
           known == Usage.totals
<1>1. speaker \in {"opencode", "opencode2", "omp", "crush"} /\ UsageSound(u)
  BY EventsAssumption DEF EventsTyped
<1>2. DOMAIN None = {}
  BY DEF None
<1>3. CASE speaker \in {"opencode", "opencode2"}
  <2>1. Usage = OpencodeUsage(u)
    BY <1>3 DEF Usage
  <2>2. known = OpencodeTotals(u) /\ Usage.status = IF Reported(u) THEN "reported" ELSE "missing"
    BY <2>1 DEF OpencodeUsage
  <2>3. StepsTold(fold, stream)
    BY <1>3 DEF SummaryTells, OpenTold
  <2> HIDE DEF u, known
  <2>4. /\ \A c \in DOMAIN known : known[c] = u.steps
        /\ (\A c \in Class : u.reported[c] = 0) => DOMAIN known = {}
    BY <1>1, <2>2, OpencodeTotalsTell
  <2>5. ~Reported(u) => \A c \in Class : u.reported[c] = 0
    BY <1>1 DEF Reported, UsageSound, UsageRow
  <2>6. u.steps = Cardinality(LinesOf(stream, "step"))
        /\ ((\A i \in DOMAIN stream : stream[i].counts = {}) => \A c \in Class : u.reported[c] = 0)
    BY <2>3 DEF StepsTold, u
  <2>7. Usage.status \in {"unknown", "missing"} => DOMAIN known = {}
    BY <2>2, <2>4, <2>5
  <2> QED
    BY <1>3, <2>4, <2>6, <2>7 DEF known
<1>4. CASE speaker = "omp"
  <2>1. Usage = OmpUsage(u)
    BY <1>4 DEF Usage
  <2>2. /\ known = IF fold.seen THEN OmpTotals(u) ELSE None
        /\ fold.seen => Usage.status \notin {"unknown", "missing"}
    BY <2>1 DEF OmpUsage
  <2>3. OmpUsageTold(fold, stream, answers, streams)
    BY <1>4 DEF SummaryTells, OmpTold
  <2>4. \A c \in Class : u.reported[c] <= Cardinality(Counting(answers, c))
    BY <2>3 DEF OmpUsageTold
  <2>5. (\A i \in DOMAIN answers : ~answers[i].usage) => ~fold.seen
    BY <2>3 DEF OmpUsageTold
  <2> HIDE DEF u, known
  <2>6. \A c \in DOMAIN known : known[c] <= Cardinality(Counting(answers, c))
    <3>1. CASE fold.seen
      <4>1. \A c \in DOMAIN known : c \in Class /\ known[c] = u.reported[c]
        BY <2>2, <3>1, OmpTotalsTell
      <4> QED
        BY <2>4, <4>1
    <3>2. CASE ~fold.seen
      BY <1>2, <2>2, <3>2
    <3> QED
      BY <3>1, <3>2
  <2>7. ~fold.seen => DOMAIN known = {}
    BY <1>2, <2>2
  <2> QED
    BY <1>4, <2>2, <2>5, <2>6, <2>7 DEF known
<1>5. CASE speaker = "crush"
  <2>1. Usage = CrushUsage(u)
    BY <1>5 DEF Usage
  <2>2. known = CrushTotals(u) /\ Usage.status = IF known = None THEN "missing" ELSE "reported"
    BY <2>1 DEF CrushUsage
  <2>3. Usage.status \in {"unknown", "missing"} => DOMAIN known = {}
    <3> HIDE DEF known
    <3> QED
      BY <1>2, <2>2
  <2> QED
    BY <1>5, <2>3
<1> QED
  BY <1>1, <1>3, <1>4, <1>5

LEMMA ReportKeeps ==
  ASSUME EventsIInv, NEW logged \in BOOLEAN, NEW outcome \in RowOutcomes, Report(logged, outcome)
  PROVE  EventsIInv'
<1>1. /\ EventsTyped /\ SummaryTells /\ child \in ChildRow /\ child.at = "closed" /\ fold \in FoldRow
      /\ (child.at = "crashed") = fold.thrown
      /\ UNCHANGED <<speaker, streams, asked, stream, answers, fold>>
  BY DEF EventsIInv, EventsTyped, Report
<1> DEFINE told == ~(Refuses(logged) \/ outcome = "retained_for_recovery")
<1>2. /\ told => child' = [child EXCEPT !.at = "reported"] /\ envelope' = EnvelopeOf(logged, outcome)
      /\ ~told => child' = [child EXCEPT !.at = "refused"]
  BY DEF Report
<1> HIDE DEF told
<1>3. /\ child' \in ChildRow /\ child'.at = IF told THEN "reported" ELSE "refused"
      /\ child'.timedOut = child.timedOut /\ child'.signal = child.signal /\ child'.code = child.code
      /\ child'.cause = child.cause /\ child'.big = child.big
  <2>1. CASE told
    BY <1>1, <1>2, <2>1 DEF ChildRow
  <2>2. CASE ~told
    BY <1>1, <1>2, <2>2 DEF ChildRow
  <2> QED
    BY <2>1, <2>2
<1>4. EventsTyped'
  <2>1. (child'.at = "crashed") = fold'.thrown
    BY <1>1, <1>3
  <2> QED
    BY <1>1, <1>3, <2>1 DEF EventsTyped
<1>5. SummaryTells'
  BY <1>1, SummaryStays DEF SaysTheSame
<1>6. Reports' => /\ envelope'.exit = ExitReason /\ envelope'.process = ProcessStatus
                  /\ envelope'.engine = EngineStatus(logged) /\ envelope'.usage = Usage /\ envelope'.text = fold.text
  BY <1>2, <1>3 DEF Reports, EnvelopeOf
<1>7. Failed' => fold.failed
  <2>1. Failed' <=> Failed
    BY <1>1 DEF Failed
  <2> QED
    BY <1>1, <2>1, ErrorsAreFolded
<1>8. \A kind : Arrived(kind)' = LinesOf(stream, kind)
  BY <1>1 DEF Arrived, LinesOf
<1>9. EndTurnIsHonest'
  <2> SUFFICES ASSUME Reports', envelope'.exit = "end_turn"
               PROVE  /\ ~child'.timedOut /\ ~child'.signal
                      /\ speaker' # "crush" => ~Failed' /\ child'.code = 0
                      /\ speaker' = "opencode" => child'.cause = "none" /\ ~child'.big
                      /\ speaker' = "omp" => Arrived("end")' # {} \/ \E i \in Arrived("message")' : stream'[i].stop
    BY DEF EndTurnIsHonest
  <2>1. ExitReason = "end_turn"
    BY <1>6
  <2>2. /\ ~child.timedOut /\ ~child.signal
        /\ speaker # "crush" => ~fold.failed /\ child.code = 0
        /\ speaker = "opencode" => child.cause = "none" /\ ~child.big
        /\ speaker = "omp" => LinesOf(stream, "end") # {} \/ \E i \in LinesOf(stream, "message") : stream[i].stop
    BY <1>1, <2>1, ExitIsHonest
  <2>3. speaker' = "omp" => Arrived("end")' # {} \/ \E i \in Arrived("message")' : stream'[i].stop
    BY <1>1, <1>8, <2>2
  <2> QED
    BY <1>1, <1>3, <1>7, <2>2, <2>3
<1>10. ErrorsAreTold'
  <2> SUFFICES ASSUME Reports', Failed'
               PROVE  envelope'.engine \notin {"completed", "unknown"}
    BY DEF ErrorsAreTold
  <2> QED
    BY <1>1, <1>6, <1>7, StatusTells
<1>11. CompletedByItself'
  BY <1>3, <1>6, ProcessTells DEF CompletedByItself
<1>12. UsageIsWhole'
  <2>1. CASE ~Reports'
    BY <2>1 DEF UsageIsWhole
  <2>2. CASE Reports'
    <3> DEFINE known == Usage.totals
    <3>1. /\ speaker \in {"opencode", "opencode2"} => \A c \in DOMAIN known : known[c] = Cardinality(LinesOf(stream, "step"))
          /\ speaker = "omp" => \A c \in DOMAIN known : known[c] <= Cardinality(Counting(answers, c))
          /\ Usage.status \in {"unknown", "missing"} => DOMAIN known = {}
          /\ (speaker # "crush" /\ (\A i \in DOMAIN stream : stream[i].counts = {}) /\
              (\A i \in DOMAIN answers : ~answers[i].usage)) => DOMAIN known = {}
      BY <1>1, UsageTells
    <3>2. envelope'.usage = Usage
      BY <1>6, <2>2
    <3>3. \A c : {i \in DOMAIN answers' : c \in answers'[i].counts} = Counting(answers, c)
      BY <1>1 DEF Counting
    <3>4. Arrived("step")' = LinesOf(stream, "step")
      BY <1>8
    <3> QED
      BY <1>1, <3>1, <3>2, <3>3, <3>4 DEF UsageIsWhole
  <2> QED
    BY <2>1, <2>2
<1>13. TextIsTheLast'
  <2> SUFFICES ASSUME Reports', speaker' \in {"opencode", "opencode2"}
               PROVE  envelope'.text =
                        IF Arrived("text")' = {} THEN "none"
                        ELSE stream'[CHOOSE i \in Arrived("text")' : \A k \in Arrived("text")' : k <= i].text
    BY DEF TextIsTheLast
  <2> DEFINE T == LinesOf(stream, "text")
             last == CHOOSE i \in T : \A k \in T : k <= i
  <2>1. TextTold(fold, stream)
    BY <1>1 DEF SummaryTells, OpenTold
  <2>2. Arrived("text")' = T /\ stream' = stream /\ envelope'.text = fold.text
    BY <1>1, <1>6, <1>8
  <2>3. T = {} => fold.text = "none"
    BY <2>1 DEF TextTold
  <2>4. ASSUME T # {}  PROVE fold.text = stream[last].text
    <3>1. PICK m \in T : fold.text = stream[m].text /\ \A k \in T : k <= m
      BY <2>1, <2>4 DEF TextTold
    <3>2. T \subseteq Nat
      BY <1>1 DEF LinesOf, EventsTyped
    <3> HIDE DEF T
    <3>3. last \in T /\ \A k \in T : k <= last
      BY <3>1
    <3>4. last = m
      <4>1. last <= m /\ m <= last /\ last \in Nat /\ m \in Nat
        BY <3>1, <3>2, <3>3
      <4> HIDE DEF last
      <4> QED
        BY <4>1
    <3> QED
      BY <3>1, <3>4
  <2> QED
    BY <2>2, <2>3, <2>4
<1>14. PartialAnswersAreKept'
  <2> SUFFICES ASSUME child'.at = "refused", speaker' \in {"opencode", "opencode2"}, asked' = "none"
               PROVE  fold'.text # "words"
    BY DEF PartialAnswersAreKept
  <2>1. ~told /\ outcome = "none"
    BY <1>1, <1>3 DEF RowOutcomes
  <2>2. Refuses(logged)
    BY <2>1 DEF told
  <2>3. ~fold.parsed \/ fold.text \in {"none", "empty"}
    BY <2>2 DEF Refuses
  <2>4. ~fold.parsed => fold.text = "none"
    BY <1>1 DEF SummaryTells, OpenTold, TextTold
  <2> QED
    BY <1>1, <2>3, <2>4
<1>15. ReportTells'
  BY <1>9, <1>10, <1>11, <1>12, <1>13, <1>14 DEF ReportTells
<1> QED
  BY <1>4, <1>5, <1>15 DEF EventsIInv

LEMMA EventsStays == EventsIInv /\ UNCHANGED eventVars => EventsIInv'
<1> SUFFICES ASSUME EventsIInv, UNCHANGED eventVars  PROVE EventsIInv'
  OBVIOUS
<1>1. UNCHANGED <<speaker, streams, asked, stream, answers, fold, child, envelope>>
  BY DEF eventVars
<1>2. EventsTyped' /\ SummaryTells'
  BY <1>1, SummaryStays DEF EventsIInv, EventsTyped, SaysTheSame
<1>3. Failed' <=> Failed
  BY <1>1 DEF Failed
<1>4. \A kind : Arrived(kind)' = Arrived(kind)
  BY <1>1 DEF Arrived
<1>5. Reports' <=> Reports
  BY <1>1 DEF Reports
<1>6. EndTurnIsHonest' /\ ErrorsAreTold' /\ CompletedByItself' /\ UsageIsWhole' /\ PartialAnswersAreKept'
  BY <1>1, <1>3, <1>4, <1>5 DEF EventsIInv, ReportTells, EndTurnIsHonest, ErrorsAreTold, CompletedByItself, UsageIsWhole,
                            PartialAnswersAreKept
<1>7. TextIsTheLast'
  BY <1>1, <1>4, <1>5 DEF EventsIInv, ReportTells, TextIsTheLast
<1> QED
  BY <1>2, <1>6, <1>7 DEF EventsIInv, ReportTells

LEMMA EventsIInvHolds ==
  ASSUME EventsIInv
  PROVE  EventsInv
<1>1. EventsTypeOK
  <2>1. \A c \in Class : fold.usage.reported[c] \in 0..fold.usage.steps
    <3>1. UsageSound(fold.usage)
      BY DEF EventsIInv, EventsTyped
    <3> QED
      BY <3>1 DEF UsageSound, UsageRow
  <2>2. fold.text \in {"none", "empty", "words"}
    BY FoldParts DEF EventsIInv, EventsTyped, Words
  <2>3. child.at \in {"running", "closed", "reported", "refused", "crashed"}
    BY ChildParts DEF EventsIInv, EventsTyped
  <2> QED
    BY <2>1, <2>2, <2>3 DEF EventsTypeOK, EventsIInv, EventsTyped
<1>2. WarningsAreFew
  <2>1. \A kind : Arrived(kind) = LinesOf(stream, kind)
    BY DEF Arrived, LinesOf
  <2>2. speaker = "omp" => OmpWarningsTold(fold, stream)
    BY DEF EventsIInv, SummaryTells, OmpTold
  <2>3. speaker = "opencode" => Cardinality(fold.warned) <= MaxWarnings
    BY DEF EventsIInv, SummaryTells
  <2> QED
    BY <2>1, <2>2, <2>3 DEF WarningsAreFew, OmpWarningsTold, WarnSound
<1> QED
  BY <1>1, <1>2 DEF EventsInv, EventsIInv, ReportTells

(* Whatever an engine prints and however its process ends, in any number   *)
(* of lines: a turn is reported as ended only when nothing told of an      *)
(* error, an error reaches the status, totals cover every step and count   *)
(* no message twice, the text is the last one, a partial answer is handed  *)
(* over, and the warnings stay few.                                        *)
THEOREM ReportsAreHonest == EventsSpec => []EventsInv
<1>1. EventsInit => EventsIInv
  BY EventsStart
<1>2. EventsIInv /\ [EventsNext]_eventVars => EventsIInv'
  <2> SUFFICES ASSUME EventsIInv, [EventsNext]_eventVars  PROVE EventsIInv'
    OBVIOUS
  <2>1. ASSUME NEW l \in Printed[speaker], Prints(l)  PROVE EventsIInv'
    BY <2>1, PrintsKeeps
  <2>2. ASSUME NEW m \in Printed["messages"], Answers(m)  PROVE EventsIInv'
    BY <2>2, AnswersKeeps
  <2>3. ASSUME NEW final \in BOOLEAN, NEW failed \in BOOLEAN, Ends(final, failed)  PROVE EventsIInv'
    BY <2>3, EndsKeeps
  <2>4. CASE TooMuch
    BY <2>4, TooMuchKeeps
  <2>5. ASSUME NEW cause \in Causes, Stop(cause)  PROVE EventsIInv'
    BY <2>5, StopKeeps
  <2>6. ASSUME NEW code \in 0..1, NEW signal \in BOOLEAN, Closes(code, signal)  PROVE EventsIInv'
    BY <2>6, ClosesKeeps
  <2>7. ASSUME NEW logged \in BOOLEAN, NEW outcome \in RowOutcomes, Report(logged, outcome)  PROVE EventsIInv'
    BY <2>7, ReportKeeps
  <2>8. CASE UNCHANGED eventVars
    BY <2>8, EventsStays
  <2> QED
    BY <2>1, <2>2, <2>3, <2>4, <2>5, <2>6, <2>7, <2>8 DEF EventsNext
<1>3. EventsIInv => EventsInv
  BY EventsIInvHolds
<1> QED
  BY <1>1, <1>2, <1>3, PTL DEF EventsSpec

-----------------------------------------------------------------------------
(* What one run gives back                                                 *)

USE RunAssumption

-----------------------------------------------------------------------------
(* The inductive invariant                                                 *)

UnwindStep == {"tree", "remove", "row", "retain", "dirs", "proxy"}
Ending == {"none", "failed", "rejected", "unrooted", "retained", "stranded", "kept", "envelope"}

RunRecord ==
  [engine : Engine \cup {"none"}, at : At, isolated : BOOLEAN, fresh : BOOLEAN, tried : BOOLEAN,
   needs : 0..2, proxies : 0..2, dirs : BOOLEAN, claim : {"none", "new", "resumed"},
   attempted : BOOLEAN, stuck : BOOLEAN, group : {"none", "alive", "gone", "unverified"},
   took : {"nothing", "none", "alive", "gone", "unverified"}, unwind : Seq(UnwindStep), end : Ending]

RunTyped ==
  /\ run \in [Run -> RunRecord]
  /\ tree \in {"absent", "clean", "dirty"} /\ branch \in {"absent", "plain", "ahead"}
  /\ row \in {"absent", "reserved", "running", "idle"} /\ lease \in Run \cup {NoRun} /\ work \subseteq Run

Has(s, step) == \E k \in DOMAIN s : s[k] = step
IsDue(r, step) == Is(r, "unwind") /\ Has(run[r].unwind, step)

Unadmitted == {"start", "tree", "add", "preflight", "proxy", "admit"}
Unstarted == Unadmitted \cup {"prepare", "spawn"}
Answered == {"publish", "changes", "remove", "complete", "envelope"}
Closing == {"unwind", "over"}

\* Where the engine stands at each stage, and what cannot have happened yet.
Stages(r) ==
  LET q == run[r] IN
  /\ q.at # "start" => q.engine \in Engine
  /\ q.at \in Unstarted => q.group = "none"
  /\ q.at = "engine" => q.group = "alive"
  /\ q.at \in Answered => q.group = "gone"
  /\ q.at \in Closing => q.group # "alive"
  /\ q.at \in Unadmitted => q.claim = "none"
  /\ q.at \notin Closing => ~q.stuck /\ q.end = "none"
  /\ q.at \notin Closing \cup {"envelope"} => ~q.attempted
  /\ q.at = "envelope" => q.claim = "none" \/ q.attempted
  /\ q.took \notin {"alive", "unverified"}

\* The proxies a run has, stage by stage.
Proxies(r) ==
  LET q == run[r] IN
  /\ q.at \in {"start", "tree", "add", "preflight"} => q.proxies = 0
  /\ q.at = "proxy" => q.proxies <= q.needs
  /\ q.at \in {"admit", "prepare", "spawn", "engine"} => q.proxies = q.needs
  /\ q.at \in Answered /\ q.engine = "opencode" => q.proxies = 0
  /\ q.at \in Closing /\ q.proxies # 0 => q.end = "rejected" \/ IsDue(r, "proxy")

Directories(r) ==
  LET q == run[r] IN
  /\ q.dirs => q.at \notin Unadmitted \cup {"prepare"} /\ q.engine \in {"omp", "crush"}
  /\ q.at \in Closing /\ q.dirs =>
       \/ IsDue(r, "dirs")
       \/ q.end = "unrooted"
       \/ q.engine = "omp" /\ (q.end = "retained" \/ q.stuck)

\* Who has claimed the row and not yet given it back holds the lease.
Leases(r) ==
  LET q == run[r] IN
  /\ q.claim # "none" /\ ~q.attempted => lease = r
  /\ lease = r => q.claim # "none" /\ (q.attempted => q.stuck)
  /\ q.at \in Closing /\ lease = r => q.stuck \/ q.end = "stranded" \/ IsDue(r, "row") \/ IsDue(r, "retain")

\* A run whose engine may be alive unwinds by other steps than all others.
Unwinding(r) ==
  LET q == run[r] IN
  /\ q.at = "engine" /\ q.claim # "none" => row = "running"
  /\ q.group = "unverified" =>
       /\ q.end = "retained" /\ ~IsDue(r, "tree") /\ ~IsDue(r, "remove") /\ ~IsDue(r, "row")
       /\ q.claim # "none" => row = "running" /\ (lease = NoRun \/ lease = r)
  /\ IsDue(r, "retain") => q.unwind = Unverified(q.engine) /\ q.group = "unverified" /\ ~q.attempted
  /\ q.end = "envelope" => /\ ~IsDue(r, "row") /\ ~IsDue(r, "retain")
                           /\ q.group = "gone" /\ ~q.stuck /\ (q.claim = "none" \/ q.attempted)

Sound(r) == Stages(r) /\ Proxies(r) /\ Directories(r) /\ Leases(r) /\ Unwinding(r)

CoderRunIInv == RunTyped /\ \A r \in Run : Sound(r)

-----------------------------------------------------------------------------
(* Lists of steps, and records                                             *)

LEMMA TailHas ==
  ASSUME NEW s \in Seq(UnwindStep), s # <<>>, NEW x
  PROVE  /\ Tail(s) \in Seq(UnwindStep)
         /\ Has(Tail(s), x) => Has(s, x)
         /\ Has(s, x) => Has(Tail(s), x) \/ x = Head(s)
<1>1. Len(s) \in Nat /\ Len(s) # 0 /\ DOMAIN s = 1..Len(s) /\ Head(s) = s[1]
  OBVIOUS
<1>2. /\ DOMAIN Tail(s) = 1..(Len(s) - 1) /\ Tail(s) \in Seq(UnwindStep)
      /\ \A k \in 1..(Len(s) - 1) : Tail(s)[k] = s[k + 1]
  BY <1>1
<1>3. ASSUME NEW k \in DOMAIN s, s[k] = x, x # Head(s) PROVE Has(Tail(s), x)
  <2>1. k \in 1..Len(s) /\ k # 1
    BY <1>1, <1>3
  <2>2. k - 1 \in 1..(Len(s) - 1) /\ (k - 1) + 1 = k
    BY <1>1, <2>1
  <2> QED
    BY <1>2, <1>3, <2>2 DEF Has
<1>4. \A k \in 1..(Len(s) - 1) : k + 1 \in 1..Len(s)
  BY <1>1
<1> QED
  BY <1>1, <1>2, <1>3, <1>4 DEF Has

LEMMA PrefixHas ==
  ASSUME NEW s \in Seq(UnwindStep), NEW y \in UnwindStep, NEW x
  PROVE  /\ <<y>> \o s \in Seq(UnwindStep)
         /\ Has(<<y>> \o s, x) <=> x = y \/ Has(s, x)
         /\ Tail(<<y>> \o s) = s
<1>1. DOMAIN s = 1..Len(s) /\ Len(s) \in Nat
  OBVIOUS
<1>2. /\ DOMAIN (<<y>> \o s) = 1..(Len(s) + 1) /\ (<<y>> \o s)[1] = y
      /\ \A k \in 2..(Len(s) + 1) : (<<y>> \o s)[k] = s[k - 1]
      /\ <<y>> \o s \in Seq(UnwindStep) /\ Len(<<y>> \o s) = Len(s) + 1
  BY <1>1
<1>3. \A k \in 1..Len(s) : k + 1 \in 2..(Len(s) + 1) /\ (k + 1) - 1 = k /\ k + 1 \in 1..(Len(s) + 1)
  BY <1>1
<1>4. \A k \in 1..(Len(s) + 1) : k = 1 \/ (k \in 2..(Len(s) + 1) /\ k - 1 \in 1..Len(s))
  BY <1>1
<1>5. 1 \in 1..(Len(s) + 1)
  BY <1>1
<1>6. Has(<<y>> \o s, x) <=> x = y \/ Has(s, x)
  BY <1>1, <1>2, <1>3, <1>4, <1>5 DEF Has
<1>7. Tail(<<y>> \o s) = s
  BY <1>1, <1>2
<1> QED
  BY <1>2, <1>6, <1>7

\* What is due after each failure.
LEMMA DueAfter ==
  ASSUME NEW e \in Engine
  PROVE  /\ Finally(e) \in Seq(UnwindStep) /\ EngineFailed(e) \in Seq(UnwindStep)
         /\ AfterFailed(e) \in Seq(UnwindStep) /\ Unverified(e) \in Seq(UnwindStep)
         /\ Has(Finally(e), "proxy") /\ (e = "crush" => Has(Finally(e), "dirs"))
         /\ \A x \in {"tree", "remove", "row", "retain"} : ~Has(Finally(e), x)
         /\ Has(EngineFailed(e), "proxy") /\ Has(EngineFailed(e), "row") /\ ~Has(EngineFailed(e), "retain")
         /\ e \in {"omp", "crush"} => Has(EngineFailed(e), "dirs") /\ Has(AfterFailed(e), "dirs")
         /\ e # "opencode" => Has(AfterFailed(e), "proxy") /\ Has(AfterFailed(e), "row")
         /\ ~Has(AfterFailed(e), "retain")
         /\ Has(Unverified(e), "proxy") /\ Has(Unverified(e), "retain")
         /\ e = "crush" => Has(Unverified(e), "dirs")
         /\ \A x \in {"tree", "remove", "row"} : ~Has(Unverified(e), x)
         /\ Unverified(e) = <<"retain">> \o Finally(e)
<1>0. e \in {"opencode", "opencode2", "omp", "crush"}
  OBVIOUS
<1>1. /\ Finally(e) \in Seq(UnwindStep) /\ Has(Finally(e), "proxy")
      /\ e = "crush" => Has(Finally(e), "dirs")
      /\ \A x \in {"tree", "remove", "row", "retain"} : ~Has(Finally(e), x)
  <2>1. CASE e = "crush"
    BY <2>1 DEF Finally, Has, UnwindStep
  <2>2. CASE e # "crush"
    BY <2>2 DEF Finally, Has, UnwindStep
  <2> QED
    BY <2>1, <2>2
<1>2. /\ EngineFailed(e) \in Seq(UnwindStep)
      /\ Has(EngineFailed(e), "proxy") /\ Has(EngineFailed(e), "row") /\ ~Has(EngineFailed(e), "retain")
      /\ e \in {"omp", "crush"} => Has(EngineFailed(e), "dirs")
  <2>1. CASE e = "opencode"
    BY <2>1 DEF EngineFailed, Has, UnwindStep
  <2>2. CASE e = "opencode2"
    BY <2>2 DEF EngineFailed, Has, UnwindStep
  <2>3. CASE e = "omp"
    BY <2>3 DEF EngineFailed, Has, UnwindStep
  <2>4. CASE e = "crush"
    BY <2>4 DEF EngineFailed, Has, UnwindStep
  <2> QED
    BY <1>0, <2>1, <2>2, <2>3, <2>4
<1>3. /\ AfterFailed(e) \in Seq(UnwindStep) /\ ~Has(AfterFailed(e), "retain")
      /\ e # "opencode" => Has(AfterFailed(e), "proxy") /\ Has(AfterFailed(e), "row")
      /\ e \in {"omp", "crush"} => Has(AfterFailed(e), "dirs")
  <2>1. CASE e = "opencode"
    BY <2>1 DEF AfterFailed, Has, UnwindStep
  <2>2. CASE e = "opencode2"
    BY <2>2 DEF AfterFailed, Has, UnwindStep
  <2>3. CASE e = "omp"
    BY <2>3 DEF AfterFailed, Has, UnwindStep
  <2>4. CASE e = "crush"
    BY <2>4 DEF AfterFailed, Has, UnwindStep
  <2> QED
    BY <1>0, <2>1, <2>2, <2>3, <2>4
<1>4. /\ Unverified(e) = <<"retain">> \o Finally(e) /\ Unverified(e) \in Seq(UnwindStep)
      /\ \A x : Has(Unverified(e), x) <=> x = "retain" \/ Has(Finally(e), x)
  <2>1. Unverified(e) = <<"retain">> \o Finally(e) /\ "retain" \in UnwindStep
    BY DEF Unverified, UnwindStep
  <2> QED
    BY <1>1, <2>1, PrefixHas
<1> QED
  BY <1>1, <1>2, <1>3, <1>4

\* The lists of the steps before the engine.
LEMMA DueBefore ==
  /\ \A x : ~Has(<<>>, x)
  /\ \A x : Has(<<"tree">>, x) <=> x = "tree"
  /\ \A x : Has(<<"proxy", "tree">>, x) <=> x \in {"proxy", "tree"}
  /\ \A x : Has(<<"row", "proxy">>, x) <=> x \in {"row", "proxy"}
  /\ \A x : Has(<<"tree", "row", "proxy">>, x) <=> x \in {"tree", "row", "proxy"}
  /\ \A x : Has(<<"tree", "tree", "row", "proxy">>, x) <=> x \in {"tree", "row", "proxy"}
  /\ \A x : Has(<<"tree", "row", "dirs", "tree", "proxy">>, x) <=> x \in {"tree", "row", "dirs", "proxy"}
  /\ <<>> \in Seq(UnwindStep) /\ <<"tree">> \in Seq(UnwindStep) /\ <<"proxy", "tree">> \in Seq(UnwindStep)
  /\ <<"row", "proxy">> \in Seq(UnwindStep) /\ <<"tree", "row", "proxy">> \in Seq(UnwindStep)
  /\ <<"tree", "tree", "row", "proxy">> \in Seq(UnwindStep)
  /\ <<"tree", "row", "dirs", "tree", "proxy">> \in Seq(UnwindStep)
<1>1. /\ <<>> \in Seq(UnwindStep) /\ <<"tree">> \in Seq(UnwindStep) /\ <<"proxy", "tree">> \in Seq(UnwindStep)
      /\ <<"row", "proxy">> \in Seq(UnwindStep) /\ <<"tree", "row", "proxy">> \in Seq(UnwindStep)
      /\ <<"tree", "tree", "row", "proxy">> \in Seq(UnwindStep)
      /\ <<"tree", "row", "dirs", "tree", "proxy">> \in Seq(UnwindStep)
  BY DEF UnwindStep
<1>2. \A x : ~Has(<<>>, x)
  BY DEF Has
<1>3. \A x : Has(<<"tree">>, x) <=> x = "tree"
  BY DEF Has
<1>4. \A x : Has(<<"proxy", "tree">>, x) <=> x \in {"proxy", "tree"}
  BY DEF Has
<1>5. \A x : Has(<<"row", "proxy">>, x) <=> x \in {"row", "proxy"}
  BY DEF Has
<1>6. \A x : Has(<<"tree", "row", "proxy">>, x) <=> x \in {"tree", "row", "proxy"}
  BY DEF Has
<1>7. \A x : Has(<<"tree", "tree", "row", "proxy">>, x) <=> x \in {"tree", "row", "proxy"}
  BY DEF Has
<1>8. \A x : Has(<<"tree", "row", "dirs", "tree", "proxy">>, x) <=> x \in {"tree", "row", "dirs", "proxy"}
  BY DEF Has
<1> QED
  BY <1>1, <1>2, <1>3, <1>4, <1>5, <1>6, <1>7, <1>8

\* A record of a run stays one when a field is rewritten.
LEMMA FieldSet ==
  ASSUME NEW x \in RunRecord
  PROVE  /\ \A v \in Engine \cup {"none"} : [x EXCEPT !.engine = v] \in RunRecord
         /\ \A v \in At : [x EXCEPT !.at = v] \in RunRecord
         /\ \A v \in BOOLEAN : [x EXCEPT !.isolated = v] \in RunRecord
         /\ \A v \in BOOLEAN : [x EXCEPT !.fresh = v] \in RunRecord
         /\ \A v \in BOOLEAN : [x EXCEPT !.tried = v] \in RunRecord
         /\ \A v \in 0..2 : [x EXCEPT !.needs = v] \in RunRecord
         /\ \A v \in 0..2 : [x EXCEPT !.proxies = v] \in RunRecord
         /\ \A v \in BOOLEAN : [x EXCEPT !.dirs = v] \in RunRecord
         /\ \A v \in {"none", "new", "resumed"} : [x EXCEPT !.claim = v] \in RunRecord
         /\ \A v \in BOOLEAN : [x EXCEPT !.attempted = v] \in RunRecord
         /\ \A v \in BOOLEAN : [x EXCEPT !.stuck = v] \in RunRecord
         /\ \A v \in {"none", "alive", "gone", "unverified"} : [x EXCEPT !.group = v] \in RunRecord
         /\ \A v \in {"nothing", "none", "alive", "gone", "unverified"} : [x EXCEPT !.took = v] \in RunRecord
         /\ \A v \in Seq(UnwindStep) : [x EXCEPT !.unwind = v] \in RunRecord
         /\ \A v \in Ending : [x EXCEPT !.end = v] \in RunRecord
<1>1. \A v \in Engine \cup {"none"} : [x EXCEPT !.engine = v] \in RunRecord
  BY DEF RunRecord
<1>2. \A v \in At : [x EXCEPT !.at = v] \in RunRecord
  BY DEF RunRecord
<1>3. \A v \in BOOLEAN : [x EXCEPT !.isolated = v] \in RunRecord
  BY DEF RunRecord
<1>4. \A v \in BOOLEAN : [x EXCEPT !.fresh = v] \in RunRecord
  BY DEF RunRecord
<1>5. \A v \in BOOLEAN : [x EXCEPT !.tried = v] \in RunRecord
  BY DEF RunRecord
<1>6. \A v \in 0..2 : [x EXCEPT !.needs = v] \in RunRecord
  BY DEF RunRecord
<1>7. \A v \in 0..2 : [x EXCEPT !.proxies = v] \in RunRecord
  BY DEF RunRecord
<1>8. \A v \in BOOLEAN : [x EXCEPT !.dirs = v] \in RunRecord
  BY DEF RunRecord
<1>9. \A v \in {"none", "new", "resumed"} : [x EXCEPT !.claim = v] \in RunRecord
  BY DEF RunRecord
<1>10. \A v \in BOOLEAN : [x EXCEPT !.attempted = v] \in RunRecord
  BY DEF RunRecord
<1>11. \A v \in BOOLEAN : [x EXCEPT !.stuck = v] \in RunRecord
  BY DEF RunRecord
<1>12. \A v \in {"none", "alive", "gone", "unverified"} : [x EXCEPT !.group = v] \in RunRecord
  BY DEF RunRecord
<1>13. \A v \in {"nothing", "none", "alive", "gone", "unverified"} : [x EXCEPT !.took = v] \in RunRecord
  BY DEF RunRecord
<1>14. \A v \in Seq(UnwindStep) : [x EXCEPT !.unwind = v] \in RunRecord
  BY DEF RunRecord
<1>15. \A v \in Ending : [x EXCEPT !.end = v] \in RunRecord
  BY DEF RunRecord
<1> QED
  BY <1>1, <1>2, <1>3, <1>4, <1>5, <1>6, <1>7, <1>8, <1>9, <1>10, <1>11, <1>12, <1>13, <1>14, <1>15

-----------------------------------------------------------------------------
(* Steps of one run and the others                                         *)

LEMMA RunIInvInit == RunInit => CoderRunIInv
<1> SUFFICES ASSUME RunInit PROVE CoderRunIInv
  OBVIOUS
<1>1. NewRun \in RunRecord
  <2>1. "start" \in At /\ "none" \in Ending /\ <<>> \in Seq(UnwindStep) /\ 0 \in 0..2
    BY DEF At, Ending
  <2> QED
    BY <2>1 DEF NewRun, RunRecord
<1>2. RunTyped
  BY <1>1 DEF RunTyped, RunInit
<1>3. ASSUME NEW r \in Run PROVE Sound(r)
  <2>1. run[r] = NewRun /\ lease = NoRun /\ lease # r
    BY DEF RunInit
  <2> QED
    BY <2>1
    DEF Sound, Stages, Proxies, Directories, Leases, Unwinding, IsDue, Is, NewRun, Unstarted, Unadmitted, Answered, Closing
<1> QED
  BY <1>2, <1>3 DEF CoderRunIInv

LEMMA RunIInvImplies == CoderRunIInv => RunInv
<1> SUFFICES ASSUME CoderRunIInv PROVE RunInv
  OBVIOUS
<1>1. RunTypeOK
  BY DEF CoderRunIInv, RunTyped, RunTypeOK, RunRecord
<1>2. ASSUME NEW r \in Run, Over(r)
      PROVE  /\ run[r].proxies > 0 => run[r].end = "rejected"
             /\ lease = r => run[r].stuck \/ run[r].end = "stranded"
             /\ run[r].dirs =>
                  \/ run[r].end = "unrooted"
                  \/ run[r].engine = "omp" /\ (run[r].end = "retained" \/ run[r].stuck)
  <2>1. run[r].at = "over" /\ Sound(r) /\ (run[r].proxies > 0 => run[r].proxies # 0)
    <3>1. run[r].proxies \in 0..2
      BY DEF CoderRunIInv, RunTyped, RunRecord
    <3> QED
      BY <1>2, <3>1 DEF CoderRunIInv, Over, Is
  <2>2. \A step : ~IsDue(r, step)
    BY <2>1 DEF IsDue, Is
  <2>3. run[r].proxies > 0 => run[r].end = "rejected"
    BY <2>1, <2>2 DEF Sound, Proxies, Closing
  <2>4. lease = r => run[r].stuck \/ run[r].end = "stranded"
    BY <2>1, <2>2 DEF Sound, Leases, Closing
  <2>5. run[r].dirs =>
          \/ run[r].end = "unrooted"
          \/ run[r].engine = "omp" /\ (run[r].end = "retained" \/ run[r].stuck)
    BY <2>1, <2>2 DEF Sound, Directories, Closing
  <2> QED
    BY <2>3, <2>4, <2>5
<1>3. UnverifiedStaysBusy
  BY DEF CoderRunIInv, Sound, Unwinding, UnverifiedStaysBusy
<1>4. NoTreeUnderItsEngine
  BY DEF CoderRunIInv, Sound, Stages, Unwinding, NoTreeUnderItsEngine
<1>5. ASSUME NEW r \in Run, run[r].group = "alive" PROVE run[r].proxies = run[r].needs
  <2>1. run[r].at \in At /\ Sound(r)
    BY DEF CoderRunIInv, RunTyped, RunRecord
  <2>2. run[r].at = "engine"
    BY <1>5, <2>1 DEF Sound, Stages, At, Unstarted, Unadmitted, Answered, Closing
  <2> QED
    BY <2>1, <2>2 DEF Sound, Proxies
<1> QED
  BY <1>1, <1>2, <1>3, <1>4, <1>5 DEF RunInv, EveryExitSettles, ProxiesOutliveTheEngine

\* The lease and the row change hands only as their holder, or the free lease, allows.
HandsOver(r) ==
  /\ row' \in {"absent", "reserved", "running", "idle"}
  /\ lease' = lease \/ (lease = r /\ lease' = NoRun) \/ (lease = NoRun /\ lease' = r /\ row # "running")
  /\ row' = row \/ lease = r \/ (lease = NoRun /\ lease' = r)

GitTyped ==
  tree' \in {"absent", "clean", "dirty"} /\ branch' \in {"absent", "plain", "ahead"} /\ work' \subseteq Run

LEMMA StepKeeps ==
  ASSUME CoderRunIInv, NEW r \in Run, NEW x \in RunRecord, Becomes(r, x), GitTyped, HandsOver(r), Sound(r)'
  PROVE  CoderRunIInv'
<1>1. RunTyped'
  BY DEF CoderRunIInv, RunTyped, Becomes, GitTyped, HandsOver
<1>2. ASSUME NEW q \in Run, q # r PROVE Sound(q)'
  <2>1. run'[q] = run[q] /\ Sound(q) /\ q # NoRun /\ r # NoRun
    BY <1>2 DEF CoderRunIInv, RunTyped, Becomes
  <2>2. (lease' = q) <=> (lease = q)
    BY <1>2, <2>1 DEF HandsOver
  <2>3. Stages(q)' /\ Proxies(q)' /\ Directories(q)' /\ Leases(q)'
    BY <2>1, <2>2 DEF Sound, Stages, Proxies, Directories, Leases, IsDue, Is
  <2>4. (lease = q \/ (lease = NoRun /\ row = "running")) /\ row = "running" =>
          (lease' = NoRun \/ lease' = q) /\ row' = "running"
    BY <1>2, <2>1 DEF HandsOver
  <2>5. run[q].at = "engine" /\ run[q].claim # "none" => lease = q
    BY <2>1 DEF Sound, Stages, Leases, Closing
  <2>6. Unwinding(q)'
    BY <2>1, <2>4, <2>5 DEF Sound, Unwinding, IsDue, Is
  <2> QED
    BY <2>3, <2>6 DEF Sound
<1> QED
  BY <1>1, <1>2 DEF CoderRunIInv

LEMMA Still ==
  ASSUME CoderRunIInv, NEW r \in Run
  PROVE  /\ run[r] \in RunRecord /\ Sound(r) /\ r # NoRun
         /\ UNCHANGED <<tree, branch, work>> => GitTyped
         /\ UNCHANGED <<row, lease>> => HandsOver(r)
         /\ run[r].at \in At /\ run[r].proxies \in 0..2 /\ run[r].needs \in 0..2
         /\ row \in {"absent", "reserved", "running", "idle"} /\ lease \in Run \cup {NoRun}
         /\ \A x : Becomes(r, x) => run'[r] = x
<1>1. RunTyped
  BY DEF CoderRunIInv
<1>2. run[r] \in RunRecord /\ Sound(r) /\ \A x : Becomes(r, x) => run'[r] = x
  BY <1>1 DEF CoderRunIInv, RunTyped, Becomes
<1>3. run[r].at \in At /\ run[r].proxies \in 0..2 /\ run[r].needs \in 0..2
  BY <1>2 DEF RunRecord
<1> QED
  BY <1>1, <1>2, <1>3 DEF RunTyped, GitTyped, HandsOver

\* A run that unwinds: what it still holds is due, or its ending is one that keeps it.
LEMMA Unwinds ==
  ASSUME CoderRunIInv, NEW r \in Run, NEW x \in RunRecord, Becomes(r, x), GitTyped, HandsOver(r), x.at = "unwind",
         x.engine \in Engine, x.group # "alive", x.took \notin {"alive", "unverified"},
         x.proxies # 0 => x.end = "rejected" \/ Has(x.unwind, "proxy"),
         x.dirs => /\ x.engine \in {"omp", "crush"}
                   /\ \/ Has(x.unwind, "dirs")
                      \/ x.end = "unrooted"
                      \/ x.engine = "omp" /\ (x.end = "retained" \/ x.stuck),
         x.claim # "none" /\ ~x.attempted => lease' = r,
         lease' = r => /\ x.claim # "none" /\ (x.attempted => x.stuck)
                       /\ x.stuck \/ x.end = "stranded" \/ Has(x.unwind, "row") \/ Has(x.unwind, "retain"),
         x.group = "unverified" =>
           /\ x.end = "retained" /\ ~Has(x.unwind, "tree") /\ ~Has(x.unwind, "remove") /\ ~Has(x.unwind, "row")
           /\ x.claim # "none" => row' = "running" /\ (lease' = NoRun \/ lease' = r),
         Has(x.unwind, "retain") => x.unwind = Unverified(x.engine) /\ x.group = "unverified" /\ ~x.attempted,
         x.end = "envelope" => /\ ~Has(x.unwind, "row") /\ ~Has(x.unwind, "retain")
                               /\ x.group = "gone" /\ ~x.stuck /\ (x.claim = "none" \/ x.attempted)
  PROVE  CoderRunIInv'
<1>3. run'[r] = x
  BY Still
<1>4. Stages(r)' /\ Proxies(r)'
  BY <1>3 DEF Stages, Proxies, IsDue, Is, Closing, Unstarted, Unadmitted, Answered
<1>5. Directories(r)' /\ Leases(r)'
  BY <1>3 DEF Directories, Leases, IsDue, Is, Closing, Unadmitted
<1>6. Unwinding(r)'
  BY <1>3 DEF Unwinding, IsDue, Is
<1> QED
  BY <1>4, <1>5, <1>6, StepKeeps DEF Sound

LEMMA GivesUp ==
  ASSUME CoderRunIInv, NEW r \in Run, NEW x \in RunRecord, NEW how \in Ending, NEW steps \in Seq(UnwindStep),
         Becomes(r, GiveUp(x, how, steps)), GitTyped, HandsOver(r),
         x.engine \in Engine, x.group # "alive", x.took \notin {"alive", "unverified"},
         x.proxies # 0 => how = "rejected" \/ Has(steps, "proxy"),
         x.dirs => /\ x.engine \in {"omp", "crush"}
                   /\ \/ Has(steps, "dirs")
                      \/ how = "unrooted"
                      \/ x.engine = "omp" /\ (how = "retained" \/ x.stuck),
         x.claim # "none" /\ ~x.attempted => lease' = r,
         lease' = r => /\ x.claim # "none" /\ (x.attempted => x.stuck)
                       /\ x.stuck \/ how = "stranded" \/ Has(steps, "row") \/ Has(steps, "retain"),
         x.group = "unverified" =>
           /\ how = "retained" /\ ~Has(steps, "tree") /\ ~Has(steps, "remove") /\ ~Has(steps, "row")
           /\ x.claim # "none" => row' = "running" /\ (lease' = NoRun \/ lease' = r),
         Has(steps, "retain") => steps = Unverified(x.engine) /\ x.group = "unverified" /\ ~x.attempted,
         how = "envelope" => /\ ~Has(steps, "row") /\ ~Has(steps, "retain")
                             /\ x.group = "gone" /\ ~x.stuck /\ (x.claim = "none" \/ x.attempted)
  PROVE  CoderRunIInv'
<1> DEFINE y == GiveUp(x, how, steps)
<1>1. y \in RunRecord
  BY FieldSet DEF GiveUp, At
<1>2. /\ y.at = "unwind" /\ y.end = how /\ y.unwind = steps
      /\ y.engine = x.engine /\ y.group = x.group /\ y.took = x.took /\ y.proxies = x.proxies
      /\ y.claim = x.claim /\ (y.dirs <=> x.dirs) /\ (y.attempted <=> x.attempted) /\ (y.stuck <=> x.stuck)
  BY DEF RunRecord, GiveUp
<1>3. Becomes(r, y)
  OBVIOUS
<1> HIDE DEF y
<1> QED
  BY <1>1, <1>2, <1>3, Unwinds

\* A run that goes on to another stage.
LEMMA Proceeds ==
  ASSUME CoderRunIInv, NEW r \in Run, NEW x \in RunRecord, Becomes(r, x), GitTyped, HandsOver(r),
         x.at \notin Closing \cup {"start"}, x.engine \in Engine, x.took \notin {"alive", "unverified"},
         x.at \in Unstarted => x.group = "none",
         x.at = "engine" => x.group = "alive" /\ (x.claim # "none" => row' = "running"),
         x.at \in Answered => x.group = "gone" /\ (x.engine = "opencode" => x.proxies = 0),
         x.group # "unverified", ~x.stuck, x.end = "none",
         x.at \in Unadmitted => x.claim = "none",
         x.at # "envelope" => ~x.attempted,
         x.at = "envelope" => x.claim = "none" \/ x.attempted,
         x.at \in {"tree", "add", "preflight"} => x.proxies = 0,
         x.at = "proxy" => x.proxies <= x.needs,
         x.at \in {"admit", "prepare", "spawn", "engine"} => x.proxies = x.needs,
         x.dirs => x.at \notin Unadmitted \cup {"prepare"} /\ x.engine \in {"omp", "crush"},
         x.claim # "none" /\ ~x.attempted => lease' = r,
         lease' = r => x.claim # "none" /\ ~x.attempted
  PROVE  CoderRunIInv'
<1>1. run'[r] = x /\ x.at # "unwind"
  BY Still DEF Closing
<1>2. Stages(r)'
  BY <1>1 DEF Stages, Closing
<1>3. Proxies(r)'
  BY <1>1 DEF Proxies, Closing
<1>4. Directories(r)' /\ Leases(r)'
  BY <1>1 DEF Directories, Leases, Closing
<1>5. Unwinding(r)'
  BY <1>1 DEF Unwinding, IsDue, Is
<1> QED
  BY <1>2, <1>3, <1>4, <1>5, StepKeeps DEF Sound

-----------------------------------------------------------------------------
(* Up to the engine                                                        *)

LEMMA Unbegun ==
  ASSUME CoderRunIInv, NEW r \in Run, run[r].at \in Unstarted
  PROVE  /\ run[r] \in RunRecord /\ run[r].group = "none" /\ ~run[r].attempted /\ ~run[r].stuck
         /\ run[r].end = "none" /\ run[r].took \notin {"alive", "unverified"}
         /\ run[r].at # "start" => run[r].engine \in Engine
         /\ run[r].at \in Unadmitted => run[r].claim = "none" /\ lease # r
         /\ run[r].at # "spawn" => ~run[r].dirs
         /\ run[r].dirs => run[r].engine \in {"omp", "crush"}
         /\ run[r].claim # "none" => lease = r
         /\ lease = r => run[r].claim # "none"
         /\ run[r].at \in {"start", "tree", "add", "preflight"} => run[r].proxies = 0
         /\ run[r].at = "proxy" => run[r].proxies <= run[r].needs
         /\ run[r].at \in {"admit", "prepare", "spawn"} => run[r].proxies = run[r].needs
<1>1. /\ run[r] \in RunRecord /\ Sound(r)
      /\ run[r].at \notin Closing \cup {"engine"} \cup Answered
  BY Still DEF Unstarted, Unadmitted, Closing, Answered
<1>2. /\ run[r].group = "none" /\ ~run[r].attempted /\ ~run[r].stuck
      /\ run[r].end = "none" /\ run[r].took \notin {"alive", "unverified"}
      /\ run[r].at # "start" => run[r].engine \in Engine
      /\ run[r].at \in Unadmitted => run[r].claim = "none"
  BY <1>1 DEF Sound, Stages, Answered
<1>3. /\ run[r].at \in {"start", "tree", "add", "preflight"} => run[r].proxies = 0
      /\ run[r].at = "proxy" => run[r].proxies <= run[r].needs
      /\ run[r].at \in {"admit", "prepare", "spawn"} => run[r].proxies = run[r].needs
  BY <1>1 DEF Sound, Proxies
<1>4. /\ run[r].at # "spawn" => ~run[r].dirs
      /\ run[r].dirs => run[r].engine \in {"omp", "crush"}
  BY <1>1 DEF Sound, Directories, Unstarted
<1>5. /\ run[r].claim # "none" => lease = r
      /\ lease = r => run[r].claim # "none"
  BY <1>1, <1>2 DEF Sound, Leases
<1> QED
  BY <1>1, <1>2, <1>3, <1>4, <1>5

\* A failure before the engine: proxies, row and directories are due if there are any.
LEMMA FailsBefore ==
  ASSUME CoderRunIInv, NEW r \in Run, run[r].at \in Unstarted \ {"start"},
         NEW how \in {"failed", "rejected"}, NEW steps \in Seq(UnwindStep),
         Becomes(r, GiveUp(run[r], how, steps)), GitTyped, UNCHANGED <<row, lease>>,
         run[r].proxies # 0 => how = "rejected" \/ Has(steps, "proxy"),
         run[r].dirs => Has(steps, "dirs"),
         run[r].claim # "none" => Has(steps, "row"),
         ~Has(steps, "retain")
  PROVE  CoderRunIInv'
<1>1. HandsOver(r) /\ how \in Ending
  BY Still DEF Ending
<1> QED
  BY <1>1, Unbegun, GivesUp

\* The fields on which the obligations of a later stage rest.
Alike(x, y) ==
  /\ x.engine = y.engine /\ x.group = y.group /\ x.claim = y.claim /\ x.took = y.took /\ x.end = y.end
  /\ x.proxies = y.proxies /\ (x.dirs <=> y.dirs) /\ (x.attempted <=> y.attempted) /\ (x.stuck <=> y.stuck)

LEMMA GoesOn ==
  ASSUME CoderRunIInv, NEW r \in Run, run[r].at \in Unstarted \ {"start"}, NEW x \in RunRecord,
         Becomes(r, x), GitTyped, UNCHANGED <<row, lease>>, Alike(x, run[r]), x.at \in Unstarted \ {"start"},
         x.at \in Unadmitted => run[r].at \in Unadmitted,
         x.at \in {"tree", "add", "preflight"} => run[r].at \in {"tree", "add", "preflight"},
         x.at = "proxy" => x.proxies <= x.needs,
         x.at \in {"admit", "prepare", "spawn"} => x.proxies = x.needs,
         run[r].dirs => x.at = "spawn"
  PROVE  CoderRunIInv'
<1>1. /\ HandsOver(r)
      /\ x.at \notin Closing \cup Answered \cup {"start", "engine"} /\ x.at # "envelope"
      /\ run[r].at \in Unstarted
  BY Still DEF Unstarted, Unadmitted, Closing, Answered
<1>2. /\ x.engine \in Engine /\ x.took \notin {"alive", "unverified"} /\ x.group = "none"
      /\ ~x.stuck /\ x.end = "none" /\ ~x.attempted
      /\ x.at \in Unadmitted => x.claim = "none"
      /\ x.at \in {"tree", "add", "preflight"} => x.proxies = 0
      /\ x.claim # "none" => lease' = r
      /\ lease' = r => x.claim # "none"
  BY <1>1, Unbegun DEF Alike
<1>3. x.dirs => x.at \notin Unadmitted \cup {"prepare"} /\ x.engine \in {"omp", "crush"}
  BY <1>1, Unbegun DEF Alike, Unadmitted
<1> QED
  BY <1>1, <1>2, <1>3, Proceeds

LEMMA Begins ==
  ASSUME CoderRunIInv, NEW r \in Run, Begin(r) \/ FindTree(r) \/ AddTree(r)
  PROVE  CoderRunIInv'
<1>1. /\ run[r] \in RunRecord /\ HandsOver(r) /\ GitTyped /\ UNCHANGED <<row, lease>>
      /\ run[r].at \in {"start", "tree", "add"}
  BY Still DEF Begin, Chosen, Refused, FindTree, AddTree, Git, Session, Is, GitTyped, CoderRunIInv, RunTyped
<1>2. /\ run[r].at \in Unstarted /\ run[r].at \in Unadmitted
      /\ "tree" \in At /\ "add" \in At /\ "preflight" \in At /\ "failed" \in Ending
      /\ {"tree", "add", "preflight"} \cap (Closing \cup Answered \cup {"start", "engine", "proxy", "prepare", "spawn", "admit"}) = {}
  BY <1>1 DEF Unstarted, Unadmitted, At, Ending, Closing, Answered
<1>3. CASE Begin(r)
  <2>1. PICK e \in Engine :
          \/ Becomes(r, [run[r] EXCEPT !.engine = e, !.at = "tree"])
          \/ Becomes(r, [run[r] EXCEPT !.engine = e, !.at = "preflight"])
          \/ Becomes(r, GiveUp([run[r] EXCEPT !.engine = e], "failed", <<>>))
    BY <1>3 DEF Begin, Chosen, Refused
  <2>2. ASSUME NEW at \in {"tree", "preflight"}, Becomes(r, [run[r] EXCEPT !.engine = e, !.at = at])
        PROVE  CoderRunIInv'
    <3> DEFINE x == [run[r] EXCEPT !.engine = e, !.at = at]
    <3>1. x \in RunRecord
      BY <1>1, <1>2, FieldSet
    <3>2. /\ x.at = at /\ x.engine = e /\ x.group = run[r].group /\ x.claim = run[r].claim
          /\ x.took = run[r].took /\ x.end = run[r].end /\ x.proxies = run[r].proxies
          /\ (x.dirs <=> run[r].dirs) /\ (x.attempted <=> run[r].attempted) /\ (x.stuck <=> run[r].stuck)
      BY <1>1 DEF RunRecord
    <3> HIDE DEF x
    <3>3. x.at \notin Closing \cup Answered \cup {"start", "engine", "proxy", "prepare", "spawn", "admit", "envelope"}
      BY <1>2, <3>2 DEF Answered
    <3> QED
      BY <1>1, <1>2, <2>2, <3>1, <3>2, <3>3, Unbegun, Proceeds DEF x
  <2>3. ASSUME Becomes(r, GiveUp([run[r] EXCEPT !.engine = e], "failed", <<>>))
        PROVE  CoderRunIInv'
    <3> DEFINE x == [run[r] EXCEPT !.engine = e]
    <3>1. x \in RunRecord
      BY <1>1, FieldSet
    <3>2. /\ x.engine = e /\ x.group = run[r].group /\ x.claim = run[r].claim
          /\ x.took = run[r].took /\ x.proxies = run[r].proxies
          /\ (x.dirs <=> run[r].dirs) /\ (x.attempted <=> run[r].attempted) /\ (x.stuck <=> run[r].stuck)
      BY <1>1 DEF RunRecord
    <3> HIDE DEF x
    <3>3. Becomes(r, GiveUp(x, "failed", <<>>))
      BY <2>3 DEF x
    <3>4. /\ <<>> \in Seq(UnwindStep) /\ ~Has(<<>>, "row") /\ ~Has(<<>>, "retain")
      BY DueBefore
    <3>5. /\ x.proxies = 0 /\ x.claim = "none" /\ lease' # r /\ x.group = "none" /\ ~x.dirs
          /\ x.took \notin {"alive", "unverified"}
      BY <1>1, <1>2, <1>3, <3>2, Unbegun DEF Begin, Is
    <3> QED
      BY <1>1, <1>2, <3>1, <3>2, <3>3, <3>4, <3>5, GivesUp
  <2> QED
    BY <2>1, <2>2, <2>3
<1>4. ASSUME NEW at \in {"add", "preflight"}, Go(r, at), run[r].at # "start"
      PROVE  CoderRunIInv'
  <2> DEFINE x == [run[r] EXCEPT !.at = at]
  <2>1. x \in RunRecord
    BY <1>1, <1>2, FieldSet
  <2>2. x.at = at /\ Alike(x, run[r])
    BY <1>1 DEF RunRecord, Alike
  <2>3. Becomes(r, x)
    BY <1>4 DEF Go
  <2> HIDE DEF x
  <2>4. ~run[r].dirs /\ x.at \in Unstarted \ {"start"} /\ x.at \notin {"proxy", "admit", "prepare", "spawn"}
    BY <1>1, <1>2, <2>2, Unbegun DEF Unstarted, Unadmitted
  <2> QED
    BY <1>1, <1>2, <1>4, <2>1, <2>2, <2>3, <2>4, GoesOn
<1>5. ASSUME Fail(r, <<>>), run[r].at # "start"
      PROVE  CoderRunIInv'
  <2>1. /\ run[r].proxies = 0 /\ run[r].claim = "none" /\ ~run[r].dirs
    BY <1>1, <1>2, Unbegun
  <2>2. <<>> \in Seq(UnwindStep) /\ ~Has(<<>>, "retain")
    BY DueBefore
  <2>3. Becomes(r, GiveUp(run[r], "failed", <<>>))
    BY <1>5 DEF Fail
  <2> QED
    BY <1>1, <1>2, <1>5, <2>1, <2>2, <2>3, FailsBefore
<1>6. ASSUME run[r].at # "start",
             \/ Becomes(r, [run[r] EXCEPT !.at = "preflight", !.isolated = TRUE])
             \/ Becomes(r, [run[r] EXCEPT !.at = "preflight", !.isolated = TRUE, !.fresh = TRUE])
      PROVE  CoderRunIInv'
  <2> DEFINE x == [run[r] EXCEPT !.at = "preflight", !.isolated = TRUE]
             y == [run[r] EXCEPT !.at = "preflight", !.isolated = TRUE, !.fresh = TRUE]
  <2>1. x \in RunRecord /\ y \in RunRecord
    BY <1>1, <1>2, FieldSet
  <2>2. x.at = "preflight" /\ y.at = "preflight" /\ Alike(x, run[r]) /\ Alike(y, run[r])
    BY <1>1 DEF RunRecord, Alike
  <2>3. PICK z \in {x, y} : Becomes(r, z)
    BY <1>6
  <2> HIDE DEF x, y
  <2>4. /\ z.at = "preflight" /\ z \in RunRecord /\ Alike(z, run[r])
        /\ ~run[r].dirs /\ z.at \in Unstarted \ {"start"} /\ z.at \notin {"proxy", "admit", "prepare", "spawn"}
    BY <1>1, <1>2, <2>1, <2>2, <2>3, Unbegun DEF Unstarted, Unadmitted
  <2> QED
    BY <1>1, <1>2, <1>6, <2>3, <2>4, GoesOn
<1>7. CASE FindTree(r) \/ AddTree(r)
  BY <1>4, <1>5, <1>6, <1>7 DEF FindTree, AddTree, Unavailable, Is
<1> QED
  BY <1>3, <1>7

LEMMA Guards ==
  ASSUME CoderRunIInv, NEW r \in Run, Preflight(r) \/ StartProxy(r)
  PROVE  CoderRunIInv'
<1>1. /\ run[r] \in RunRecord /\ GitTyped /\ UNCHANGED <<row, lease>>
      /\ run[r].at \in {"preflight", "proxy"}
      /\ run[r].proxies \in 0..2 /\ run[r].needs \in 0..2
  BY Still DEF Preflight, StartProxy, Git, Session, Is
<1>2. /\ run[r].at \in Unstarted \ {"start"} /\ run[r].at \in Unadmitted
      /\ "proxy" \in Unstarted \ {"start"} /\ "admit" \in Unstarted \ {"start"}
      /\ "proxy" \in At /\ "admit" \in At
  BY <1>1 DEF Unstarted, Unadmitted, At
<1>3. run[r].claim = "none" /\ ~run[r].dirs
  BY <1>1, <1>2, Unbegun
<1>4. ASSUME NEW steps \in {<<"tree">>, <<"proxy", "tree">>}, Fail(r, steps),
             run[r].proxies # 0 => steps = <<"proxy", "tree">>
      PROVE  CoderRunIInv'
  <2>1. /\ steps \in Seq(UnwindStep) /\ ~Has(steps, "retain")
        /\ steps = <<"proxy", "tree">> => Has(steps, "proxy")
    BY DueBefore
  <2>2. Becomes(r, GiveUp(run[r], "failed", steps))
    BY <1>4 DEF Fail
  <2> QED
    BY <1>1, <1>2, <1>3, <1>4, <2>1, <2>2, FailsBefore
<1>5. CASE Preflight(r)
  <2>1. run[r].proxies = 0
    BY <1>2, <1>5, Unbegun DEF Preflight, Is
  <2>2. ASSUME NEW n \in 0..(IF run[r].engine = "opencode2" /\ MaxProxies > 1 THEN 1 ELSE MaxProxies),
               Becomes(r, [run[r] EXCEPT !.at = "proxy", !.needs = n])
        PROVE  CoderRunIInv'
    <3> DEFINE x == [run[r] EXCEPT !.at = "proxy", !.needs = n]
    <3>1. n \in 0..2 /\ 0 <= n
      <4>1. MaxProxies \in {0, 1, 2}
        OBVIOUS
      <4> QED
        BY <4>1
    <3>2. x \in RunRecord
      BY <1>1, <1>2, <3>1, FieldSet
    <3>3. x.at = "proxy" /\ x.needs = n /\ Alike(x, run[r])
      BY <1>1 DEF RunRecord, Alike
    <3> HIDE DEF x
    <3>4. x.proxies = 0
      BY <2>1, <3>3 DEF Alike
    <3>5. Becomes(r, x)
      BY <2>2 DEF x
    <3> QED
      BY <1>1, <1>2, <1>3, <3>1, <3>2, <3>3, <3>4, <3>5, GoesOn
  <2> QED
    BY <1>4, <1>5, <2>1, <2>2 DEF Preflight
<1>6. CASE StartProxy(r)
  <2>1. run[r].proxies <= run[r].needs /\ run[r].at = "proxy"
    BY <1>2, <1>6, Unbegun DEF StartProxy, Is
  <2>2. ASSUME Becomes(r, [run[r] EXCEPT !.proxies = @ + 1]), run[r].proxies < run[r].needs
        PROVE  CoderRunIInv'
    <3> DEFINE x == [run[r] EXCEPT !.proxies = @ + 1]
    <3>1. run[r].proxies + 1 \in 0..2 /\ run[r].proxies + 1 <= run[r].needs
      BY <1>1, <2>2
    <3>2. x \in RunRecord
      BY <1>1, <3>1, FieldSet
    <3>3. /\ x.at = "proxy" /\ x.needs = run[r].needs /\ x.proxies = run[r].proxies + 1
          /\ x.engine = run[r].engine /\ x.group = run[r].group /\ x.claim = run[r].claim
          /\ x.took = run[r].took /\ x.end = run[r].end
          /\ (x.dirs <=> run[r].dirs) /\ (x.attempted <=> run[r].attempted) /\ (x.stuck <=> run[r].stuck)
      BY <1>1, <2>1 DEF RunRecord
    <3>4. Becomes(r, x)
      BY <2>2
    <3> HIDE DEF x
    <3>5. /\ "proxy" \notin Closing \cup Answered \cup {"start", "engine", "envelope"} /\ HandsOver(r)
          /\ "proxy" \notin {"tree", "add", "preflight", "admit", "prepare", "spawn"}
      BY <1>1, Still DEF Closing, Answered
    <3> QED
      BY <1>1, <1>2, <1>3, <3>1, <3>2, <3>3, <3>4, <3>5, Unbegun, Proceeds
  <2>3. ASSUME Go(r, "admit"), ~(run[r].proxies < run[r].needs)
        PROVE  CoderRunIInv'
    <3> DEFINE x == [run[r] EXCEPT !.at = "admit"]
    <3>1. x \in RunRecord
      BY <1>1, <1>2, FieldSet
    <3>2. x.at = "admit" /\ Alike(x, run[r]) /\ x.needs = run[r].needs
      BY <1>1 DEF RunRecord, Alike
    <3>3. Becomes(r, x)
      BY <2>3 DEF Go
    <3> HIDE DEF x
    <3>4. x.proxies = x.needs
      BY <1>1, <2>1, <2>3, <3>2 DEF Alike
    <3> QED
      BY <1>1, <1>2, <1>3, <3>1, <3>2, <3>3, <3>4, GoesOn
  <2> QED
    BY <1>4, <1>6, <2>2, <2>3 DEF StartProxy
<1> QED
  BY <1>5, <1>6

LEMMA Admits ==
  ASSUME CoderRunIInv, NEW r \in Run, Admit(r)
  PROVE  CoderRunIInv'
<1>1. /\ run[r] \in RunRecord /\ GitTyped /\ run[r].at = "admit" /\ r # NoRun
      /\ row \in {"absent", "reserved", "running", "idle"}
  BY Still DEF Admit, Git, Is
<1>2. /\ run[r].at \in Unstarted \ {"start"} /\ run[r].at \in Unadmitted
      /\ "prepare" \in Unstarted \ {"start"} /\ "prepare" \in At /\ "prepare" \notin Unadmitted
      /\ "prepare" \notin Closing \cup Answered \cup {"start", "engine", "envelope", "proxy", "tree", "add", "preflight"}
  BY <1>1 DEF Unstarted, Unadmitted, At, Closing, Answered
<1>3. /\ run[r].claim = "none" /\ ~run[r].dirs /\ run[r].proxies = run[r].needs /\ run[r].group = "none"
      /\ ~run[r].stuck /\ ~run[r].attempted /\ run[r].end = "none" /\ run[r].took \notin {"alive", "unverified"}
      /\ run[r].engine \in Engine /\ lease # r
  BY <1>1, <1>2, Unbegun
<1>4. ASSUME NEW claim \in {"new", "resumed"}, lease = NoRun, lease' = r, row \in {"absent", "idle"},
             row' \in {"reserved", "running"},
             Becomes(r, [run[r] EXCEPT !.at = "prepare", !.claim = claim])
      PROVE  CoderRunIInv'
  <2> DEFINE x == [run[r] EXCEPT !.at = "prepare", !.claim = claim]
  <2>1. x \in RunRecord
    BY <1>1, <1>2, FieldSet
  <2>2. /\ x.at = "prepare" /\ x.claim = claim
        /\ x.engine = run[r].engine /\ x.group = run[r].group /\ x.needs = run[r].needs
        /\ x.took = run[r].took /\ x.end = run[r].end /\ x.proxies = run[r].proxies
        /\ (x.dirs <=> run[r].dirs) /\ (x.attempted <=> run[r].attempted) /\ (x.stuck <=> run[r].stuck)
    BY <1>1 DEF RunRecord
  <2>3. Becomes(r, x)
    BY <1>4
  <2> HIDE DEF x
  <2>4. HandsOver(r)
    BY <1>4 DEF HandsOver
  <2> QED
    BY <1>1, <1>2, <1>3, <1>4, <2>1, <2>2, <2>3, <2>4, Proceeds
<1>5. ASSUME Go(r, "prepare"), UNCHANGED <<row, lease>>
      PROVE  CoderRunIInv'
  <2> DEFINE x == [run[r] EXCEPT !.at = "prepare"]
  <2>1. x \in RunRecord
    BY <1>1, <1>2, FieldSet
  <2>2. x.at = "prepare" /\ Alike(x, run[r]) /\ x.needs = run[r].needs
    BY <1>1 DEF RunRecord, Alike
  <2>3. Becomes(r, x)
    BY <1>5 DEF Go
  <2> HIDE DEF x
  <2>4. x.proxies = x.needs
    BY <1>3, <2>2 DEF Alike
  <2> QED
    BY <1>1, <1>2, <1>3, <1>5, <2>1, <2>2, <2>3, <2>4, GoesOn
<1>6. ASSUME Becomes(r, GiveUp(run[r], "rejected", <<"tree">>)), UNCHANGED <<row, lease>>
      PROVE  CoderRunIInv'
  <2>1. <<"tree">> \in Seq(UnwindStep) /\ ~Has(<<"tree">>, "retain")
    BY DueBefore
  <2> QED
    BY <1>1, <1>2, <1>3, <1>6, <2>1, FailsBefore
<1> QED
  BY <1>4, <1>5, <1>6 DEF Admit

\* Each engine's preparations, and the failures each has a clean-up of its own for.
LEMMA Prepared ==
  ASSUME CoderRunIInv, NEW r \in Run,
         PrepareOpencode(r) \/ PrepareOpencode2(r) \/ PrepareOmp(r) \/ PrepareCrush(r)
  PROVE  CoderRunIInv'
<1>1. /\ run[r] \in RunRecord /\ GitTyped /\ UNCHANGED <<row, lease>> /\ run[r].at = "prepare"
      /\ HandsOver(r)
  BY Still DEF PrepareOpencode, PrepareOpencode2, PrepareOmp, PrepareCrush, Prepares, Git, Session, Is
<1>2. /\ run[r].at \in Unstarted \ {"start"} /\ "spawn" \in Unstarted \ {"start"} /\ "spawn" \in At
      /\ "spawn" \notin Unadmitted \cup Closing \cup Answered \cup {"start", "engine", "envelope", "proxy", "tree", "add", "preflight"}
  BY <1>1 DEF Unstarted, Unadmitted, At, Closing, Answered
<1>3. /\ ~run[r].dirs /\ run[r].proxies = run[r].needs /\ run[r].group = "none"
      /\ ~run[r].stuck /\ ~run[r].attempted /\ run[r].end = "none" /\ run[r].took \notin {"alive", "unverified"}
      /\ run[r].engine \in Engine /\ (run[r].claim # "none" => lease = r) /\ (lease = r => run[r].claim # "none")
  BY <1>1, <1>2, Unbegun
<1>4. ASSUME NEW steps \in {<<"tree", "row", "proxy">>, <<"tree", "tree", "row", "proxy">>, <<"row", "proxy">>,
                            <<"tree", "row", "dirs", "tree", "proxy">>},
             Fail(r, steps)
      PROVE  CoderRunIInv'
  <2>1. steps \in Seq(UnwindStep) /\ ~Has(steps, "retain") /\ Has(steps, "row") /\ Has(steps, "proxy")
    <3>1. CASE steps = <<"tree", "row", "proxy">>
      BY <3>1, DueBefore
    <3>2. CASE steps = <<"tree", "tree", "row", "proxy">>
      BY <3>2, DueBefore
    <3>3. CASE steps = <<"row", "proxy">>
      BY <3>3, DueBefore
    <3>4. CASE steps = <<"tree", "row", "dirs", "tree", "proxy">>
      BY <3>4, DueBefore
    <3> QED
      BY <3>1, <3>2, <3>3, <3>4
  <2>2. Becomes(r, GiveUp(run[r], "failed", steps))
    BY <1>4 DEF Fail
  <2> QED
    BY <1>1, <1>2, <1>3, <2>1, <2>2, FailsBefore
<1>5. ASSUME Ready(r, run[r])
      PROVE  CoderRunIInv'
  <2> DEFINE x == [run[r] EXCEPT !.at = "spawn"]
  <2>1. x \in RunRecord
    BY <1>1, <1>2, FieldSet
  <2>2. x.at = "spawn" /\ Alike(x, run[r]) /\ x.needs = run[r].needs
    BY <1>1 DEF RunRecord, Alike
  <2>3. Becomes(r, x)
    BY <1>5 DEF Ready
  <2> HIDE DEF x
  <2>4. x.proxies = x.needs
    BY <1>3, <2>2 DEF Alike
  <2> QED
    BY <1>1, <1>2, <1>3, <2>1, <2>2, <2>3, <2>4, GoesOn
<1>6. /\ WithDirs(r) \in RunRecord /\ WithDirs(r).dirs /\ WithDirs(r).at = run[r].at
      /\ WithDirs(r).engine = run[r].engine /\ WithDirs(r).group = run[r].group /\ WithDirs(r).needs = run[r].needs
      /\ WithDirs(r).took = run[r].took /\ WithDirs(r).end = run[r].end /\ WithDirs(r).proxies = run[r].proxies
      /\ (WithDirs(r).attempted <=> run[r].attempted) /\ (WithDirs(r).stuck <=> run[r].stuck)
      /\ WithDirs(r).claim = run[r].claim
  <2>1. WithDirs(r) \in RunRecord
    BY <1>1, FieldSet DEF WithDirs
  <2> QED
    BY <1>1, <2>1 DEF WithDirs, RunRecord
<1>7. ASSUME Ready(r, WithDirs(r)), run[r].engine \in {"omp", "crush"}
      PROVE  CoderRunIInv'
  <2> DEFINE w == WithDirs(r)
             x == [w EXCEPT !.at = "spawn"]
  <2> HIDE DEF w
  <2>1. x \in RunRecord
    BY <1>2, <1>6, FieldSet DEF w
  <2>2. x.at = "spawn" /\ Alike(x, w) /\ x.needs = w.needs
    BY <1>6 DEF RunRecord, Alike, w
  <2>3. Becomes(r, x)
    BY <1>7 DEF Ready, w
  <2> HIDE DEF x
  <2>4. /\ x.proxies = x.needs /\ x.engine \in {"omp", "crush"} /\ x.engine \in Engine /\ x.claim = run[r].claim
        /\ x.group = "none" /\ ~x.stuck /\ ~x.attempted /\ x.end = "none" /\ x.took \notin {"alive", "unverified"}
    BY <1>3, <1>6, <1>7, <2>2 DEF Alike, w
  <2> QED
    BY <1>1, <1>2, <1>3, <2>1, <2>2, <2>3, <2>4, Proceeds
<1>8. ASSUME NEW how \in {"failed", "unrooted"}, NEW steps \in Seq(UnwindStep),
             Becomes(r, GiveUp(WithDirs(r), how, steps)), run[r].engine \in {"omp", "crush"},
             Has(steps, "proxy"), Has(steps, "row"), ~Has(steps, "retain"), how = "unrooted" \/ Has(steps, "dirs")
      PROVE  CoderRunIInv'
  <2>1. how \in Ending /\ how # "envelope"
    BY DEF Ending
  <2>2. /\ WithDirs(r).engine \in Engine /\ WithDirs(r).engine \in {"omp", "crush"}
        /\ WithDirs(r).group = "none" /\ WithDirs(r).took \notin {"alive", "unverified"}
        /\ WithDirs(r).claim # "none" => lease' = r
        /\ lease' = r => WithDirs(r).claim # "none"
        /\ ~WithDirs(r).attempted
    BY <1>1, <1>3, <1>6, <1>8
  <2> QED
    BY <1>1, <1>6, <1>8, <2>1, <2>2, GivesUp
<1>9. /\ "omp" \in Engine => /\ EngineFailed("omp") \in Seq(UnwindStep) /\ Has(EngineFailed("omp"), "proxy")
                             /\ Has(EngineFailed("omp"), "row") /\ ~Has(EngineFailed("omp"), "retain")
                             /\ Has(EngineFailed("omp"), "dirs")
      /\ <<"row", "proxy">> \in Seq(UnwindStep) /\ Has(<<"row", "proxy">>, "proxy") /\ Has(<<"row", "proxy">>, "row")
      /\ ~Has(<<"row", "proxy">>, "retain")
  BY DueAfter, DueBefore
<1>10. CASE PrepareOpencode(r) \/ PrepareOpencode2(r)
  BY <1>4, <1>5, <1>10 DEF PrepareOpencode, PrepareOpencode2
<1>11. CASE PrepareOmp(r)
  <2>1. run[r].engine = "omp"
    BY <1>11 DEF PrepareOmp, Prepares
  <2> QED
    BY <1>3, <1>4, <1>7, <1>8, <1>9, <1>11, <2>1 DEF PrepareOmp
<1>12. CASE PrepareCrush(r)
  <2>1. run[r].engine = "crush"
    BY <1>12 DEF PrepareCrush, Prepares
  <2> QED
    BY <1>4, <1>7, <1>8, <1>9, <1>12, <2>1 DEF PrepareCrush
<1> QED
  BY <1>10, <1>11, <1>12

LEMMA Spawns ==
  ASSUME CoderRunIInv, NEW r \in Run, Spawn(r)
  PROVE  CoderRunIInv'
<1>1. /\ run[r] \in RunRecord /\ GitTyped /\ UNCHANGED lease /\ run[r].at = "spawn"
      /\ row \in {"absent", "reserved", "running", "idle"}
      /\ UNCHANGED row => HandsOver(r)
  BY Still DEF Spawn, Git, Is
<1>2. /\ run[r].at \in Unstarted \ {"start"} /\ "engine" \in At
      /\ "engine" \notin Unstarted \cup Unadmitted \cup Closing \cup Answered
                    \cup {"start", "envelope", "prepare", "spawn", "admit", "proxy", "tree", "add", "preflight"}
  BY <1>1 DEF Unstarted, Unadmitted, At, Closing, Answered
<1>3. /\ run[r].dirs => run[r].engine \in {"omp", "crush"}
      /\ run[r].proxies = run[r].needs
      /\ ~run[r].stuck /\ ~run[r].attempted /\ run[r].end = "none" /\ run[r].took \notin {"alive", "unverified"}
      /\ run[r].engine \in Engine /\ (run[r].claim # "none" => lease = r) /\ (lease = r => run[r].claim # "none")
  BY <1>1, <1>2, Unbegun
<1>4. ASSUME Becomes(r, [run[r] EXCEPT !.at = "engine", !.group = "alive"]),
             row' = IF run[r].claim = "none" THEN row ELSE "running"
      PROVE  CoderRunIInv'
  <2> DEFINE x == [run[r] EXCEPT !.at = "engine", !.group = "alive"]
  <2>1. x \in RunRecord
    BY <1>1, <1>2, FieldSet
  <2>2. /\ x.at = "engine" /\ x.claim = run[r].claim
        /\ x.engine = run[r].engine /\ x.group = "alive" /\ x.needs = run[r].needs
        /\ x.took = run[r].took /\ x.end = run[r].end /\ x.proxies = run[r].proxies
        /\ (x.dirs <=> run[r].dirs) /\ (x.attempted <=> run[r].attempted) /\ (x.stuck <=> run[r].stuck)
    BY <1>1 DEF RunRecord
  <2>3. Becomes(r, x)
    BY <1>4
  <2> HIDE DEF x
  <2>4. HandsOver(r) /\ (x.claim # "none" => row' = "running")
    BY <1>1, <1>3, <1>4, <2>2 DEF HandsOver
  <2> QED
    BY <1>1, <1>2, <1>3, <2>1, <2>2, <2>3, <2>4, Proceeds
<1>5. ASSUME Fail(r, IF run[r].engine = "crush" THEN AfterFailed("crush") ELSE EngineFailed(run[r].engine)),
             UNCHANGED row
      PROVE  CoderRunIInv'
  <2> DEFINE e == run[r].engine
             steps == IF e = "crush" THEN AfterFailed("crush") ELSE EngineFailed(e)
  <2>1. /\ steps \in Seq(UnwindStep) /\ Has(steps, "proxy") /\ Has(steps, "row") /\ ~Has(steps, "retain")
        /\ e \in {"omp", "crush"} => Has(steps, "dirs")
    <3>1. e \in Engine
      BY <1>3
    <3>2. CASE e = "crush"
      BY <3>1, <3>2, DueAfter
    <3>3. CASE e # "crush"
      BY <3>1, <3>3, DueAfter
    <3> QED
      BY <3>2, <3>3
  <2>2. Becomes(r, GiveUp(run[r], "failed", steps))
    BY <1>5 DEF Fail
  <2> HIDE DEF steps
  <2> QED
    BY <1>1, <1>2, <1>3, <1>5, <2>1, <2>2, FailsBefore
<1> QED
  BY <1>4, <1>5 DEF Spawn

-----------------------------------------------------------------------------
(* The engine and what follows it                                          *)

LEMMA Underway ==
  ASSUME CoderRunIInv, NEW r \in Run, run[r].at \in Answered \cup {"engine"}
  PROVE  /\ run[r] \in RunRecord /\ run[r].engine \in Engine
         /\ run[r].group = IF run[r].at = "engine" THEN "alive" ELSE "gone"
         /\ ~run[r].stuck /\ run[r].end = "none" /\ run[r].took \notin {"alive", "unverified"}
         /\ run[r].at # "envelope" => ~run[r].attempted
         /\ run[r].at = "envelope" => run[r].claim = "none" \/ run[r].attempted
         /\ run[r].dirs => run[r].engine \in {"omp", "crush"}
         /\ run[r].at # "engine" /\ run[r].engine = "opencode" => run[r].proxies = 0
         /\ run[r].claim # "none" /\ ~run[r].attempted => lease = r
         /\ lease = r => run[r].claim # "none" /\ ~run[r].attempted
         /\ run[r].at = "engine" /\ run[r].claim # "none" => row = "running"
<1>1. /\ run[r] \in RunRecord /\ Sound(r)
      /\ run[r].at \notin Closing \cup {"start"}
  BY Still DEF Closing, Answered
<1>2. /\ run[r].engine \in Engine
      /\ run[r].group = IF run[r].at = "engine" THEN "alive" ELSE "gone"
      /\ ~run[r].stuck /\ run[r].end = "none" /\ run[r].took \notin {"alive", "unverified"}
      /\ run[r].at # "envelope" => ~run[r].attempted
      /\ run[r].at = "envelope" => run[r].claim = "none" \/ run[r].attempted
  BY <1>1 DEF Sound, Stages
<1>3. run[r].at # "engine" /\ run[r].engine = "opencode" => run[r].proxies = 0
  BY <1>1 DEF Sound, Proxies
<1>4. run[r].dirs => run[r].engine \in {"omp", "crush"}
  BY <1>1 DEF Sound, Directories
<1>5. /\ run[r].claim # "none" /\ ~run[r].attempted => lease = r
      /\ lease = r => run[r].claim # "none" /\ ~run[r].attempted
  BY <1>1, <1>2 DEF Sound, Leases
<1>6. run[r].at = "engine" /\ run[r].claim # "none" => row = "running"
  BY <1>1 DEF Sound, Unwinding
<1> QED
  BY <1>1, <1>2, <1>3, <1>4, <1>5, <1>6

LEMMA FollowingIs ==
  ASSUME NEW e, NEW s \in {"engine", "publish", "changes"}
  PROVE  Following(e, s) \in {"publish", "changes", "complete"}
  BY DEF Following

LEMMA AnsweredStages ==
  /\ \A s \in Answered : s \in At /\ s \notin Closing \cup Unstarted \cup Unadmitted \cup {"start", "engine", "tree", "add", "preflight", "proxy", "admit", "prepare", "spawn"}
  /\ "publish" \in Answered /\ "changes" \in Answered /\ "remove" \in Answered /\ "complete" \in Answered
  /\ "envelope" \in Answered
  BY DEF Answered, At, Closing, Unstarted, Unadmitted

LEMMA EngineEnds ==
  ASSUME CoderRunIInv, NEW r \in Run, EngineAnswers(r) \/ EngineFails(r) \/ EngineUnverified(r)
  PROVE  CoderRunIInv'
<1>1. /\ run[r] \in RunRecord /\ GitTyped /\ UNCHANGED <<row, lease>> /\ HandsOver(r) /\ run[r].at = "engine"
  BY Still DEF EngineAnswers, EngineFails, EngineUnverified, Git, Session, Is
<1>2. /\ run[r].engine \in Engine /\ ~run[r].stuck /\ run[r].end = "none"
      /\ run[r].took \notin {"alive", "unverified"} /\ ~run[r].attempted
      /\ run[r].dirs => run[r].engine \in {"omp", "crush"}
      /\ run[r].claim # "none" => lease = r /\ row = "running"
      /\ lease = r => run[r].claim # "none"
  BY <1>1, Underway
<1>3. CASE EngineAnswers(r)
  <2> DEFINE at == Following(run[r].engine, "engine")
             n == IF run[r].engine = "opencode" THEN 0 ELSE run[r].proxies
             x == [run[r] EXCEPT !.group = "gone", !.at = at, !.proxies = n]
  <2>1. at \in Answered /\ at # "envelope"
    BY FollowingIs DEF Answered
  <2>2. n \in 0..2 /\ (run[r].engine = "opencode" => n = 0)
    BY <1>1, Still
  <2> HIDE DEF at, n
  <2>3. x \in RunRecord
    BY <1>1, <2>1, <2>2, FieldSet, AnsweredStages
  <2>4. /\ x.at = at /\ x.claim = run[r].claim /\ x.engine = run[r].engine /\ x.group = "gone"
        /\ x.took = run[r].took /\ x.end = run[r].end /\ x.proxies = n
        /\ (x.dirs <=> run[r].dirs) /\ (x.attempted <=> run[r].attempted) /\ (x.stuck <=> run[r].stuck)
    BY <1>1 DEF RunRecord
  <2>5. Becomes(r, x)
    BY <1>1, <1>3 DEF EngineAnswers, Ended, RunRecord, at, n
  <2> HIDE DEF x
  <2> QED
    BY <1>1, <1>2, <2>1, <2>2, <2>3, <2>4, <2>5, Proceeds, AnsweredStages
<1>4. CASE EngineFails(r)
  <2> DEFINE x == [run[r] EXCEPT !.group = "gone"]
             steps == EngineFailed(run[r].engine)
  <2>1. x \in RunRecord
    BY <1>1, FieldSet
  <2>2. /\ x.claim = run[r].claim /\ x.engine = run[r].engine /\ x.group = "gone"
        /\ x.took = run[r].took /\ x.proxies = run[r].proxies
        /\ (x.dirs <=> run[r].dirs) /\ (x.attempted <=> run[r].attempted) /\ (x.stuck <=> run[r].stuck)
    BY <1>1 DEF RunRecord
  <2>3. Becomes(r, GiveUp(x, "failed", steps))
    BY <1>4 DEF EngineFails, Ended
  <2>4. /\ steps \in Seq(UnwindStep) /\ Has(steps, "proxy") /\ Has(steps, "row") /\ ~Has(steps, "retain")
        /\ x.engine \in {"omp", "crush"} => Has(steps, "dirs")
        /\ "failed" \in Ending
    BY <1>2, <2>2, DueAfter DEF Ending
  <2> HIDE DEF x, steps
  <2> QED
    BY <1>1, <1>2, <2>1, <2>2, <2>3, <2>4, GivesUp
<1>5. CASE EngineUnverified(r)
  <2> DEFINE x == [run[r] EXCEPT !.group = "unverified"]
             steps == Unverified(run[r].engine)
  <2>1. x \in RunRecord
    BY <1>1, FieldSet
  <2>2. /\ x.claim = run[r].claim /\ x.engine = run[r].engine /\ x.group = "unverified"
        /\ x.took = run[r].took /\ x.proxies = run[r].proxies
        /\ (x.dirs <=> run[r].dirs) /\ (x.attempted <=> run[r].attempted) /\ (x.stuck <=> run[r].stuck)
    BY <1>1 DEF RunRecord
  <2>3. Becomes(r, GiveUp(x, "retained", steps))
    BY <1>5 DEF EngineUnverified, Ended
  <2>4. /\ steps \in Seq(UnwindStep) /\ Has(steps, "proxy") /\ Has(steps, "retain")
        /\ ~Has(steps, "row") /\ ~Has(steps, "tree") /\ ~Has(steps, "remove")
        /\ x.engine = "crush" => Has(steps, "dirs")
        /\ "retained" \in Ending /\ steps = Unverified(x.engine)
    BY <1>2, <2>2, DueAfter DEF Ending
  <2> HIDE DEF x, steps
  <2> QED
    BY <1>1, <1>2, <2>1, <2>2, <2>3, <2>4, GivesUp
<1> QED
  BY <1>3, <1>4, <1>5

LEMMA FailsAfter ==
  ASSUME CoderRunIInv, NEW r \in Run, run[r].at \in Answered, FailAfter(r), GitTyped, UNCHANGED <<row, lease>>
  PROVE  CoderRunIInv'
<1> DEFINE e == run[r].engine
           steps == AfterFailed(e)
           how == IF e = "opencode" THEN "stranded" ELSE "failed"
<1>1. /\ run[r] \in RunRecord /\ e \in Engine /\ run[r].group = "gone" /\ ~run[r].stuck
      /\ run[r].took \notin {"alive", "unverified"}
      /\ run[r].dirs => e \in {"omp", "crush"}
      /\ e = "opencode" => run[r].proxies = 0
      /\ run[r].claim # "none" /\ ~run[r].attempted => lease = r
      /\ lease = r => run[r].claim # "none" /\ ~run[r].attempted
  BY Underway, AnsweredStages
<1>2. /\ steps \in Seq(UnwindStep) /\ ~Has(steps, "retain")
      /\ e # "opencode" => Has(steps, "proxy") /\ Has(steps, "row")
      /\ e \in {"omp", "crush"} => Has(steps, "dirs")
  BY <1>1, DueAfter
<1>3. how \in Ending /\ how # "envelope" /\ (e = "opencode" => how = "stranded")
  BY DEF Ending
<1>4. Becomes(r, GiveUp(run[r], how, steps))
  BY DEF FailAfter
<1>5. HandsOver(r)
  BY Still
<1> HIDE DEF how, steps
<1> QED
  BY <1>1, <1>2, <1>3, <1>4, <1>5, GivesUp

LEMMA GoesAfter ==
  ASSUME CoderRunIInv, NEW r \in Run, run[r].at \in Answered \ {"envelope"}, NEW x \in RunRecord, Becomes(r, x),
         x.at \in Answered, x.at = "envelope" => x.claim = "none",
         GitTyped, UNCHANGED <<row, lease>>,
         x.engine = run[r].engine, x.group = run[r].group, x.claim = run[r].claim, x.end = run[r].end,
         x.took \notin {"alive", "unverified"}, x.proxies = run[r].proxies,
         x.dirs <=> run[r].dirs, x.attempted <=> run[r].attempted, x.stuck <=> run[r].stuck
  PROVE  CoderRunIInv'
<1>1. HandsOver(r)
  BY Still
<1>2. run[r].at # "engine" /\ run[r].at \in Answered /\ run[r].at # "envelope"
  BY AnsweredStages
<1>3. /\ run[r] \in RunRecord /\ run[r].engine \in Engine /\ run[r].group = "gone" /\ ~run[r].stuck
      /\ run[r].end = "none" /\ ~run[r].attempted
      /\ run[r].dirs => run[r].engine \in {"omp", "crush"}
      /\ run[r].engine = "opencode" => run[r].proxies = 0
      /\ run[r].claim # "none" => lease = r
      /\ lease = r => run[r].claim # "none"
  BY <1>2, Underway
<1>4. x.at \notin Closing \cup Unstarted \cup Unadmitted
                \cup {"start", "engine", "tree", "add", "preflight", "proxy", "admit", "prepare", "spawn"}
  BY AnsweredStages
<1> QED
  BY <1>1, <1>3, <1>4, Proceeds

LEMMA ReportsTheRun ==
  ASSUME CoderRunIInv, NEW r \in Run, Publish(r) \/ Changes(r) \/ RemoveUnchanged(r)
  PROVE  CoderRunIInv'
<1>1. /\ run[r] \in RunRecord /\ GitTyped /\ UNCHANGED <<row, lease>>
      /\ run[r].at \in {"publish", "changes", "remove"}
  BY Still DEF Publish, Changes, RemoveUnchanged, Git, Session, Is, GitTyped, TakeTree, CoderRunIInv, RunTyped
<1>2. run[r].at \in Answered \ {"envelope"} /\ run[r].group = "gone" /\ run[r].took \notin {"alive", "unverified"}
  BY <1>1, Underway, AnsweredStages
<1>3. ASSUME NEW at \in {"remove", "publish", "changes", "complete"}, Go(r, at)
      PROVE  CoderRunIInv'
  <2> DEFINE x == [run[r] EXCEPT !.at = at]
  <2>1. x \in RunRecord /\ at \in Answered /\ at # "envelope"
    BY <1>1, FieldSet, AnsweredStages
  <2>2. x.at = at /\ Alike(x, run[r])
    BY <1>1 DEF RunRecord, Alike
  <2>3. Becomes(r, x)
    BY <1>3 DEF Go
  <2> HIDE DEF x
  <2> QED
    BY <1>1, <1>2, <2>1, <2>2, <2>3, GoesAfter DEF Alike
<1>4. FailAfter(r) => CoderRunIInv'
  BY <1>1, <1>2, FailsAfter
<1>5. \A e : Following(e, "publish") \in {"publish", "changes", "complete"}
          /\ Following(e, "changes") \in {"publish", "changes", "complete"}
  BY FollowingIs
<1>6. CASE Publish(r)
  BY <1>3, <1>4, <1>5, <1>6 DEF Publish
<1>7. CASE Changes(r)
  BY <1>3, <1>4, <1>5, <1>7 DEF Changes
<1>8. CASE RemoveUnchanged(r)
  <2> DEFINE at == Following(run[r].engine, "changes")
             q == [run[r] EXCEPT !.at = at]
             f == q.fresh /\ q.engine # "opencode2"
             x == [q EXCEPT !.took = q.group, !.fresh = f]
  <2>1. at \in {"publish", "changes", "complete"}
    BY <1>5
  <2>2. CASE Becomes(r, q)
    <3>1. Go(r, at)
      BY <2>2 DEF Go
    <3> QED
      BY <1>3, <2>1, <3>1
  <2>3. CASE Becomes(r, x)
    <3>1. q \in RunRecord /\ at \in Answered /\ at # "envelope"
      BY <1>1, <2>1, FieldSet, AnsweredStages
    <3>2. q.at = at /\ Alike(q, run[r])
      BY <1>1 DEF RunRecord, Alike
    <3>3. f \in BOOLEAN /\ q.group = "gone"
      BY <1>2, <3>2 DEF Alike
    <3> HIDE DEF q, f
    <3>4. x \in RunRecord
      BY <3>1, <3>3, FieldSet
    <3>5. /\ x.at = q.at /\ x.engine = q.engine /\ x.group = q.group /\ x.claim = q.claim /\ x.end = q.end
          /\ x.took = "gone" /\ x.proxies = q.proxies
          /\ (x.dirs <=> q.dirs) /\ (x.attempted <=> q.attempted) /\ (x.stuck <=> q.stuck)
      BY <3>1, <3>3 DEF RunRecord
    <3> HIDE DEF x
    <3> QED
      BY <1>1, <1>2, <2>3, <3>1, <3>2, <3>4, <3>5, GoesAfter DEF Alike
  <2> QED
    BY <1>8, <2>2, <2>3 DEF RemoveUnchanged
<1> QED
  BY <1>6, <1>7, <1>8

LEMMA Completes ==
  ASSUME CoderRunIInv, NEW r \in Run, Complete(r)
  PROVE  CoderRunIInv'
<1>1. /\ run[r] \in RunRecord /\ GitTyped /\ run[r].at = "complete"
      /\ row \in {"absent", "reserved", "running", "idle"} /\ lease \in Run \cup {NoRun} /\ r # NoRun
  BY Still DEF Complete, Git, Is
<1>2. /\ run[r].at \in Answered \ {"envelope"} /\ "envelope" \in At
      /\ "envelope" \notin Closing \cup Unstarted \cup Unadmitted
                   \cup {"start", "engine", "tree", "add", "preflight", "proxy", "admit", "prepare", "spawn"}
  BY <1>1, AnsweredStages
<1>3. /\ run[r].engine \in Engine /\ run[r].group = "gone" /\ ~run[r].stuck /\ run[r].end = "none"
      /\ run[r].took \notin {"alive", "unverified"} /\ ~run[r].attempted
      /\ run[r].dirs => run[r].engine \in {"omp", "crush"}
      /\ run[r].engine = "opencode" => run[r].proxies = 0
      /\ run[r].claim # "none" => lease = r
      /\ lease = r => run[r].claim # "none"
  BY <1>1, <1>2, Underway
<1>4. CASE run[r].claim = "none"
  <2> DEFINE x == [run[r] EXCEPT !.at = "envelope"]
  <2>1. x \in RunRecord
    BY <1>1, <1>2, FieldSet
  <2>2. x.at = "envelope" /\ Alike(x, run[r])
    BY <1>1 DEF RunRecord, Alike
  <2>3. Becomes(r, x) /\ UNCHANGED <<row, lease>>
    BY <1>4, <1>1 DEF Complete, Go, RunRecord
  <2> HIDE DEF x
  <2>4. x.at \in Answered /\ x.claim = "none" /\ x.took \notin {"alive", "unverified"}
    BY <1>3, <1>4, <2>2, AnsweredStages DEF Alike
  <2> QED
    BY <1>1, <1>2, <2>1, <2>2, <2>3, <2>4, GoesAfter DEF Alike
<1>5. CASE run[r].claim # "none"
  <2> DEFINE q == [run[r] EXCEPT !.attempted = TRUE]
             how == IF q.engine = "opencode" THEN "kept" ELSE "failed"
             steps == AfterFailed(q.engine)
             fails == GiveUp(q, how, steps)
             x == [q EXCEPT !.at = "envelope"]
             y == [fails EXCEPT !.stuck = TRUE]
  <2>1. q \in RunRecord
    BY <1>1, FieldSet
  <2>2. /\ q.at = "complete" /\ q.attempted /\ q.claim = run[r].claim /\ q.engine = run[r].engine
        /\ q.group = "gone" /\ q.took = run[r].took /\ q.end = "none" /\ q.proxies = run[r].proxies
        /\ (q.dirs <=> run[r].dirs) /\ ~q.stuck
    BY <1>1, <1>3 DEF RunRecord
  <2>3. /\ row' \in {"idle", "absent", row}
        /\ \/ lease' = NoRun /\ Becomes(r, IF row' = "running" THEN fails ELSE x)
           \/ lease' = lease /\ Becomes(r, y)
    BY <1>5, <2>2 DEF Complete, Settled
  <2> HIDE DEF q
  <2>4. HandsOver(r) /\ lease = r
    BY <1>1, <1>3, <1>5, <2>3 DEF HandsOver
  <2>5. /\ how \in Ending /\ how \notin {"envelope", "rejected", "unrooted", "retained"}
        /\ steps \in Seq(UnwindStep) /\ ~Has(steps, "retain")
        /\ q.proxies # 0 => Has(steps, "proxy")
        /\ q.dirs => Has(steps, "dirs") /\ q.engine \in {"omp", "crush"}
    <3>1. q.engine \in Engine
      BY <1>3, <2>2
    <3>2. CASE q.engine = "opencode"
      BY <1>3, <2>2, <3>1, <3>2, DueAfter DEF Ending
    <3>3. CASE q.engine # "opencode"
      BY <1>3, <2>2, <3>1, <3>3, DueAfter DEF Ending
    <3> QED
      BY <3>2, <3>3
  <2> HIDE DEF how, steps
  <2>6. CASE lease' = NoRun /\ row' = "running"
    <3>1. Becomes(r, GiveUp(q, how, steps)) /\ lease' # r
      BY <1>1, <2>3, <2>4, <2>6
    <3> QED
      BY <1>1, <1>3, <2>1, <2>2, <2>4, <2>5, <3>1, GivesUp
  <2>7. CASE lease' = NoRun /\ row' # "running"
    <3>1. Becomes(r, x) /\ lease' # r
      BY <1>1, <2>3, <2>4, <2>7
    <3>2. x \in RunRecord
      BY <1>2, <2>1, FieldSet
    <3>3. /\ x.at = "envelope" /\ x.engine = q.engine /\ x.group = q.group /\ x.claim = q.claim
          /\ x.took = q.took /\ x.end = q.end /\ x.proxies = q.proxies
          /\ (x.dirs <=> q.dirs) /\ (x.attempted <=> q.attempted) /\ (x.stuck <=> q.stuck)
      BY <2>1 DEF RunRecord
    <3> HIDE DEF x
    <3> QED
      BY <1>1, <1>2, <1>3, <2>2, <2>4, <3>1, <3>2, <3>3, Proceeds
  <2>8. CASE lease' = lease /\ lease' # NoRun
    <3>1. Becomes(r, y) /\ lease' = r
      BY <2>3, <2>4, <2>8
    <3>2. fails \in RunRecord
      BY <2>1, <2>5, FieldSet DEF GiveUp, At
    <3>3. y \in RunRecord
      BY <3>2, FieldSet
    <3>4. /\ fails.at = "unwind" /\ fails.end = how /\ fails.unwind = steps
          /\ fails.engine = q.engine /\ fails.group = q.group /\ fails.took = q.took /\ fails.proxies = q.proxies
          /\ fails.claim = q.claim /\ (fails.dirs <=> q.dirs) /\ (fails.attempted <=> q.attempted)
      BY <2>1 DEF RunRecord, GiveUp
    <3> HIDE DEF fails
    <3>5. /\ y.at = "unwind" /\ y.end = how /\ y.unwind = steps
          /\ y.engine = q.engine /\ y.group = q.group /\ y.took = q.took /\ y.proxies = q.proxies
          /\ y.claim = q.claim /\ (y.dirs <=> q.dirs) /\ (y.attempted <=> q.attempted) /\ y.stuck
      BY <3>2, <3>4 DEF RunRecord
    <3> HIDE DEF y
    <3> QED
      BY <1>1, <1>3, <1>5, <2>2, <2>4, <2>5, <3>1, <3>3, <3>5, Unwinds
  <2> QED
    BY <1>1, <2>3, <2>4, <2>6, <2>7, <2>8
<1> QED
  BY <1>4, <1>5

LEMMA Writes ==
  ASSUME CoderRunIInv, NEW r \in Run, EngineWrites(r)
  PROVE  CoderRunIInv'
<1>1. RunTyped' /\ UNCHANGED <<run, row, lease>>
  BY DEF CoderRunIInv, RunTyped, EngineWrites, Session
<1>2. ASSUME NEW q \in Run PROVE Sound(q)'
  BY <1>1 DEF CoderRunIInv, Sound, Stages, Proxies, Directories, Leases, Unwinding, IsDue, Is
<1> QED
  BY <1>1, <1>2 DEF CoderRunIInv

LEMMA Delivers ==
  ASSUME CoderRunIInv, NEW r \in Run, Envelope(r)
  PROVE  CoderRunIInv'
<1>1. /\ run[r] \in RunRecord /\ GitTyped /\ UNCHANGED <<row, lease>> /\ HandsOver(r) /\ run[r].at = "envelope"
  BY Still DEF Envelope, Git, Session, Is
<1>2. run[r].at \in Answered
  BY <1>1, AnsweredStages
<1>3. /\ run[r].engine \in Engine /\ run[r].group = "gone" /\ ~run[r].stuck /\ run[r].end = "none"
      /\ run[r].took \notin {"alive", "unverified"} /\ (run[r].claim = "none" \/ run[r].attempted)
      /\ run[r].dirs => run[r].engine \in {"omp", "crush"}
      /\ run[r].engine = "opencode" => run[r].proxies = 0
      /\ lease # r
  BY <1>1, <1>2, Underway
<1>4. FailAfter(r) => CoderRunIInv'
  BY <1>1, <1>2, FailsAfter
<1> DEFINE d == run[r].dirs /\ run[r].engine # "omp"
           q == [run[r] EXCEPT !.dirs = d]
           steps == IF q.engine = "opencode" THEN <<>> ELSE Finally(q.engine)
<1>5. CASE Becomes(r, GiveUp(q, "envelope", steps))
  <2>1. d \in BOOLEAN /\ (d => run[r].engine = "crush")
    BY <1>1, <1>3 DEF RunRecord
  <2> HIDE DEF d
  <2>2. q \in RunRecord
    BY <1>1, <2>1, FieldSet
  <2>3. /\ q.claim = run[r].claim /\ q.engine = run[r].engine /\ q.group = run[r].group
        /\ q.took = run[r].took /\ q.proxies = run[r].proxies
        /\ (q.dirs <=> d) /\ (q.attempted <=> run[r].attempted) /\ (q.stuck <=> run[r].stuck)
    BY <1>1, <2>1 DEF RunRecord
  <2> HIDE DEF q
  <2>4. /\ steps \in Seq(UnwindStep) /\ ~Has(steps, "row") /\ ~Has(steps, "retain")
        /\ q.engine # "opencode" => Has(steps, "proxy")
        /\ q.engine = "crush" => Has(steps, "dirs")
        /\ "envelope" \in Ending
    <3>1. q.engine \in Engine
      BY <1>3, <2>3
    <3>2. CASE q.engine = "opencode"
      BY <3>2, DueBefore DEF Ending
    <3>3. CASE q.engine # "opencode"
      BY <3>1, <3>3, DueAfter DEF Ending
    <3> QED
      BY <3>2, <3>3
  <2> HIDE DEF steps
  <2> QED
    BY <1>1, <1>3, <1>5, <2>1, <2>2, <2>3, <2>4, GivesUp
<1> QED
  BY <1>4, <1>5 DEF Envelope

-----------------------------------------------------------------------------
(* Unwinding                                                               *)

\* What is known of a run that unwinds, and what is still due after its next step.
LEMMA Winding ==
  ASSUME CoderRunIInv, NEW r \in Run, NEW step \in UnwindStep, Due(r, step)
  PROVE  LET q == run[r] IN
         /\ q \in RunRecord /\ q.engine \in Engine /\ q.group # "alive" /\ q.took \notin {"alive", "unverified"}
         /\ q.at = "unwind" /\ q.unwind \in Seq(UnwindStep) /\ Tail(q.unwind) \in Seq(UnwindStep)
         /\ \A t : Has(Tail(q.unwind), t) => Has(q.unwind, t)
         /\ \A t : Has(q.unwind, t) => Has(Tail(q.unwind), t) \/ t = step
         /\ Has(q.unwind, step)
         /\ q.proxies # 0 => q.end = "rejected" \/ Has(q.unwind, "proxy")
         /\ q.dirs => /\ q.engine \in {"omp", "crush"}
                      /\ \/ Has(q.unwind, "dirs") \/ q.end = "unrooted"
                         \/ q.engine = "omp" /\ (q.end = "retained" \/ q.stuck)
         /\ q.claim # "none" /\ ~q.attempted => lease = r
         /\ lease = r => /\ q.claim # "none" /\ (q.attempted => q.stuck)
                         /\ q.stuck \/ q.end = "stranded" \/ Has(q.unwind, "row") \/ Has(q.unwind, "retain")
         /\ q.group = "unverified" =>
              /\ q.end = "retained" /\ ~Has(q.unwind, "tree") /\ ~Has(q.unwind, "remove") /\ ~Has(q.unwind, "row")
              /\ q.claim # "none" => row = "running" /\ (lease = NoRun \/ lease = r)
         /\ q.end = "envelope" => /\ ~Has(q.unwind, "row") /\ ~Has(q.unwind, "retain")
                                  /\ q.group = "gone" /\ ~q.stuck /\ (q.claim = "none" \/ q.attempted)
         /\ step # "retain" => ~Has(q.unwind, "retain")
         /\ step = "retain" => /\ q.group = "unverified" /\ q.end = "retained" /\ ~q.attempted
                               /\ Tail(q.unwind) = Finally(q.engine)
<1> DEFINE q == run[r]
<1>1. /\ q \in RunRecord /\ Sound(r) /\ q.at = "unwind" /\ q.at \in Closing
      /\ q.unwind # <<>> /\ Head(q.unwind) = step
  BY Still DEF Due, Is, Closing
<1>2. q.unwind \in Seq(UnwindStep)
  BY <1>1 DEF RunRecord
<1>3. /\ Tail(q.unwind) \in Seq(UnwindStep)
      /\ \A t : Has(Tail(q.unwind), t) => Has(q.unwind, t)
      /\ \A t : Has(q.unwind, t) => Has(Tail(q.unwind), t) \/ t = step
  BY <1>1, <1>2, TailHas
<1>4. \A t : IsDue(r, t) <=> Has(q.unwind, t)
  BY <1>1 DEF IsDue, Is
<1>5. Has(q.unwind, step)
  <2>1. 1 \in DOMAIN q.unwind /\ q.unwind[1] = step
    BY <1>1, <1>2
  <2> QED
    BY <2>1 DEF Has
<1>6. /\ q.engine \in Engine /\ q.group # "alive" /\ q.took \notin {"alive", "unverified"}
      /\ q.proxies # 0 => q.end = "rejected" \/ Has(q.unwind, "proxy")
  BY <1>1, <1>4 DEF Sound, Stages, Proxies
<1>7. q.dirs => /\ q.engine \in {"omp", "crush"}
                /\ \/ Has(q.unwind, "dirs") \/ q.end = "unrooted"
                   \/ q.engine = "omp" /\ (q.end = "retained" \/ q.stuck)
  BY <1>1, <1>4 DEF Sound, Directories
<1>8. /\ q.claim # "none" /\ ~q.attempted => lease = r
      /\ lease = r => /\ q.claim # "none" /\ (q.attempted => q.stuck)
                      /\ q.stuck \/ q.end = "stranded" \/ Has(q.unwind, "row") \/ Has(q.unwind, "retain")
  BY <1>1, <1>4 DEF Sound, Leases
<1>9. /\ q.group = "unverified" =>
           /\ q.end = "retained" /\ ~Has(q.unwind, "tree") /\ ~Has(q.unwind, "remove") /\ ~Has(q.unwind, "row")
           /\ q.claim # "none" => row = "running" /\ (lease = NoRun \/ lease = r)
      /\ q.end = "envelope" => /\ ~Has(q.unwind, "row") /\ ~Has(q.unwind, "retain")
                               /\ q.group = "gone" /\ ~q.stuck /\ (q.claim = "none" \/ q.attempted)
      /\ Has(q.unwind, "retain") => q.unwind = Unverified(q.engine) /\ q.group = "unverified" /\ ~q.attempted
  BY <1>1, <1>4 DEF Sound, Unwinding
<1>10. Has(q.unwind, "retain") => step = "retain" /\ Tail(q.unwind) = Finally(q.engine)
  <2>1. SUFFICES ASSUME Has(q.unwind, "retain") PROVE step = "retain" /\ Tail(q.unwind) = Finally(q.engine)
    OBVIOUS
  <2>2. /\ q.unwind = <<"retain">> \o Finally(q.engine) /\ Finally(q.engine) \in Seq(UnwindStep)
        /\ "retain" \in UnwindStep
    BY <1>6, <1>9, <2>1, DueAfter DEF UnwindStep
  <2>3. Head(q.unwind) = "retain"
    BY <2>2
  <2>4. Tail(q.unwind) = Finally(q.engine)
    BY <2>2, PrefixHas
  <2> QED
    BY <1>1, <2>3, <2>4
<1> QED
  BY <1>1, <1>2, <1>3, <1>5, <1>6, <1>7, <1>8, <1>9, <1>10

\* A step that gives up what it names, and no claim on the row.
LEMMA Undoes ==
  ASSUME CoderRunIInv, NEW r \in Run, NEW step \in UnwindStep \ {"retain"}, Due(r, step),
         NEW x \in RunRecord, Becomes(r, x), GitTyped, UNCHANGED <<row, lease>>,
         x.at = "unwind", x.engine = run[r].engine, x.group = run[r].group, x.claim = run[r].claim,
         x.end = run[r].end, x.attempted <=> run[r].attempted, x.stuck <=> run[r].stuck,
         x.took \notin {"alive", "unverified"},
         \/ x.unwind = Tail(run[r].unwind)
         \/ step = "tree" /\ x.unwind = <<"remove">> \o Tail(run[r].unwind),
         x.proxies \in {0, run[r].proxies}, step = "proxy" => x.proxies = 0,
         x.dirs => run[r].dirs, step = "dirs" => ~x.dirs,
         step = "row" => run[r].claim = "none" \/ run[r].attempted
  PROVE  CoderRunIInv'
<1> DEFINE q == run[r]
<1>1. HandsOver(r)
  BY Still
<1>0. /\ step \in UnwindStep /\ step # "retain"
      /\ "remove" \in UnwindStep
  BY DEF UnwindStep
<1>9. /\ q.engine \in Engine /\ q.group # "alive" /\ Tail(q.unwind) \in Seq(UnwindStep)
      /\ \A t : Has(Tail(q.unwind), t) => Has(q.unwind, t)
      /\ \A t : Has(q.unwind, t) => Has(Tail(q.unwind), t) \/ t = step
      /\ ~Has(q.unwind, "retain") /\ Has(q.unwind, step)
  BY <1>0, Winding
<1>10. /\ q.proxies # 0 => q.end = "rejected" \/ Has(q.unwind, "proxy")
       /\ q.dirs => /\ q.engine \in {"omp", "crush"}
                    /\ \/ Has(q.unwind, "dirs") \/ q.end = "unrooted"
                       \/ q.engine = "omp" /\ (q.end = "retained" \/ q.stuck)
  BY <1>0, Winding
<1>11. /\ q.claim # "none" /\ ~q.attempted => lease = r
       /\ lease = r => /\ q.claim # "none" /\ (q.attempted => q.stuck)
                       /\ q.stuck \/ q.end = "stranded" \/ Has(q.unwind, "row")
  BY <1>0, <1>9, Winding
<1>12. /\ q.group = "unverified" =>
            /\ q.end = "retained" /\ ~Has(q.unwind, "tree") /\ ~Has(q.unwind, "remove") /\ ~Has(q.unwind, "row")
            /\ q.claim # "none" => row = "running" /\ (lease = NoRun \/ lease = r)
       /\ q.end = "envelope" => /\ ~Has(q.unwind, "row") /\ ~Has(q.unwind, "retain")
                                /\ q.group = "gone" /\ ~q.stuck /\ (q.claim = "none" \/ q.attempted)
  BY <1>0, Winding
<1>2. /\ \A t : Has(x.unwind, t) => Has(q.unwind, t) \/ (t = "remove" /\ step = "tree")
      /\ \A t : Has(q.unwind, t) => Has(x.unwind, t) \/ t = step
  <2>2. CASE x.unwind = Tail(q.unwind)
    BY <1>9, <2>2
  <2>3. CASE step = "tree" /\ x.unwind = <<"remove">> \o Tail(q.unwind)
    <3>1. \A t : Has(<<"remove">> \o Tail(q.unwind), t) <=> t = "remove" \/ Has(Tail(q.unwind), t)
      BY <1>0, <1>9, PrefixHas
    <3> QED
      BY <1>9, <2>3, <3>1
  <2> QED
    BY <2>2, <2>3
<1>3. /\ x.engine \in Engine /\ x.group # "alive"
      /\ ~Has(x.unwind, "retain")
      /\ x.proxies # 0 => x.end = "rejected" \/ Has(x.unwind, "proxy")
      /\ x.dirs => /\ x.engine \in {"omp", "crush"}
                   /\ \/ Has(x.unwind, "dirs") \/ x.end = "unrooted"
                      \/ x.engine = "omp" /\ (x.end = "retained" \/ x.stuck)
  BY <1>2, <1>9, <1>10
<1>4. /\ x.claim # "none" /\ ~x.attempted => lease' = r
      /\ lease' = r => /\ x.claim # "none" /\ (x.attempted => x.stuck)
                       /\ x.stuck \/ x.end = "stranded" \/ Has(x.unwind, "row") \/ Has(x.unwind, "retain")
  BY <1>2, <1>9, <1>11
<1>5. x.group = "unverified" =>
        /\ x.end = "retained" /\ ~Has(x.unwind, "tree") /\ ~Has(x.unwind, "remove") /\ ~Has(x.unwind, "row")
        /\ x.claim # "none" => row' = "running" /\ (lease' = NoRun \/ lease' = r)
  BY <1>2, <1>9, <1>12
<1>6. x.end = "envelope" => /\ ~Has(x.unwind, "row") /\ ~Has(x.unwind, "retain")
                            /\ x.group = "gone" /\ ~x.stuck /\ (x.claim = "none" \/ x.attempted)
  BY <1>2, <1>9, <1>12
<1> QED
  BY <1>1, <1>3, <1>4, <1>5, <1>6, Unwinds

LEMMA Removes ==
  ASSUME CoderRunIInv, NEW r \in Run,
         AbandonTree(r) \/ RemoveAbandoned(r) \/ RemoveDirs(r) \/ ReleaseProxies(r)
  PROVE  CoderRunIInv'
<1>1. /\ GitTyped /\ UNCHANGED <<row, lease>> /\ run[r] \in RunRecord
      /\ \A t \in {"tree", "remove", "dirs", "proxy"} : t \in UnwindStep \ {"retain"}
  BY Still DEF AbandonTree, RemoveAbandoned, RemoveDirs, ReleaseProxies, Git, Session, GitTyped, TakeTree,
               CoderRunIInv, RunTyped, UnwindStep
<1> DEFINE u == Undone(r)
<1>2. ASSUME Tail(run[r].unwind) \in Seq(UnwindStep)
      PROVE  /\ u \in RunRecord /\ u.unwind = Tail(run[r].unwind)
             /\ u.at = run[r].at /\ u.proxies = run[r].proxies /\ (u.dirs <=> run[r].dirs) /\ Alike(u, run[r])
             /\ u.tried \in BOOLEAN
  <2>1. u \in RunRecord
    BY <1>1, <1>2, FieldSet DEF Undone
  <2>2. /\ u.unwind = Tail(run[r].unwind) /\ u.at = run[r].at /\ u.proxies = run[r].proxies
        /\ (u.dirs <=> run[r].dirs) /\ Alike(u, run[r])
    BY <1>1 DEF RunRecord, Undone, Alike
  <2>3. u.tried \in BOOLEAN
    BY <2>1 DEF RunRecord
  <2> QED
    BY <2>1, <2>2, <2>3
<1>3. CASE AbandonTree(r)
  <2> DEFINE mine == run[r].isolated /\ run[r].fresh /\ ~run[r].tried
             tried == u.tried \/ mine
             steps == IF mine /\ tree = "clean" THEN <<"remove">> \o u.unwind ELSE u.unwind
             x == [u EXCEPT !.tried = tried, !.unwind = steps]
  <2>1. Due(r, "tree") /\ Becomes(r, x)
    BY <1>3 DEF AbandonTree
  <2>2. /\ Tail(run[r].unwind) \in Seq(UnwindStep) /\ "remove" \in UnwindStep
        /\ run[r].at = "unwind" /\ run[r].took \notin {"alive", "unverified"}
    BY <1>1, <2>1, Winding DEF UnwindStep
  <2>3. tried \in BOOLEAN /\ steps \in Seq(UnwindStep)
    BY <1>2, <2>2, PrefixHas
  <2>4. steps = Tail(run[r].unwind) \/ steps = <<"remove">> \o Tail(run[r].unwind)
    BY <1>2, <2>2
  <2> HIDE DEF u, tried, steps
  <2>5. x \in RunRecord
    BY <1>2, <2>2, <2>3, FieldSet
  <2>6. /\ x.at = u.at /\ x.unwind = steps /\ Alike(x, u)
    BY <1>2, <2>2 DEF RunRecord, Alike
  <2> HIDE DEF x
  <2> QED
    BY <1>1, <1>2, <2>1, <2>2, <2>4, <2>5, <2>6, Undoes DEF Alike
<1>4. CASE RemoveAbandoned(r)
  <2>1. Due(r, "remove")
    BY <1>4 DEF RemoveAbandoned
  <2>2. /\ Tail(run[r].unwind) \in Seq(UnwindStep) /\ run[r].group # "alive" /\ run[r].group # "unverified"
        /\ run[r].at = "unwind" /\ run[r].took \notin {"alive", "unverified"}
        /\ run[r].group \in {"none", "alive", "gone", "unverified"}
    BY <1>1, <2>1, Winding DEF RunRecord
  <2> DEFINE x == [u EXCEPT !.took = run[r].group]
  <2>3. Becomes(r, u) \/ Becomes(r, x)
    BY <1>4 DEF RemoveAbandoned
  <2> HIDE DEF u
  <2>4. x \in RunRecord
    BY <1>2, <2>2, FieldSet
  <2>5. /\ x.at = u.at /\ x.unwind = u.unwind /\ x.took = run[r].group /\ x.engine = u.engine /\ x.group = u.group
        /\ x.claim = u.claim /\ x.end = u.end /\ x.proxies = u.proxies
        /\ (x.dirs <=> u.dirs) /\ (x.attempted <=> u.attempted) /\ (x.stuck <=> u.stuck)
    BY <1>2, <2>2 DEF RunRecord
  <2> HIDE DEF x
  <2>6. CASE Becomes(r, u)
    BY <1>1, <1>2, <2>1, <2>2, <2>6, Undoes DEF Alike
  <2>7. CASE Becomes(r, x)
    BY <1>1, <1>2, <2>1, <2>2, <2>4, <2>5, <2>7, Undoes DEF Alike
  <2> QED
    BY <2>3, <2>6, <2>7
<1>5. CASE RemoveDirs(r)
  <2> DEFINE x == [u EXCEPT !.dirs = FALSE]
  <2>1. Due(r, "dirs") /\ Becomes(r, x)
    BY <1>5 DEF RemoveDirs
  <2>2. /\ Tail(run[r].unwind) \in Seq(UnwindStep)
        /\ run[r].at = "unwind" /\ run[r].took \notin {"alive", "unverified"}
    BY <1>1, <2>1, Winding
  <2> HIDE DEF u
  <2>3. x \in RunRecord
    BY <1>2, <2>2, FieldSet
  <2>4. /\ x.at = u.at /\ x.unwind = u.unwind /\ x.took = u.took /\ x.engine = u.engine /\ x.group = u.group
        /\ x.claim = u.claim /\ x.end = u.end /\ x.proxies = u.proxies
        /\ ~x.dirs /\ (x.attempted <=> u.attempted) /\ (x.stuck <=> u.stuck)
    BY <1>2, <2>2 DEF RunRecord
  <2> HIDE DEF x
  <2> QED
    BY <1>1, <1>2, <2>1, <2>2, <2>3, <2>4, Undoes DEF Alike
<1>6. CASE ReleaseProxies(r)
  <2> DEFINE x == [u EXCEPT !.proxies = 0]
  <2>1. Due(r, "proxy") /\ Becomes(r, x)
    BY <1>6 DEF ReleaseProxies
  <2>2. /\ Tail(run[r].unwind) \in Seq(UnwindStep) /\ 0 \in 0..2
        /\ run[r].at = "unwind" /\ run[r].took \notin {"alive", "unverified"}
    BY <1>1, <2>1, Winding
  <2> HIDE DEF u
  <2>3. x \in RunRecord
    BY <1>2, <2>2, FieldSet
  <2>4. /\ x.at = u.at /\ x.unwind = u.unwind /\ x.took = u.took /\ x.engine = u.engine /\ x.group = u.group
        /\ x.claim = u.claim /\ x.end = u.end /\ x.proxies = 0
        /\ (x.dirs <=> u.dirs) /\ (x.attempted <=> u.attempted) /\ (x.stuck <=> u.stuck)
    BY <1>2, <2>2 DEF RunRecord
  <2> HIDE DEF x
  <2> QED
    BY <1>1, <1>2, <2>1, <2>2, <2>3, <2>4, Undoes DEF Alike
<1> QED
  BY <1>3, <1>4, <1>5, <1>6

\* The row is settled or kept, and the lease given back or stuck.
LEMMA Releases ==
  ASSUME CoderRunIInv, NEW r \in Run, ReleaseRow(r)
  PROVE  CoderRunIInv'
<1> DEFINE u == Undone(r)
           a == u.attempted \/ run[r].claim # "none"
           q == [u EXCEPT !.attempted = a]
           x == [q EXCEPT !.stuck = TRUE, !.unwind = Finally(q.engine)]
<1>1. /\ GitTyped /\ run[r] \in RunRecord /\ Due(r, "row") /\ "row" \in UnwindStep \ {"retain"} /\ r # NoRun
      /\ row \in {"absent", "reserved", "running", "idle"}
  BY Still DEF ReleaseRow, Git, UnwindStep
<1>2. /\ Tail(run[r].unwind) \in Seq(UnwindStep) /\ run[r].engine \in Engine
      /\ run[r].at = "unwind" /\ run[r].took \notin {"alive", "unverified"}
      /\ run[r].group # "alive" /\ run[r].group # "unverified" /\ run[r].end # "envelope"
      /\ ~Has(Tail(run[r].unwind), "retain")
  BY <1>1, Winding
<1>3. u \in RunRecord
  BY <1>1, <1>2, FieldSet DEF Undone
<1>4. /\ u.unwind = Tail(run[r].unwind) /\ u.at = run[r].at /\ Alike(u, run[r])
  BY <1>1, <1>2 DEF RunRecord, Undone, Alike
<1>5. a \in BOOLEAN
  BY <1>3 DEF RunRecord
<1>6. /\ run[r].claim = "none" \/ run[r].attempted => Becomes(r, q) /\ UNCHANGED <<row, lease>>
      /\ ~(run[r].claim = "none" \/ run[r].attempted) =>
           Settled(r, IF q.claim = "new" THEN {"absent", "idle"} ELSE {"idle"}, Becomes(r, q), Becomes(r, x))
  BY DEF ReleaseRow
<1> HIDE DEF u
<1>7. q \in RunRecord
  BY <1>3, <1>5, FieldSet
<1>8. /\ q.at = u.at /\ q.unwind = u.unwind /\ q.took = u.took /\ q.engine = u.engine /\ q.group = u.group
      /\ q.claim = u.claim /\ q.end = u.end /\ q.proxies = u.proxies
      /\ (q.dirs <=> u.dirs) /\ (q.attempted <=> a) /\ (q.stuck <=> u.stuck)
  BY <1>3, <1>5 DEF RunRecord
<1> HIDE DEF q
<1>9. CASE run[r].claim = "none" \/ run[r].attempted
  <2>1. q.attempted <=> run[r].attempted
    BY <1>4, <1>8, <1>9 DEF Alike
  <2> QED
    BY <1>1, <1>2, <1>4, <1>6, <1>7, <1>8, <1>9, <2>1, Undoes DEF Alike
<1>10. CASE ~(run[r].claim = "none" \/ run[r].attempted)
  <2>1. lease = r /\ q.attempted /\ q.claim # "none"
    BY <1>1, <1>4, <1>8, <1>10, Winding DEF Alike
  <2>2. /\ row' \in {"absent", "idle", row}
        /\ \/ lease' = NoRun /\ Becomes(r, q)
           \/ lease' = lease /\ Becomes(r, x)
    BY <1>6, <1>10 DEF Settled
  <2>3. HandsOver(r)
    BY <1>1, <2>1, <2>2 DEF HandsOver
  <2>4. CASE lease' = NoRun /\ Becomes(r, q)
    <3>1. /\ q.proxies # 0 => q.end = "rejected" \/ Has(q.unwind, "proxy")
          /\ q.dirs => /\ q.engine \in {"omp", "crush"}
                       /\ \/ Has(q.unwind, "dirs") \/ q.end = "unrooted"
                          \/ q.engine = "omp" /\ (q.end = "retained" \/ q.stuck)
      BY <1>1, <1>4, <1>8, Winding DEF Alike
    <3>2. /\ q.at = "unwind" /\ q.engine \in Engine /\ q.group # "alive" /\ q.group # "unverified"
          /\ q.took \notin {"alive", "unverified"} /\ q.end # "envelope" /\ ~Has(q.unwind, "retain")
          /\ lease' # r
      BY <1>1, <1>2, <1>4, <1>8, <2>4 DEF Alike
    <3> QED
      BY <1>1, <1>7, <2>1, <2>3, <2>4, <3>1, <3>2, Unwinds
  <2>5. CASE lease' = lease /\ Becomes(r, x)
    <3> DEFINE f == Finally(q.engine)
    <3>1. q.engine \in Engine
      BY <1>2, <1>4, <1>8 DEF Alike
    <3>2. /\ f \in Seq(UnwindStep) /\ Has(f, "proxy") /\ ~Has(f, "retain") /\ (q.engine = "crush" => Has(f, "dirs"))
      BY <3>1, DueAfter
    <3> HIDE DEF f
    <3>3. [q EXCEPT !.stuck = TRUE, !.unwind = f] \in RunRecord
      BY <1>7, <3>2, FieldSet
    <3>4. x \in RunRecord
      BY <3>3 DEF f
    <3>5. /\ x.at = q.at /\ x.unwind = f /\ x.took = q.took /\ x.engine = q.engine /\ x.group = q.group
          /\ x.claim = q.claim /\ x.end = q.end /\ x.proxies = q.proxies
          /\ (x.dirs <=> q.dirs) /\ (x.attempted <=> q.attempted) /\ x.stuck
      BY <1>7 DEF RunRecord, f
    <3> HIDE DEF x
    <3>6. q.dirs => q.engine \in {"omp", "crush"}
      BY <1>1, <1>4, <1>8, Winding DEF Alike
    <3>7. /\ x.at = "unwind" /\ x.engine \in Engine /\ x.group # "alive" /\ x.group # "unverified"
          /\ x.took \notin {"alive", "unverified"} /\ x.end # "envelope" /\ ~Has(x.unwind, "retain")
          /\ Has(x.unwind, "proxy") /\ (x.engine = "crush" => Has(x.unwind, "dirs"))
          /\ lease' = r /\ x.claim # "none" /\ x.attempted
          /\ x.dirs => x.engine \in {"omp", "crush"}
      BY <1>1, <1>2, <1>4, <1>8, <2>1, <2>5, <3>1, <3>2, <3>5, <3>6 DEF Alike
    <3> QED
      BY <1>1, <2>3, <2>5, <3>4, <3>5, <3>7, Unwinds
  <2> QED
    BY <2>2, <2>4, <2>5
<1> QED
  BY <1>9, <1>10

\* The row stays as it is; the lease is given back, or that fails too.
LEMMA Retains ==
  ASSUME CoderRunIInv, NEW r \in Run, Retain(r)
  PROVE  CoderRunIInv'
<1> DEFINE u == Undone(r)
           a == u.attempted \/ run[r].claim # "none"
           q == [u EXCEPT !.attempted = a]
           x == [q EXCEPT !.stuck = TRUE]
<1>1. /\ GitTyped /\ run[r] \in RunRecord /\ Due(r, "retain") /\ "retain" \in UnwindStep /\ r # NoRun
      /\ row \in {"absent", "reserved", "running", "idle"} /\ UNCHANGED row
  BY Still DEF Retain, Git, UnwindStep
<1>2. /\ Tail(run[r].unwind) \in Seq(UnwindStep) /\ run[r].engine \in Engine
      /\ run[r].at = "unwind" /\ run[r].took \notin {"alive", "unverified"}
      /\ run[r].group = "unverified" /\ run[r].end = "retained" /\ ~run[r].attempted
      /\ run[r].dirs => run[r].engine \in {"omp", "crush"}
      /\ run[r].claim # "none" => lease = r /\ row = "running"
      /\ lease = r => run[r].claim # "none"
      /\ Tail(run[r].unwind) = Finally(run[r].engine)
  BY <1>1, Winding
<1>3. u \in RunRecord
  BY <1>1, <1>2, FieldSet DEF Undone
<1>4. /\ u.unwind = Tail(run[r].unwind) /\ u.at = run[r].at /\ Alike(u, run[r])
  BY <1>1, <1>2 DEF RunRecord, Undone, Alike
<1>5. a \in BOOLEAN
  BY <1>3 DEF RunRecord
<1>6. \/ Becomes(r, q) /\ lease' = IF q.claim = "none" THEN lease ELSE NoRun
      \/ q.claim # "none" /\ Becomes(r, x) /\ UNCHANGED lease
  BY DEF Retain
<1> HIDE DEF u
<1>7. q \in RunRecord /\ x \in RunRecord
  <2>1. q \in RunRecord
    BY <1>3, <1>5, FieldSet
  <2> HIDE DEF q
  <2> QED
    BY <2>1, FieldSet
<1>8. /\ q.at = u.at /\ q.unwind = u.unwind /\ q.took = u.took /\ q.engine = u.engine /\ q.group = u.group
      /\ q.claim = u.claim /\ q.end = u.end /\ q.proxies = u.proxies
      /\ (q.dirs <=> u.dirs) /\ (q.attempted <=> a) /\ (q.stuck <=> u.stuck)
  BY <1>3, <1>5 DEF RunRecord
<1> HIDE DEF q
<1>9. /\ x.at = q.at /\ x.unwind = q.unwind /\ x.took = q.took /\ x.engine = q.engine /\ x.group = q.group
      /\ x.claim = q.claim /\ x.end = q.end /\ x.proxies = q.proxies
      /\ (x.dirs <=> q.dirs) /\ (x.attempted <=> q.attempted) /\ x.stuck
  BY <1>7 DEF RunRecord
<1> HIDE DEF x
<1>10. HandsOver(r) /\ (lease' = r => q.claim # "none" /\ Becomes(r, x)) /\ (lease' = NoRun \/ lease' = r \/ q.claim = "none")
  BY <1>1, <1>2, <1>4, <1>6, <1>8 DEF HandsOver, Alike
<1>11. ASSUME NEW y \in {q, x}, Becomes(r, y), lease' = r => y.stuck
       PROVE  CoderRunIInv'
  <2>1. /\ y \in RunRecord
        /\ y.at = "unwind" /\ y.unwind = Finally(y.engine) /\ y.took \notin {"alive", "unverified"}
        /\ y.engine \in Engine /\ y.group = "unverified" /\ y.claim = run[r].claim /\ y.end = "retained"
        /\ y.dirs => y.engine \in {"omp", "crush"}
        /\ y.attempted <=> y.claim # "none"
    BY <1>2, <1>4, <1>7, <1>8, <1>9 DEF Alike
  <2>2. /\ \A t \in {"tree", "remove", "row", "retain"} : ~Has(y.unwind, t)
        /\ Has(y.unwind, "proxy") /\ (y.engine = "crush" => Has(y.unwind, "dirs"))
    BY <2>1, DueAfter
  <2>3. lease' = r => y.claim # "none"
    BY <1>4, <1>8, <1>10, <2>1 DEF Alike
  <2>4. y.claim # "none" => row' = "running" /\ (lease' = NoRun \/ lease' = r)
    BY <1>1, <1>2, <1>4, <1>8, <1>10, <2>1 DEF Alike
  <2> QED
    BY <1>1, <1>10, <1>11, <2>1, <2>2, <2>3, <2>4, Unwinds
<1>12. CASE Becomes(r, q) /\ lease' = IF q.claim = "none" THEN lease ELSE NoRun
  <2>1. lease' # r
    BY <1>1, <1>2, <1>4, <1>8, <1>12 DEF Alike
  <2> QED
    BY <1>11, <1>12, <2>1
<1>13. CASE Becomes(r, x)
  BY <1>9, <1>11, <1>13
<1> QED
  BY <1>6, <1>12, <1>13

LEMMA Leaves ==
  ASSUME CoderRunIInv, NEW r \in Run, Leave(r)
  PROVE  CoderRunIInv'
<1> DEFINE x == [run[r] EXCEPT !.at = "over", !.tried = FALSE, !.needs = 0]
<1>1. /\ GitTyped /\ UNCHANGED <<row, lease>> /\ HandsOver(r) /\ run[r] \in RunRecord /\ Sound(r)
      /\ run[r].at = "unwind" /\ run[r].unwind = <<>> /\ Becomes(r, x) /\ run'[r] = x
  BY Still DEF Leave, Git, Session, Is
<1>2. "over" \in At /\ 0 \in 0..2
  BY DEF At
<1>3. x \in RunRecord
  BY <1>1, <1>2, FieldSet
<1>4. /\ x.at = "over" /\ x.unwind = <<>> /\ Alike(x, run[r])
  BY <1>1, <1>2 DEF RunRecord, Alike
<1> HIDE DEF x
<1>5. \A t : ~IsDue(r, t) /\ ~IsDue(r, t)'
  BY <1>1, <1>4, DueBefore DEF IsDue, Is
<1>6. Stages(r)'
  BY <1>1, <1>4 DEF Sound, Stages, Alike, Unstarted, Unadmitted, Answered, Closing
<1>7. Proxies(r)'
  BY <1>1, <1>4, <1>5 DEF Sound, Proxies, Alike, Answered, Closing
<1>8. Directories(r)'
  BY <1>1, <1>4, <1>5 DEF Sound, Directories, Alike, Unadmitted, Closing
<1>9. Leases(r)'
  BY <1>1, <1>4, <1>5 DEF Sound, Leases, Alike, Closing
<1>10. Unwinding(r)'
  BY <1>1, <1>4, <1>5 DEF Sound, Unwinding, Alike
<1> QED
  BY <1>1, <1>3, <1>6, <1>7, <1>8, <1>9, <1>10, StepKeeps DEF Sound

-----------------------------------------------------------------------------
(* The theorem                                                             *)

LEMMA RunIInvNext == CoderRunIInv /\ [RunNext]_runVars => CoderRunIInv'
<1> SUFFICES ASSUME CoderRunIInv, [RunNext]_runVars PROVE CoderRunIInv'
  OBVIOUS
<1>1. CASE UNCHANGED runVars
  BY <1>1 DEF runVars, CoderRunIInv, RunTyped, Sound, Stages, Proxies, Directories, Leases, Unwinding, IsDue, Is
<1>2. ASSUME NEW r \in Run, RunStep(r) PROVE CoderRunIInv'
  <2>1. CASE Begin(r) \/ FindTree(r) \/ AddTree(r)
    BY <2>1, Begins
  <2>2. CASE Preflight(r) \/ StartProxy(r)
    BY <2>2, Guards
  <2>3. CASE Admit(r)
    BY <2>3, Admits
  <2>4. CASE PrepareOpencode(r) \/ PrepareOpencode2(r) \/ PrepareOmp(r) \/ PrepareCrush(r)
    BY <2>4, Prepared
  <2>5. CASE Spawn(r)
    BY <2>5, Spawns
  <2>6. CASE EngineWrites(r)
    BY <2>6, Writes
  <2>7. CASE EngineAnswers(r) \/ EngineFails(r) \/ EngineUnverified(r)
    BY <2>7, EngineEnds
  <2>8. CASE Publish(r) \/ Changes(r) \/ RemoveUnchanged(r)
    BY <2>8, ReportsTheRun
  <2>9. CASE Complete(r)
    BY <2>9, Completes
  <2>10. CASE Envelope(r)
    BY <2>10, Delivers
  <2>11. CASE AbandonTree(r) \/ RemoveAbandoned(r) \/ RemoveDirs(r) \/ ReleaseProxies(r)
    BY <2>11, Removes
  <2>12. CASE ReleaseRow(r)
    BY <2>12, Releases
  <2>13. CASE Retain(r)
    BY <2>13, Retains
  <2>14. CASE Leave(r)
    BY <2>14, Leaves
  <2> QED
    BY <1>2, <2>1, <2>2, <2>3, <2>4, <2>5, <2>6, <2>7, <2>8, <2>9, <2>10, <2>11, <2>12, <2>13, <2>14 DEF RunStep
<1> QED
  BY <1>1, <1>2 DEF RunNext

\* However many runs share a worktree and its session row, and whatever step of
\* runCoderRun or runCrushFlow fails: a run that is over holds no proxy, lease or private
\* directory but at the exits EveryExitSettles names; a slug whose engine may still be
\* alive stays busy; no run removes a worktree under its own engine; and an engine has
\* its proxies for as long as it lives.
THEOREM EveryRunSettles == RunSpec => []RunInv
<1>1. CoderRunIInv /\ [RunNext]_runVars => CoderRunIInv'
  BY RunIInvNext
<1> QED
  BY RunIInvInit, <1>1, RunIInvImplies, PTL DEF RunSpec

=============================================================================

--------------------------- MODULE ServicesProofs ---------------------------
(***************************************************************************)
(* Services that a run of the coder uses: the session store implements     *)
(* MappingStore for every set of processes and slugs, every retry bound    *)
(* and any number of crashes; what the credential proxy promises for every *)
(* finite set of requests and any caps; and what the usage log says of a   *)
(* call, which of its records it keeps and what their summary adds up to.  *)
(***************************************************************************)
EXTENDS SessionStore, CredentialProxy, UsageLog, FiniteSetTheorems, WellFoundedInduction, TLAPS

-----------------------------------------------------------------------------
(* The usage log: sums.  A set of numbers has a least one, so a recursion  *)
(* over the positions of a log is of a function that exists.               *)

LEMMA SomeFirst ==
  ASSUME NEW S, S \subseteq Nat, S # {}
  PROVE  \E n \in S : \A k \in S : n <= k
<1> DEFINE R == OpToRel(<, Nat)
<1>1. PICK n \in S : \A k \in S : <<k, n>> \notin R
  <2>1. IsWellFoundedOn(R, Nat)
    BY NatLessThanWellFounded
  <2> HIDE DEF R
  <2> QED
    BY <2>1, WFMin
<1>2. ASSUME NEW k \in S  PROVE n <= k
  <2>1. ~(k < n)
    BY <1>1 DEF OpToRel
  <2>2. k \in Nat /\ n \in Nat
    OBVIOUS
  <2> QED
    BY <2>1, <2>2
<1> QED
  BY <1>2

PartialSums(value, f, m) ==
  f = [n \in 0..m |-> IF n = 0 THEN 0 ELSE f[n - 1] + value[n]]

LEMMA SomePartialSums ==
  ASSUME NEW value, NEW m \in Nat
  PROVE  \E f : PartialSums(value, f, m)
<1> DEFINE Bad == {k \in 0..m : ~\E f : PartialSums(value, f, k)}
<1>1. SUFFICES ASSUME Bad # {}  PROVE FALSE
  <2>1. m \in 0..m
    OBVIOUS
  <2> QED
    BY <1>1, <2>1
<1>2. PICK k \in Bad : \A j \in Bad : k <= j
  <2>1. Bad \subseteq Nat
    OBVIOUS
  <2> HIDE DEF Bad
  <2> QED
    BY <1>1, <2>1, SomeFirst
<1>3. k \in 0..m /\ ~\E f : PartialSums(value, f, k)
  BY <1>2
<1>4. CASE k = 0
  <2> DEFINE f == [n \in 0..0 |-> 0]
  <2>1. f = [n \in 0..0 |-> IF n = 0 THEN 0 ELSE f[n - 1] + value[n]]
    <3>1. \A n \in 0..0 : n = 0
      OBVIOUS
    <3> QED
      BY <3>1
  <2> QED
    BY <1>3, <1>4, <2>1 DEF PartialSums
<1>5. CASE k # 0
  <2>1. k \in Nat /\ k - 1 \in 0..m /\ ~(k <= k - 1)
    BY <1>3, <1>5
  <2>2. k - 1 \notin Bad
    <3> HIDE DEF Bad
    <3> QED
      BY <1>2, <2>1
  <2>3. PICK g : PartialSums(value, g, k - 1)
    BY <2>1, <2>2
  <2> DEFINE last == g[k - 1] + value[k]
             f == [n \in 0..k |-> IF n = k THEN last ELSE g[n]]
             step(n) == IF n = 0 THEN 0 ELSE f[n - 1] + value[n]
  <2>4. ASSUME NEW n \in 0..k  PROVE f[n] = step(n)
    <3>1. CASE n = k
      <4>1. k - 1 \in 0..k /\ k - 1 # k
        BY <2>1
      <4>2. f[k - 1] = g[k - 1] /\ f[k] = last
        BY <2>1, <4>1
      <4> HIDE DEF f
      <4> QED
        BY <1>5, <3>1, <4>2
    <3>2. CASE n = 0
      <4>1. 0 \in 0..k - 1 /\ n \in 0..k /\ n # k
        BY <1>5, <2>1, <3>2
      <4>2. g[0] = 0
        BY <2>3, <4>1 DEF PartialSums
      <4> QED
        BY <3>2, <4>1, <4>2
    <3>3. CASE n # 0 /\ n # k
      <4>1. n \in 0..k - 1 /\ n - 1 \in 0..k /\ n - 1 # k
        BY <2>1, <3>3
      <4>2. f[n - 1] = g[n - 1] /\ f[n] = g[n]
        BY <3>3, <4>1
      <4>3. g[n] = g[n - 1] + value[n]
        BY <2>3, <3>3, <4>1 DEF PartialSums
      <4> HIDE DEF f
      <4> QED
        BY <3>3, <4>2, <4>3
    <3> QED
      BY <3>1, <3>2, <3>3
  <2>5. f = [n \in 0..k |-> step(n)]
    <3>1. f = [n \in 0..k |-> f[n]]
      OBVIOUS
    <3> HIDE DEF f
    <3> QED
      BY <2>4, <3>1
  <2> HIDE DEF f
  <2>6. PartialSums(value, f, k)
    BY <2>5 DEF PartialSums
  <2> QED
    BY <1>3, <2>6
<1> QED
  BY <1>4, <1>5

LEMMA SumToIsPartial ==
  ASSUME NEW value, NEW m \in Nat
  PROVE  \E f : PartialSums(value, f, m) /\ SumTo(value, m) = f[m]
<1>1. \E f : PartialSums(value, f, m)
  BY SomePartialSums
<1> QED
  BY <1>1 DEF PartialSums, SumTo

\* The sum of sums is the sum of what is added up, position by position.
LEMMA SumsAdd ==
  ASSUME NEW m \in Nat, NEW a, NEW b, NEW c,
         \A n \in 1..m : a[n] \in Nat /\ b[n] \in Nat /\ c[n] = a[n] + b[n]
  PROVE  SumTo(a, m) \in Nat /\ SumTo(b, m) \in Nat /\ SumTo(c, m) = SumTo(a, m) + SumTo(b, m)
<1>1. PICK f : PartialSums(a, f, m) /\ SumTo(a, m) = f[m]
  BY SumToIsPartial
<1>2. PICK g : PartialSums(b, g, m) /\ SumTo(b, m) = g[m]
  BY SumToIsPartial
<1>3. PICK h : PartialSums(c, h, m) /\ SumTo(c, m) = h[m]
  BY SumToIsPartial
<1> DEFINE Adds(k) == f[k] \in Nat /\ g[k] \in Nat /\ h[k] = f[k] + g[k]
           Bad == {k \in 0..m : ~Adds(k)}
<1>4. ASSUME Bad # {}  PROVE FALSE
  <2>1. PICK k \in Bad : \A j \in Bad : k <= j
    <3>1. Bad \subseteq Nat
      OBVIOUS
    <3> HIDE DEF Bad
    <3> QED
      BY <1>4, <3>1, SomeFirst
  <2>2. k \in 0..m /\ ~Adds(k)
    BY <2>1
  <2>3. CASE k = 0
    <3>1. f[0] = 0 /\ g[0] = 0 /\ h[0] = 0
      BY <1>1, <1>2, <1>3, <2>2, <2>3 DEF PartialSums
    <3> QED
      BY <2>2, <2>3, <3>1
  <2>4. CASE k # 0
    <3>1. k - 1 \in 0..m /\ ~(k <= k - 1) /\ k \in 1..m
      BY <2>2, <2>4
    <3>2. Adds(k - 1)
      <4>1. k - 1 \notin Bad
        <5> HIDE DEF Bad
        <5> QED
          BY <2>1, <3>1
      <4> QED
        BY <3>1, <4>1
    <3>3. f[k] = f[k - 1] + a[k]
      BY <1>1, <2>2, <2>4 DEF PartialSums
    <3>4. g[k] = g[k - 1] + b[k]
      BY <1>2, <2>2, <2>4 DEF PartialSums
    <3>5. h[k] = h[k - 1] + c[k]
      BY <1>3, <2>2, <2>4 DEF PartialSums
    <3>6. a[k] \in Nat /\ b[k] \in Nat /\ c[k] = a[k] + b[k]
      BY <3>1
    <3> QED
      BY <2>2, <3>2, <3>3, <3>4, <3>5, <3>6
  <2> QED
    BY <2>3, <2>4
<1>5. Adds(m)
  <2>1. m \in 0..m
    OBVIOUS
  <2> QED
    BY <1>4, <2>1
<1> QED
  BY <1>1, <1>2, <1>3, <1>5

-----------------------------------------------------------------------------
(* The usage log: what a report of counts is made into                     *)

ClassCounts == [Class -> Nat]
TokenRow == [Field -> TokenCount]
AccRow ==
  [sum : ClassCounts, reported : ClassCounts, steps : Nat, total : Nat, totals : Nat]

LEMMA ClassSums ==
  ASSUME NEW v \in ClassCounts
  PROVE  /\ SumOf(v, InputClass) = v["uncached"] + v["read"] + v["write"]
         /\ SumOf(v, OutputClass) = v["visible"] + v["reasoning"]
         /\ SumOf(v, Class) = SumOf(v, InputClass) + SumOf(v, OutputClass)
         /\ SumOf(v, InputClass) \in Nat /\ SumOf(v, OutputClass) \in Nat /\ SumOf(v, Class) \in Nat
         /\ \A c \in Class : v[c] \in Nat
<1>1. \A c \in Class : v[c] \in Nat
  BY DEF ClassCounts
<1>2. /\ v["uncached"] \in Nat /\ v["read"] \in Nat /\ v["write"] \in Nat
      /\ v["visible"] \in Nat /\ v["reasoning"] \in Nat
  BY <1>1 DEF Class, InputClass, OutputClass
<1>3. SumOf(v, InputClass) = v["uncached"] + v["read"] + v["write"] + 0 + 0
  BY DEF SumOf, InputClass
<1>4. SumOf(v, OutputClass) = 0 + 0 + 0 + v["visible"] + v["reasoning"]
  BY DEF SumOf, OutputClass
<1>5. SumOf(v, Class) = v["uncached"] + v["read"] + v["write"] + v["visible"] + v["reasoning"]
  BY DEF SumOf, Class, InputClass, OutputClass
<1> QED
  BY <1>1, <1>2, <1>3, <1>4, <1>5

\* The sum of a side depends on its own classes only.
LEMMA SameSums ==
  ASSUME NEW v \in ClassCounts, NEW w \in ClassCounts
  PROVE  /\ (\A c \in InputClass : v[c] = w[c]) => SumOf(v, InputClass) = SumOf(w, InputClass)
         /\ (\A c \in OutputClass : v[c] = w[c]) => SumOf(v, OutputClass) = SumOf(w, OutputClass)
<1>1. ASSUME \A c \in InputClass : v[c] = w[c]  PROVE SumOf(v, InputClass) = SumOf(w, InputClass)
  <2>1. v["uncached"] = w["uncached"] /\ v["read"] = w["read"] /\ v["write"] = w["write"]
    BY <1>1 DEF InputClass
  <2> QED
    BY <2>1, ClassSums
<1>2. ASSUME \A c \in OutputClass : v[c] = w[c]  PROVE SumOf(v, OutputClass) = SumOf(w, OutputClass)
  <2>1. v["visible"] = w["visible"] /\ v["reasoning"] = w["reasoning"]
    BY <1>2 DEF OutputClass
  <2> QED
    BY <2>1, ClassSums
<1> QED
  BY <1>1, <1>2

\* What the fold of an engine's steps says of what they spent.
AccSound(acc, spent) ==
  /\ acc \in AccRow /\ spent \in ClassCounts
  /\ \A c \in Class : /\ acc.sum[c] <= spent[c] /\ acc.reported[c] <= acc.steps
                      /\ (acc.reported[c] = acc.steps => acc.sum[c] = spent[c])
  /\ acc.totals <= acc.steps
  /\ (acc.totals = acc.steps => acc.total = SumOf(spent, Class))

LEMMA PlusCounts ==
  ASSUME NEW v \in ClassCounts, NEW w \in ClassCounts
  PROVE  /\ Plus(v, w) \in ClassCounts /\ \A c \in Class : Plus(v, w)[c] = v[c] + w[c]
         /\ SumOf(Plus(v, w), Class) = SumOf(v, Class) + SumOf(w, Class)
<1>1. \A c \in Class : v[c] \in Nat /\ w[c] \in Nat
  BY DEF ClassCounts
<1>2. Plus(v, w) \in ClassCounts /\ \A c \in Class : Plus(v, w)[c] = v[c] + w[c]
  BY <1>1 DEF Plus, ClassCounts
<1> DEFINE p == Plus(v, w)
<1>3. /\ p["uncached"] = v["uncached"] + w["uncached"] /\ p["read"] = v["read"] + w["read"]
      /\ p["write"] = v["write"] + w["write"] /\ p["visible"] = v["visible"] + w["visible"]
      /\ p["reasoning"] = v["reasoning"] + w["reasoning"]
  BY <1>2 DEF Class, InputClass, OutputClass
<1>4. /\ v["uncached"] \in Nat /\ v["read"] \in Nat /\ v["write"] \in Nat
      /\ v["visible"] \in Nat /\ v["reasoning"] \in Nat
      /\ w["uncached"] \in Nat /\ w["read"] \in Nat /\ w["write"] \in Nat
      /\ w["visible"] \in Nat /\ w["reasoning"] \in Nat
  BY <1>1 DEF Class, InputClass, OutputClass
<1> HIDE DEF p
<1>5. p \in ClassCounts
  BY <1>2 DEF p
<1>6. SumOf(p, Class) = p["uncached"] + p["read"] + p["write"] + (p["visible"] + p["reasoning"])
  BY <1>5, ClassSums
<1>7. SumOf(v, Class) = v["uncached"] + v["read"] + v["write"] + (v["visible"] + v["reasoning"])
  BY ClassSums
<1>8. SumOf(w, Class) = w["uncached"] + w["read"] + w["write"] + (w["visible"] + w["reasoning"])
  BY ClassSums
<1>9. SumOf(p, Class) = SumOf(v, Class) + SumOf(w, Class)
  BY <1>3, <1>4, <1>6, <1>7, <1>8
<1> QED
  BY <1>2, <1>9 DEF p

LEMMA FoldSound ==
  ASSUME NEW acc, NEW spent, NEW more \in ClassCounts, NEW shown, AccSound(acc, spent)
  PROVE  AccSound(Folded(acc, more, shown), Plus(spent, more))
<1> DEFINE g == Folded(acc, more, shown)
           now == Plus(spent, more)
           sum == [c \in Class |-> acc.sum[c] + IF c \in shown THEN more[c] ELSE 0]
           reported == [c \in Class |-> acc.reported[c] + IF c \in shown THEN 1 ELSE 0]
           total == acc.total + IF "total" \in shown THEN SumOf(more, Class) ELSE 0
           totals == acc.totals + IF "total" \in shown THEN 1 ELSE 0
<1>1. /\ acc.sum \in ClassCounts /\ acc.reported \in ClassCounts /\ acc.steps \in Nat
      /\ acc.total \in Nat /\ acc.totals \in Nat /\ spent \in ClassCounts
  BY DEF AccSound, AccRow
<1>2. \A c \in Class : acc.sum[c] \in Nat /\ acc.reported[c] \in Nat /\ more[c] \in Nat /\ spent[c] \in Nat
  BY <1>1 DEF ClassCounts
<1>3. now \in ClassCounts /\ (\A c \in Class : now[c] = spent[c] + more[c])
      /\ SumOf(now, Class) = SumOf(spent, Class) + SumOf(more, Class)
  BY <1>1, PlusCounts
<1>4. SumOf(spent, Class) \in Nat /\ SumOf(more, Class) \in Nat
  BY <1>1, ClassSums
<1>5. /\ g.sum = sum /\ g.reported = reported /\ g.steps = acc.steps + 1
      /\ g.total = total /\ g.totals = totals
      /\ g = [sum |-> sum, reported |-> reported, steps |-> acc.steps + 1, total |-> total, totals |-> totals]
  BY DEF Folded
<1> HIDE DEF now, g
<1>6. ASSUME NEW c \in Class
      PROVE  /\ sum[c] \in Nat /\ reported[c] \in Nat /\ sum[c] <= now[c] /\ reported[c] <= acc.steps + 1
             /\ (reported[c] = acc.steps + 1 => sum[c] = now[c])
  <2>1. /\ acc.sum[c] <= spent[c] /\ acc.reported[c] <= acc.steps
        /\ (acc.reported[c] = acc.steps => acc.sum[c] = spent[c])
    BY DEF AccSound
  <2>2. acc.sum[c] \in Nat /\ acc.reported[c] \in Nat /\ more[c] \in Nat /\ spent[c] \in Nat
        /\ now[c] = spent[c] + more[c] /\ acc.steps \in Nat
    BY <1>1, <1>2, <1>3
  <2>3. CASE c \in shown
    <3>1. sum[c] = acc.sum[c] + more[c] /\ reported[c] = acc.reported[c] + 1
      BY <2>3
    <3> HIDE DEF sum, reported
    <3> QED
      BY <2>1, <2>2, <3>1
  <2>4. CASE c \notin shown
    <3>1. sum[c] = acc.sum[c] + 0 /\ reported[c] = acc.reported[c] + 0
      BY <2>4
    <3> HIDE DEF sum, reported
    <3> QED
      BY <2>1, <2>2, <3>1
  <2> QED
    BY <2>3, <2>4
<1>7. sum \in ClassCounts /\ reported \in ClassCounts
  BY <1>6 DEF ClassCounts
<1>8. /\ total \in Nat /\ totals \in Nat /\ totals <= acc.steps + 1
      /\ (totals = acc.steps + 1 => total = SumOf(now, Class))
  <2>1. acc.totals <= acc.steps /\ (acc.totals = acc.steps => acc.total = SumOf(spent, Class))
    BY DEF AccSound
  <2>2. CASE "total" \in shown
    <3>1. total = acc.total + SumOf(more, Class) /\ totals = acc.totals + 1
      BY <2>2
    <3> HIDE DEF total, totals
    <3> QED
      BY <1>1, <1>3, <1>4, <2>1, <3>1
  <2>3. CASE "total" \notin shown
    <3>1. total = acc.total + 0 /\ totals = acc.totals + 0
      BY <2>3
    <3> HIDE DEF total, totals
    <3> QED
      BY <1>1, <1>3, <1>4, <2>1, <3>1
  <2> QED
    BY <2>2, <2>3
<1> HIDE DEF sum, reported, total, totals
<1>9. g \in AccRow
  BY <1>1, <1>5, <1>7, <1>8 DEF AccRow
<1> QED
  BY <1>3, <1>5, <1>6, <1>8, <1>9 DEF AccSound, now, g

LEMMA CountFacts ==
  /\ Unknown \in TokenCount /\ ~Known(Unknown) /\ OrZero(Unknown) = 0
  /\ \A n \in Nat : n \in TokenCount /\ Known(n) /\ OrZero(n) = n
  /\ \A v \in TokenCount : OrZero(v) \in Nat /\ (Known(v) => v \in Nat /\ OrZero(v) = v)
  BY UsageAssumption DEF TokenCount, Known, OrZero

LEMMA FieldParts ==
  /\ Class \subseteq Field /\ {"input", "output", "total", "combined"} \subseteq Field
  /\ Field = Class \cup {"input", "output", "total", "combined"}
  /\ "input" \notin Class /\ "output" \notin Class /\ "total" \notin Class /\ "combined" \notin Class
  /\ InputClass \subseteq Class /\ OutputClass \subseteq Class
  BY DEF Field, Class, InputClass, OutputClass

LEMMA BlankIsHonest ==
  ASSUME NEW spent
  PROVE  Blank0 \in TokenRow /\ HonestCounts(Blank0, spent) /\ ~Known(Blank0["write"])
<1>1. Blank0 \in TokenRow /\ \A f \in Field : ~Known(Blank0[f])
  BY CountFacts DEF Blank0, TokenRow
<1> QED
  BY <1>1, FieldParts DEF HonestCounts, InputClass, OutputClass, Class

LEMMA SideTotals ==
  ASSUME NEW acc, NEW spent, AccSound(acc, spent), NEW S \in {InputClass, OutputClass}
  PROVE  SideTotal(acc, S) \in TokenCount /\ (Known(SideTotal(acc, S)) => SideTotal(acc, S) = SumOf(spent, S))
<1>1. acc.sum \in ClassCounts /\ spent \in ClassCounts
  BY DEF AccSound, AccRow
<1>2. CASE EveryStep(acc, S)
  <2>1. \A c \in S : acc.sum[c] = spent[c]
    BY <1>2, FieldParts DEF EveryStep, AccSound
  <2>2. SumOf(acc.sum, S) = SumOf(spent, S)
    BY <1>1, <2>1, SameSums
  <2>3. SumOf(spent, S) \in Nat
    BY <1>1, ClassSums
  <2> QED
    BY <1>2, <2>2, <2>3, CountFacts DEF SideTotal
<1>3. CASE ~EveryStep(acc, S)
  BY <1>3, CountFacts DEF SideTotal
<1> QED
  BY <1>2, <1>3

LEMMA OpencodeIsHonest ==
  ASSUME NEW acc, NEW spent, AccSound(acc, spent)
  PROVE  OpencodeTokens(acc) \in TokenRow /\ HonestCounts(OpencodeTokens(acc), spent)
<1> DEFINE t == OpencodeTokens(acc)
           input == SideTotal(acc, InputClass)
           output == SideTotal(acc, OutputClass)
           total == IF acc.steps > 0 /\ acc.totals = acc.steps THEN acc.total
                    ELSE IF Known(input) /\ Known(output) THEN input + output ELSE Unknown
           of(f) == CASE f \in Class -> IF acc.reported[f] > 0 THEN acc.sum[f] ELSE Unknown
                      [] f = "input" -> input [] f = "output" -> output
                      [] f = "total" -> total [] OTHER -> Unknown
<1>1. /\ acc.sum \in ClassCounts /\ acc.reported \in ClassCounts /\ acc.steps \in Nat
      /\ acc.total \in Nat /\ acc.totals \in Nat /\ spent \in ClassCounts
  BY DEF AccSound, AccRow
<1>2. t = [f \in Field |-> of(f)]
  BY DEF OpencodeTokens
<1>3. /\ input \in TokenCount /\ (Known(input) => input = SumOf(spent, InputClass))
      /\ output \in TokenCount /\ (Known(output) => output = SumOf(spent, OutputClass))
  BY SideTotals
<1>4. /\ SumOf(spent, InputClass) \in Nat /\ SumOf(spent, OutputClass) \in Nat
      /\ SumOf(spent, Class) = SumOf(spent, InputClass) + SumOf(spent, OutputClass)
      /\ SumOf(spent, Class) \in Nat
  BY <1>1, ClassSums
<1> HIDE DEF input, output
<1>5. total \in TokenCount /\ (Known(total) => total = SumOf(spent, Class))
  <2>1. CASE acc.steps > 0 /\ acc.totals = acc.steps
    <3>1. total = acc.total /\ acc.total = SumOf(spent, Class)
      BY <2>1 DEF AccSound
    <3> QED
      BY <1>4, <3>1, CountFacts
  <2>2. CASE ~(acc.steps > 0 /\ acc.totals = acc.steps) /\ Known(input) /\ Known(output)
    <3>1. total = input + output
      BY <2>2
    <3>2. input + output = SumOf(spent, Class)
      BY <1>3, <1>4, <2>2
    <3> QED
      BY <1>4, <3>1, <3>2, CountFacts
  <2>3. CASE ~(acc.steps > 0 /\ acc.totals = acc.steps) /\ ~(Known(input) /\ Known(output))
    BY <2>3, CountFacts
  <2> QED
    BY <2>1, <2>2, <2>3
<1>6. /\ \A c \in Class : of(c) = IF acc.reported[c] > 0 THEN acc.sum[c] ELSE Unknown
      /\ of("input") = input /\ of("output") = output /\ of("total") = total /\ of("combined") = Unknown
  BY FieldParts
<1> HIDE DEF total
<1>7. ASSUME NEW c \in Class
      PROVE  of(c) \in TokenCount /\ (Known(of(c)) => of(c) <= spent[c])
  <2>1. acc.sum[c] \in Nat /\ acc.sum[c] <= spent[c]
    BY <1>1 DEF AccSound, ClassCounts
  <2>2. of(c) = acc.sum[c] \/ of(c) = Unknown
    BY <1>6
  <2> HIDE DEF of
  <2> QED
    BY <2>1, <2>2, CountFacts
<1> HIDE DEF of
<1>8. \A f \in Field : of(f) \in TokenCount
  <2>1. \A f \in Field : f \in Class \/ f = "input" \/ f = "output" \/ f = "total" \/ f = "combined"
    BY FieldParts
  <2> QED
    BY <1>3, <1>5, <1>6, <1>7, <2>1, CountFacts
<1>9. t \in TokenRow /\ \A f \in Field : t[f] = of(f)
  <2> HIDE DEF t
  <2> QED
    BY <1>2, <1>8 DEF TokenRow
<1> HIDE DEF t
<1>10. \A c \in Class : t[c] = of(c)
  BY <1>9, FieldParts
<1>11. t["input"] = input /\ t["output"] = output /\ t["total"] = total
  BY <1>6, <1>9, FieldParts
<1>12. HonestCounts(t, spent)
  BY <1>3, <1>5, <1>7, <1>10, <1>11 DEF HonestCounts
<1> QED
  BY <1>9, <1>12 DEF t

LEMMA ShownIs ==
  ASSUME NEW spent, NEW shown, NEW f, NEW v \in Nat
  PROVE  Shown(spent, shown, f, v) \in TokenCount /\ (Known(Shown(spent, shown, f, v)) => Shown(spent, shown, f, v) = v)
<1>1. Shown(spent, shown, f, v) = v \/ Shown(spent, shown, f, v) = Unknown
  BY DEF Shown
<1> QED
  BY <1>1, CountFacts

LEMMA ApiIsHonest ==
  ASSUME NEW spent \in ClassCounts, spent["write"] = 0, NEW shown, NEW nested \in BOOLEAN
  PROVE  /\ ApiTokens(nested, spent, shown) \in TokenRow
         /\ HonestCounts(ApiTokens(nested, spent, shown), spent)
         /\ ~Known(ApiTokens(nested, spent, shown)["write"])
<1> DEFINE t == ApiTokens(nested, spent, shown)
           input == Shown(spent, shown, "input", SumOf(spent, InputClass))
           output == Shown(spent, shown, "output", SumOf(spent, OutputClass))
           read == Shown(spent, shown, "read", spent["read"])
           reasoning == IF nested THEN Unknown ELSE Shown(spent, shown, "reasoning", spent["reasoning"])
           total == Shown(spent, shown, "total", SumOf(spent, Class))
           uncached == IF ~nested THEN Shown(spent, shown, "uncached", spent["uncached"])
                       ELSE IF Known(input) /\ Known(read) THEN input - read ELSE Unknown
           visible == IF Known(output) /\ Known(reasoning) THEN output - reasoning ELSE Unknown
           of(f) == CASE f = "input" -> input [] f = "output" -> output [] f = "read" -> read
                      [] f = "total" -> total [] f = "uncached" -> uncached
                      [] f = "reasoning" -> reasoning [] f = "visible" -> visible [] OTHER -> Unknown
<1>1. t = [f \in Field |-> of(f)]
  BY DEF ApiTokens
<1>2. /\ of("input") = input /\ of("output") = output /\ of("read") = read /\ of("total") = total
      /\ of("uncached") = uncached /\ of("reasoning") = reasoning /\ of("visible") = visible
      /\ of("write") = Unknown /\ of("combined") = Unknown
  <2> HIDE DEF input, output, read, total, uncached, reasoning, visible
  <2> QED
    OBVIOUS
<1>3. /\ SumOf(spent, InputClass) \in Nat /\ SumOf(spent, OutputClass) \in Nat /\ SumOf(spent, Class) \in Nat
      /\ SumOf(spent, InputClass) = spent["uncached"] + spent["read"] + spent["write"]
      /\ SumOf(spent, OutputClass) = spent["visible"] + spent["reasoning"]
      /\ \A c \in Class : spent[c] \in Nat
  BY ClassSums
<1>4. /\ spent["uncached"] \in Nat /\ spent["read"] \in Nat /\ spent["visible"] \in Nat
      /\ spent["reasoning"] \in Nat
  BY <1>3 DEF Class, InputClass, OutputClass
<1>5. /\ input \in TokenCount /\ (Known(input) => input = SumOf(spent, InputClass))
      /\ output \in TokenCount /\ (Known(output) => output = SumOf(spent, OutputClass))
      /\ total \in TokenCount /\ (Known(total) => total = SumOf(spent, Class))
      /\ read \in TokenCount /\ (Known(read) => read = spent["read"])
  BY <1>3, <1>4, ShownIs
<1>6. reasoning \in TokenCount /\ (Known(reasoning) => reasoning = spent["reasoning"])
  BY <1>4, ShownIs, CountFacts
<1> HIDE DEF input, output, read, reasoning, total
<1>7. uncached \in TokenCount /\ (Known(uncached) => uncached = spent["uncached"])
  <2>1. CASE ~nested
    BY <1>4, <2>1, ShownIs
  <2>2. CASE nested /\ Known(input) /\ Known(read)
    <3>1. uncached = input - read
      BY <2>2
    <3>2. input - read = spent["uncached"]
      BY <1>3, <1>4, <1>5, <2>2
    <3> HIDE DEF uncached
    <3> QED
      BY <1>4, <3>1, <3>2, CountFacts
  <2>3. CASE nested /\ ~(Known(input) /\ Known(read))
    <3>1. uncached = Unknown
      BY <2>3
    <3> QED
      BY <3>1, CountFacts
  <2> QED
    BY <2>1, <2>2, <2>3
<1>8. visible \in TokenCount /\ (Known(visible) => visible = spent["visible"])
  <2>1. CASE Known(output) /\ Known(reasoning)
    <3>1. visible = output - reasoning
      BY <2>1
    <3>2. output - reasoning = spent["visible"]
      BY <1>3, <1>4, <1>5, <1>6, <2>1
    <3> HIDE DEF visible
    <3> QED
      BY <1>4, <3>1, <3>2, CountFacts
  <2>2. CASE ~(Known(output) /\ Known(reasoning))
    <3>1. visible = Unknown
      BY <2>2
    <3> QED
      BY <3>1, CountFacts
  <2> QED
    BY <2>1, <2>2
<1> HIDE DEF uncached, visible, of
<1>9. \A f \in Field : of(f) \in TokenCount
  <2>1. Field = {"input", "output", "read", "total", "uncached", "reasoning", "visible", "write", "combined"}
    BY DEF Field, Class, InputClass, OutputClass
  <2> QED
    BY <1>2, <1>5, <1>6, <1>7, <1>8, <2>1, CountFacts
<1>10. t \in TokenRow /\ \A f \in Field : t[f] = of(f)
  <2> HIDE DEF t
  <2> QED
    BY <1>1, <1>9 DEF TokenRow
<1> HIDE DEF t
<1>11. /\ t["input"] = input /\ t["output"] = output /\ t["read"] = read /\ t["total"] = total
       /\ t["uncached"] = uncached /\ t["reasoning"] = reasoning /\ t["visible"] = visible
       /\ t["write"] = Unknown
  BY <1>2, <1>10 DEF Field, Class, InputClass, OutputClass
<1>12. ~Known(t["write"])
  BY <1>11, CountFacts
<1>13. ASSUME NEW c \in Class, Known(t[c])  PROVE t[c] <= spent[c]
  <2>1. c \in {"uncached", "read", "write", "visible", "reasoning"}
    BY DEF Class, InputClass, OutputClass
  <2>2. c # "write"
    BY <1>12, <1>13
  <2>3. t[c] = spent[c]
    BY <1>5, <1>6, <1>7, <1>8, <1>11, <1>13, <2>1, <2>2
  <2>4. spent[c] \in Nat
    BY <1>3
  <2> QED
    BY <2>3, <2>4
<1>14. HonestCounts(t, spent)
  BY <1>5, <1>11, <1>13 DEF HonestCounts
<1> QED
  BY <1>10, <1>12, <1>14 DEF t

LEMMA CrushIsHonest ==
  ASSUME NEW spent \in ClassCounts, NEW shown
  PROVE  /\ CrushTokens(spent, shown) \in TokenRow
         /\ HonestCounts(CrushTokens(spent, shown), spent)
         /\ ~Known(CrushTokens(spent, shown)["write"])
<1> DEFINE t == CrushTokens(spent, shown)
<1>1. SumOf(spent, Class) \in Nat
  BY ClassSums
<1>2. \A f \in Field : t[f] = Unknown \/ (f \in {"combined", "total"} /\ t[f] = SumOf(spent, Class))
  BY DEF CrushTokens
<1>3. t \in TokenRow
  <2>1. t = [f \in Field |-> t[f]]
    BY DEF CrushTokens
  <2>2. \A f \in Field : t[f] \in TokenCount
    BY <1>1, <1>2, CountFacts
  <2> HIDE DEF t
  <2> QED
    BY <2>1, <2>2 DEF TokenRow
<1> HIDE DEF t
<1>4. \A f \in Class \cup {"input", "output"} : ~Known(t[f])
  BY <1>2, FieldParts, CountFacts
<1>5. Known(t["total"]) => t["total"] = SumOf(spent, Class)
  BY <1>2, FieldParts, CountFacts
<1>6. "write" \in Class
  BY DEF Class, InputClass
<1> QED
  BY <1>3, <1>4, <1>5, <1>6 DEF HonestCounts, t

CostFrom == {"engine", "plan", "free", "estimated", "unknown"}
CostRow == [total : TokenCount, from : CostFrom]
HonestRecord(r) == WholeCost(r) /\ HonestCounts(r.tokens, r.spent)

LEMMA EstimateIsHonest ==
  ASSUME NEW source, NEW plan, NEW t \in TokenRow, NEW spent \in ClassCounts, HonestCounts(t, spent),
         NEW charge \in TokenCount, Known(charge) => charge = SumOf(spent, Class),
         source # "opencode" => ~Known(t["write"])
  PROVE  /\ Estimate(source, plan, t, charge) \in CostRow
         /\ Known(Estimate(source, plan, t, charge).total)
              => Estimate(source, plan, t, charge).total = Due(spent, Estimate(source, plan, t, charge).from)
<1> DEFINE e == Estimate(source, plan, t, charge)
           full == SumKnown(t, InputClass) + t["output"]
           Right == e \in CostRow /\ (Known(e.total) => e.total = Due(spent, e.from))
<1> SUFFICES Right
  OBVIOUS
<1>1. /\ SumOf(spent, Class) \in Nat /\ SumOf(spent, Class) = SumOf(spent, InputClass) + SumOf(spent, OutputClass)
  BY ClassSums
<1>2. CASE source = "crush" /\ Known(charge)
  <2>1. e = [total |-> charge, from |-> "engine"]
    BY <1>2 DEF Estimate
  <2>2. e \in CostRow /\ e.total = charge /\ e.from = "engine"
    BY <2>1 DEF CostRow, CostFrom
  <2> QED
    BY <1>2, <2>2 DEF Due
<1>3. CASE ~(source = "crush" /\ Known(charge)) /\ plan = "subscription"
  <2>1. e = [total |-> 0, from |-> "plan"]
    BY <1>3 DEF Estimate
  <2>2. 0 \in TokenCount
    BY CountFacts
  <2>3. e \in CostRow /\ e.total = 0 /\ e.from = "plan"
    BY <2>1, <2>2 DEF CostRow, CostFrom
  <2> QED
    BY <2>3 DEF Due
<1>4. CASE ~(source = "crush" /\ Known(charge)) /\ plan = "free"
  <2>1. e = [total |-> 0, from |-> "free"]
    BY <1>4 DEF Estimate
  <2>2. 0 \in TokenCount
    BY CountFacts
  <2>3. e \in CostRow /\ e.total = 0 /\ e.from = "free"
    BY <2>1, <2>2 DEF CostRow, CostFrom
  <2> QED
    BY <2>3 DEF Due
<1> DEFINE Priced == plan # "unpriced" /\ Covered(source, plan, t)
<1>5. CASE ~(source = "crush" /\ Known(charge)) /\ plan # "subscription" /\ plan # "free" /\ Priced
  <2>1. e = [total |-> full, from |-> "estimated"]
    BY <1>5 DEF Estimate
  <2>2. InputCovered(source, t) /\ Known(t["output"])
    BY <1>5 DEF Covered
  <2>3. Known(t["input"]) /\ SumKnown(t, InputClass) = t["input"]
    BY <2>2 DEF InputCovered, InputClass
  <2>4. full = SumOf(spent, Class)
    BY <1>1, <2>2, <2>3 DEF HonestCounts
  <2>5. full \in TokenCount
    BY <1>1, <2>4, CountFacts
  <2> HIDE DEF full
  <2>6. e \in CostRow /\ e.total = full /\ e.from = "estimated"
    BY <2>1, <2>5 DEF CostRow, CostFrom
  <2> QED
    BY <2>4, <2>6 DEF Due
<1>6. CASE ~(source = "crush" /\ Known(charge)) /\ plan # "subscription" /\ plan # "free" /\ ~Priced
  <2>1. e = [total |-> Unknown, from |-> "unknown"]
    BY <1>6 DEF Estimate
  <2>2. e \in CostRow /\ e.total = Unknown
    BY <2>1, CountFacts DEF CostRow, CostFrom
  <2> QED
    BY <2>2, CountFacts
<1> HIDE DEF e, Right, Priced
<1> QED
  BY <1>2, <1>3, <1>4, <1>5, <1>6

LEMMA FlatIsHonest ==
  ASSUME NEW plan \in Plan, NEW spent \in ClassCounts
  PROVE  FlatRecord(plan, spent) \in UsageRecord /\ HonestRecord(FlatRecord(plan, spent))
<1> DEFINE t == [Blank0 EXCEPT !["input"] = SumOf(spent, InputClass), !["read"] = spent["read"],
                               !["output"] = SumOf(spent, OutputClass), !["total"] = SumOf(spent, Class)]
           cost == IF plan = "subscription" THEN [total |-> 0, from |-> "plan"]
                   ELSE [total |-> Unknown, from |-> "unknown"]
           r == FlatRecord(plan, spent)
<1>1. /\ SumOf(spent, InputClass) \in Nat /\ SumOf(spent, OutputClass) \in Nat /\ SumOf(spent, Class) \in Nat
      /\ spent["read"] \in Nat
  <2>1. "read" \in Class
    BY DEF Class, InputClass
  <2> QED
    BY <2>1, ClassSums
<1>2. Blank0 \in TokenRow /\ \A f \in Field : ~Known(Blank0[f])
  BY CountFacts DEF Blank0, TokenRow
<1>3. "input" \in Field /\ "read" \in Field /\ "output" \in Field /\ "total" \in Field
  BY DEF Field, Class, InputClass
<1>4. /\ t["input"] = SumOf(spent, InputClass) /\ t["read"] = spent["read"]
      /\ t["output"] = SumOf(spent, OutputClass) /\ t["total"] = SumOf(spent, Class)
      /\ \A f \in Field \ {"input", "read", "output", "total"} : t[f] = Blank0[f]
  BY <1>2, <1>3 DEF TokenRow
<1>5. t \in TokenRow
  BY <1>1, <1>2, <1>3, CountFacts DEF TokenRow
<1>6. r = [id |-> 0, version |-> 1, plan |-> plan, spent |-> spent, tokens |-> t, cost |-> cost]
  BY DEF FlatRecord
<1> HIDE DEF t
<1>7. cost \in CostRow /\ (Known(cost.total) => cost.total = 0 /\ cost.from = "plan")
  <2>1. 0 \in TokenCount /\ Unknown \in TokenCount /\ ~Known(Unknown)
    BY CountFacts
  <2>2. CASE plan = "subscription"
    BY <2>1, <2>2 DEF CostRow, CostFrom
  <2>3. CASE plan # "subscription"
    BY <2>1, <2>3 DEF CostRow, CostFrom
  <2> QED
    BY <2>2, <2>3
<1>8. \A c \in Class : Known(t[c]) => t[c] <= spent[c]
  <2> SUFFICES ASSUME NEW c \in Class, Known(t[c])  PROVE t[c] <= spent[c]
    OBVIOUS
  <2>1. c = "read" \/ c \in Field \ {"input", "read", "output", "total"}
    BY FieldParts
  <2>2. c = "read"
    BY <1>2, <1>4, <2>1
  <2> QED
    BY <1>1, <1>4, <2>2
<1>9. HonestCounts(t, spent)
  BY <1>4, <1>8 DEF HonestCounts
<1> HIDE DEF cost, r
<1>10. r.spent = spent /\ r.tokens = t /\ r.cost = cost
  BY <1>6
<1>11. WholeCost(r)
  BY <1>7, <1>10 DEF WholeCost, Due
<1>12. r \in UsageRecord
  BY <1>5, <1>6, <1>7 DEF UsageRecord, TokenRow, ClassCounts, CostRow, CostFrom
<1> QED
  BY <1>9, <1>10, <1>11, <1>12 DEF HonestRecord, r

-----------------------------------------------------------------------------
(* The usage log: what a call says and what the logs hold is honest        *)

CallRow ==
  [at : CallPlace, source : Source, spent : ClassCounts, acc : AccRow, tokens : TokenRow, charge : TokenCount,
   record : UsageRecord \cup {Unknown}, stale : BOOLEAN]

CallSound(c) ==
  /\ c.at \in {"idle", "steps"} => AccSound(c.acc, c.spent)
  /\ c.at = "steps" => c.source = "opencode"
  /\ c.at = "answer" => c.source # "opencode"
  /\ c.at \in {"idle", "steps", "answer"} => c.tokens = Blank0 /\ c.charge = Unknown
  /\ c.at = "log" => /\ HonestCounts(c.tokens, c.spent)
                     /\ (Known(c.charge) => c.charge = SumOf(c.spent, Class))
                     /\ (c.source # "opencode" => ~Known(c.tokens["write"]))
  /\ c.at \in {"rotate", "append"} => c.record \in UsageRecord /\ HonestRecord(c.record)

HonestLog(log) == \A n \in DOMAIN log : HonestRecord(log[n])
CountsIInv ==
  /\ call \in [Caller -> CallRow] /\ \A k \in Caller : CallSound(call[k])
  /\ crossed \in BOOLEAN
  /\ appended \in Seq(UsageRecord) /\ HonestLog(appended)
  /\ active = NoLog \/ (active \in Seq(UsageRecord) /\ HonestLog(active))
  /\ archive = NoLog \/ archive \in Seq(UsageRecord)

LEMMA CallParts ==
  ASSUME NEW c \in CallRow
  PROVE  /\ c.at \in CallPlace /\ c.source \in Source /\ c.spent \in ClassCounts /\ c.acc \in AccRow
         /\ c.tokens \in TokenRow /\ c.charge \in TokenCount /\ c.record \in UsageRecord \cup {Unknown}
         /\ c.stale \in BOOLEAN
         /\ DOMAIN c = {"at", "source", "spent", "acc", "tokens", "charge", "record", "stale"}
  BY DEF CallRow

LEMMA RecordIsHonest ==
  ASSUME NEW c \in CallRow, c.at = "log", CallSound(c), NEW plan \in Plan
  PROVE  RecordOf(c, plan) \in UsageRecord /\ HonestRecord(RecordOf(c, plan))
<1> DEFINE cost == Estimate(c.source, plan, c.tokens, c.charge)
           r == [id |-> 0, version |-> 2, plan |-> plan, spent |-> c.spent, tokens |-> c.tokens, cost |-> cost]
<1>1. c.spent \in ClassCounts /\ c.tokens \in TokenRow /\ c.charge \in TokenCount
  BY CallParts
<1>2. CASE c.source = "flat"
  BY <1>1, <1>2, FlatIsHonest DEF RecordOf
<1>3. CASE c.source # "flat"
  <2>1. RecordOf(c, plan) = r
    BY <1>3 DEF RecordOf
  <2>2. /\ HonestCounts(c.tokens, c.spent) /\ (Known(c.charge) => c.charge = SumOf(c.spent, Class))
        /\ (c.source # "opencode" => ~Known(c.tokens["write"]))
    BY DEF CallSound
  <2>3. cost \in CostRow /\ (Known(cost.total) => cost.total = Due(c.spent, cost.from))
    BY <1>1, <2>2, EstimateIsHonest
  <2> HIDE DEF cost
  <2>4. r \in UsageRecord
    BY <1>1, <2>3 DEF UsageRecord, TokenRow, ClassCounts, CostRow, CostFrom
  <2>5. r.spent = c.spent /\ r.tokens = c.tokens /\ r.cost = cost
    OBVIOUS
  <2> HIDE DEF r
  <2>6. HonestRecord(r)
    BY <2>2, <2>3, <2>5 DEF HonestRecord, WholeCost
  <2> QED
    BY <2>1, <2>4, <2>6
<1> QED
  BY <1>2, <1>3

LEMMA NoCallSound == NoCall \in CallRow /\ CallSound(NoCall) /\ NoCall.at = "idle"
<1>1. NoSpending \in ClassCounts /\ \A c \in Class : NoSpending[c] = 0
  BY DEF NoSpending, ClassCounts
<1>2. EmptyFold \in AccRow
  BY DEF EmptyFold, AccRow, ClassCounts
<1>3. SumOf(NoSpending, Class) = 0
  <2>1. /\ NoSpending["uncached"] = 0 /\ NoSpending["read"] = 0 /\ NoSpending["write"] = 0
        /\ NoSpending["visible"] = 0 /\ NoSpending["reasoning"] = 0
    BY <1>1 DEF Class, InputClass, OutputClass
  <2> QED
    BY <1>1, <2>1, ClassSums
<1>4. /\ \A c \in Class : EmptyFold.sum[c] = 0 /\ EmptyFold.reported[c] = 0
      /\ EmptyFold.steps = 0 /\ EmptyFold.total = 0 /\ EmptyFold.totals = 0
  BY DEF EmptyFold
<1>5. AccSound(EmptyFold, NoSpending)
  BY <1>1, <1>2, <1>3, <1>4 DEF AccSound
<1>6. Blank0 \in TokenRow /\ Unknown \in TokenCount
  BY BlankIsHonest, CountFacts
<1>7. /\ NoCall.at = "idle" /\ NoCall.acc = EmptyFold /\ NoCall.spent = NoSpending
      /\ NoCall.tokens = Blank0 /\ NoCall.charge = Unknown
  BY DEF NoCall
<1>8. NoCall \in CallRow
  BY <1>1, <1>2, <1>6 DEF NoCall, CallRow, CallPlace, Source
<1> QED
  BY <1>5, <1>7, <1>8 DEF CallSound

\* A step of one call that leaves the log alone.
LEMMA CallCounts ==
  ASSUME CountsIInv, LogStays, NEW k \in Caller, NEW row \in CallRow, call' = [call EXCEPT ![k] = row], CallSound(row)
  PROVE  CountsIInv'
<1>1. call \in [Caller -> CallRow] /\ \A j \in Caller : CallSound(call[j])
  BY DEF CountsIInv
<1>2. call' \in [Caller -> CallRow] /\ call'[k] = row /\ \A j \in Caller \ {k} : call'[j] = call[j]
  BY <1>1
<1>3. \A j \in Caller : CallSound(call'[j])
  BY <1>1, <1>2
<1>4. active' = active /\ archive' = archive /\ appended' = appended /\ crossed' = crossed
  BY DEF LogStays
<1>5. \A j \in Caller : CallSound(call[j])'
  BY <1>3 DEF CallSound, AccSound, HonestCounts, HonestRecord, WholeCost
<1> QED
  BY <1>2, <1>4, <1>5 DEF CountsIInv, HonestLog

LEMMA SoundCall ==
  ASSUME CountsIInv, NEW k \in Caller
  PROVE  call[k] \in CallRow /\ CallSound(call[k])
  BY DEF CountsIInv

LEMMA SpendingCounts == ASSUME NEW spent \in Spending PROVE spent \in ClassCounts
  BY UsageAssumption DEF ClassCounts

LEMMA StartCounts == ASSUME CountsIInv, NEW k \in Caller, StartCall(k) PROVE CountsIInv'
<1> DEFINE c == call[k]
<1>1. c \in CallRow /\ CallSound(c) /\ c.at = "idle" /\ LogStays
  BY SoundCall DEF StartCall, CallAt
<1>2. PICK source \in Source :
        call' = [call EXCEPT ![k].at = IF source = "opencode" THEN "steps" ELSE "answer", ![k].source = source]
  BY DEF StartCall
<1> DEFINE at == IF source = "opencode" THEN "steps" ELSE "answer"
           row == [c EXCEPT !.at = at, !.source = source]
<1>3. call' = [call EXCEPT ![k] = row]
  BY <1>2
<1> HIDE DEF c
<1>4. row \in CallRow
  BY <1>1 DEF CallRow, CallPlace
<1>5. /\ row.at = at /\ row.source = source /\ row.acc = c.acc /\ row.spent = c.spent
      /\ row.tokens = c.tokens /\ row.charge = c.charge
  BY <1>1 DEF CallRow
<1>6. AccSound(c.acc, c.spent) /\ c.tokens = Blank0 /\ c.charge = Unknown
  BY <1>1 DEF CallSound
<1> HIDE DEF row
<1>7. CallSound(row)
  BY <1>5, <1>6 DEF CallSound
<1> QED
  BY <1>1, <1>3, <1>4, <1>7, CallCounts

LEMMA FoldCounts == ASSUME CountsIInv, NEW k \in Caller, FoldStep(k) PROVE CountsIInv'
<1> DEFINE c == call[k]
<1>1. c \in CallRow /\ CallSound(c) /\ c.at = "steps" /\ LogStays
  BY SoundCall DEF FoldStep, CallAt
<1>2. PICK spent \in Spending, shown \in Showings :
        call' = [call EXCEPT ![k].spent = Plus(@, spent), ![k].acc = Folded(@, spent, shown)]
  BY DEF FoldStep
<1> DEFINE sum == Plus(c.spent, spent)
           acc == Folded(c.acc, spent, shown)
           row == [c EXCEPT !.spent = sum, !.acc = acc]
<1>3. call' = [call EXCEPT ![k] = row]
  BY <1>2
<1>4. AccSound(c.acc, c.spent) /\ c.tokens = Blank0 /\ c.charge = Unknown /\ c.source = "opencode"
  BY <1>1 DEF CallSound
<1> HIDE DEF c
<1>5. AccSound(acc, sum)
  BY <1>4, SpendingCounts, FoldSound
<1> HIDE DEF acc, sum
<1>6. acc \in AccRow /\ sum \in ClassCounts
  BY <1>5 DEF AccSound
<1>7. row \in CallRow
  BY <1>1, <1>6 DEF CallRow
<1>8. /\ row.at = "steps" /\ row.source = c.source /\ row.acc = acc /\ row.spent = sum
      /\ row.tokens = c.tokens /\ row.charge = c.charge
  BY <1>1 DEF CallRow
<1> HIDE DEF row
<1>9. CallSound(row)
  BY <1>4, <1>5, <1>8 DEF CallSound
<1> QED
  BY <1>1, <1>3, <1>7, <1>9, CallCounts

LEMMA FinishCounts == ASSUME CountsIInv, NEW k \in Caller, FinishSteps(k) PROVE CountsIInv'
<1> DEFINE c == call[k]
<1>1. c \in CallRow /\ CallSound(c) /\ c.at = "steps" /\ LogStays
  BY SoundCall DEF FinishSteps, CallAt
<1> DEFINE tokens == OpencodeTokens(c.acc)
           row == [c EXCEPT !.at = "log", !.tokens = tokens]
<1>2. call' = [call EXCEPT ![k] = row]
  BY DEF FinishSteps
<1>3. AccSound(c.acc, c.spent) /\ c.charge = Unknown /\ c.source = "opencode"
  BY <1>1 DEF CallSound
<1> HIDE DEF c
<1>4. tokens \in TokenRow /\ HonestCounts(tokens, c.spent)
  BY <1>3, OpencodeIsHonest
<1> HIDE DEF tokens
<1>5. row \in CallRow
  BY <1>1, <1>4 DEF CallRow, CallPlace
<1>6. row.at = "log" /\ row.source = c.source /\ row.spent = c.spent /\ row.tokens = tokens /\ row.charge = c.charge
  BY <1>1 DEF CallRow
<1> HIDE DEF row
<1>7. CallSound(row)
  BY <1>3, <1>4, <1>6, CountFacts DEF CallSound
<1> QED
  BY <1>1, <1>2, <1>5, <1>7, CallCounts

\* An answer in one piece.
LEMMA Answered ==
  ASSUME CountsIInv, LogStays, NEW k \in Caller, CallAt(k, "answer"),
         NEW spent \in ClassCounts, NEW tokens \in TokenRow, NEW charge \in TokenCount,
         HonestCounts(tokens, spent), ~Known(tokens["write"]), Known(charge) => charge = SumOf(spent, Class),
         call' = [call EXCEPT ![k] = [call[k] EXCEPT !.at = "log", !.spent = spent, !.tokens = tokens, !.charge = charge]]
  PROVE  CountsIInv'
<1> DEFINE c == call[k]
           row == [c EXCEPT !.at = "log", !.spent = spent, !.tokens = tokens, !.charge = charge]
<1>1. c \in CallRow
  BY SoundCall
<1>2. call' = [call EXCEPT ![k] = row]
  OBVIOUS
<1> HIDE DEF c
<1>3. row \in CallRow
  BY <1>1 DEF CallRow, CallPlace
<1>4. row.at = "log" /\ row.spent = spent /\ row.tokens = tokens /\ row.charge = charge
  BY <1>1 DEF CallRow
<1> HIDE DEF row
<1>5. CallSound(row)
  BY <1>4 DEF CallSound
<1> QED
  BY <1>2, <1>3, <1>5, CallCounts

\* Until there is an answer there are no counts, and no charge.
LEMMA StillBlank ==
  ASSUME CountsIInv, NEW k \in Caller, CallAt(k, "answer")
  PROVE  /\ call[k].tokens = Blank0 /\ call[k].charge = Unknown /\ call[k] \in CallRow
         /\ [call[k] EXCEPT !.charge = Unknown] = call[k]
         /\ [call[k] EXCEPT !.tokens = Blank0, !.charge = Unknown] = call[k]
<1>1. call[k].tokens = Blank0 /\ call[k].charge = Unknown /\ call[k] \in CallRow
  BY SoundCall DEF CallAt, CallSound
<1> QED
  BY <1>1 DEF CallRow

LEMMA ApiCounts == ASSUME CountsIInv, NEW k \in Caller, ApiAnswer(k) PROVE CountsIInv'
<1>1. CallAt(k, "answer") /\ LogStays
  BY DEF ApiAnswer
<1>2. PICK spent \in Spending, shown \in Showings, nested \in BOOLEAN :
        /\ spent["write"] = 0
        /\ call' = [call EXCEPT ![k].at = "log", ![k].spent = spent, ![k].tokens = ApiTokens(nested, spent, shown)]
  BY DEF ApiAnswer
<1> DEFINE tokens == ApiTokens(nested, spent, shown)
           c == call[k]
<1>3. spent \in ClassCounts
  BY SpendingCounts
<1>4. tokens \in TokenRow /\ HonestCounts(tokens, spent) /\ ~Known(tokens["write"])
  BY <1>2, <1>3, ApiIsHonest
<1>5. call' = [call EXCEPT ![k] = [c EXCEPT !.at = "log", !.spent = spent, !.tokens = tokens]]
  BY <1>2
<1> HIDE DEF tokens
<1>6. [c EXCEPT !.at = "log", !.spent = spent, !.tokens = tokens]
        = [c EXCEPT !.at = "log", !.spent = spent, !.tokens = tokens, !.charge = Unknown]
  <2>1. c \in CallRow /\ c.charge = Unknown
    BY <1>1, StillBlank
  <2> HIDE DEF c
  <2> QED
    BY <2>1 DEF CallRow
<1>7. Unknown \in TokenCount /\ ~Known(Unknown)
  BY CountFacts
<1> QED
  BY <1>1, <1>3, <1>4, <1>5, <1>6, <1>7, Answered

LEMMA CrushCounts == ASSUME CountsIInv, NEW k \in Caller, AnswerCrush(k) PROVE CountsIInv'
<1>1. CallAt(k, "answer") /\ LogStays
  BY DEF AnswerCrush
<1>2. PICK spent \in Spending, shown \in Showings, charged \in BOOLEAN :
        call' = [call EXCEPT ![k].at = "log", ![k].spent = spent, ![k].tokens = CrushTokens(spent, shown),
                             ![k].charge = IF charged THEN SumOf(spent, Class) ELSE Unknown]
  BY DEF AnswerCrush
<1> DEFINE tokens == CrushTokens(spent, shown)
           charge == IF charged THEN SumOf(spent, Class) ELSE Unknown
           c == call[k]
<1>3. spent \in ClassCounts
  BY SpendingCounts
<1>4. tokens \in TokenRow /\ HonestCounts(tokens, spent) /\ ~Known(tokens["write"])
  BY <1>3, CrushIsHonest
<1>5. charge \in TokenCount /\ (Known(charge) => charge = SumOf(spent, Class))
  <2>1. SumOf(spent, Class) \in Nat
    BY <1>3, ClassSums
  <2> QED
    BY <2>1, CountFacts
<1>6. call' = [call EXCEPT ![k] = [c EXCEPT !.at = "log", !.spent = spent, !.tokens = tokens, !.charge = charge]]
  BY <1>2
<1> HIDE DEF tokens, charge
<1> QED
  BY <1>1, <1>3, <1>4, <1>5, <1>6, Answered

LEMMA FlatCounts == ASSUME CountsIInv, NEW k \in Caller, AnswerFlat(k) PROVE CountsIInv'
<1>1. CallAt(k, "answer") /\ LogStays
  BY DEF AnswerFlat
<1>2. PICK spent \in Spending : call' = [call EXCEPT ![k].at = "log", ![k].spent = spent]
  BY DEF AnswerFlat
<1> DEFINE c == call[k]
<1>3. spent \in ClassCounts
  BY SpendingCounts
<1>4. Blank0 \in TokenRow /\ HonestCounts(Blank0, spent) /\ ~Known(Blank0["write"])
  BY BlankIsHonest
<1>5. call' = [call EXCEPT ![k] = [c EXCEPT !.at = "log", !.spent = spent]]
  BY <1>2
<1>6. [c EXCEPT !.at = "log", !.spent = spent]
        = [c EXCEPT !.at = "log", !.spent = spent, !.tokens = Blank0, !.charge = Unknown]
  <2>1. c \in CallRow /\ c.charge = Unknown /\ c.tokens = Blank0
    BY <1>1, StillBlank
  <2> HIDE DEF c
  <2> QED
    BY <2>1 DEF CallRow
<1>7. Unknown \in TokenCount /\ ~Known(Unknown)
  BY CountFacts
<1> QED
  BY <1>1, <1>3, <1>4, <1>5, <1>6, <1>7, Answered

LEMMA StatCounts == ASSUME CountsIInv, NEW k \in Caller, StatLog(k) PROVE CountsIInv'
<1> DEFINE c == call[k]
<1>1. c \in CallRow /\ CallSound(c) /\ c.at = "log" /\ LogStays
  BY SoundCall DEF StatLog, CallAt
<1>2. PICK plan \in Plan :
        call' = [call EXCEPT ![k] = [NoCall EXCEPT
                   !.source = call[k].source, !.record = RecordOf(call[k], plan),
                   !.at = IF active # NoLog /\ Len(active) >= Cap THEN "rotate" ELSE "append"]]
  BY DEF StatLog
<1> DEFINE at == IF active # NoLog /\ Len(active) >= Cap THEN "rotate" ELSE "append"
           source == c.source
           record == RecordOf(c, plan)
           row == [NoCall EXCEPT !.source = source, !.record = record, !.at = at]
<1>3. call' = [call EXCEPT ![k] = row]
  BY <1>2
<1> HIDE DEF c
<1>4. record \in UsageRecord /\ HonestRecord(record) /\ source \in Source
  BY <1>1, RecordIsHonest, CallParts
<1>5. at \in {"rotate", "append"}
  OBVIOUS
<1> HIDE DEF record, at, source
<1>6. row \in CallRow
  BY <1>4, <1>5, NoCallSound DEF CallRow, CallPlace
<1>7. row.at = at /\ row.record = record
  BY NoCallSound DEF CallRow
<1> HIDE DEF row
<1>8. CallSound(row)
  BY <1>4, <1>5, <1>7 DEF CallSound
<1> QED
  BY <1>1, <1>3, <1>6, <1>8, CallCounts

LEMMA SkipCounts == ASSUME CountsIInv, NEW k \in Caller, SkipLog(k) PROVE CountsIInv'
  BY NoCallSound, CallCounts DEF SkipLog

\* A call that is marked, or goes from the rotation to the append, is what it was.
LEMMA MarkedCall ==
  ASSUME NEW c \in CallRow, CallSound(c), NEW mark \in BOOLEAN
  PROVE  [c EXCEPT !.stale = mark] \in CallRow /\ CallSound([c EXCEPT !.stale = mark])
<1> DEFINE row == [c EXCEPT !.stale = mark]
<1>1. row \in CallRow
  BY DEF CallRow
<1>2. /\ row.at = c.at /\ row.source = c.source /\ row.acc = c.acc /\ row.spent = c.spent
      /\ row.tokens = c.tokens /\ row.charge = c.charge /\ row.record = c.record
  BY DEF CallRow
<1> HIDE DEF row
<1>3. CallSound(row)
  BY <1>2 DEF CallSound
<1> QED
  BY <1>1, <1>3 DEF row

LEMMA GoesToAppend ==
  ASSUME NEW c \in CallRow, CallSound(c), c.at = "rotate"
  PROVE  [c EXCEPT !.at = "append"] \in CallRow /\ CallSound([c EXCEPT !.at = "append"])
<1> DEFINE row == [c EXCEPT !.at = "append"]
<1>1. row \in CallRow
  BY DEF CallRow, CallPlace
<1>2. row.at = "append" /\ row.record = c.record
  BY DEF CallRow
<1>3. c.record \in UsageRecord /\ HonestRecord(c.record)
  BY DEF CallSound
<1> HIDE DEF row
<1>4. CallSound(row)
  BY <1>2, <1>3 DEF CallSound
<1> QED
  BY <1>1, <1>4 DEF row

LEMMA RotateCounts == ASSUME CountsIInv, NEW k \in Caller, RotateLog(k) PROVE CountsIInv'
<1> DEFINE c == call[k]
           row == [c EXCEPT !.at = "append"]
<1>1. c \in CallRow /\ CallSound(c) /\ c.at = "rotate"
  BY SoundCall DEF RotateLog, CallAt
<1>2. row \in CallRow /\ CallSound(row)
  BY <1>1, GoesToAppend
<1>3. CASE active = NoLog
  <2>1. LogStays /\ call' = [call EXCEPT ![k] = row]
    BY <1>3 DEF RotateLog, CallGoes
  <2> HIDE DEF row
  <2> QED
    BY <1>2, <2>1, CallCounts
<1>4. CASE active # NoLog
  <2>1. /\ archive' = active /\ active' = NoLog /\ appended' = appended /\ crossed' = (crossed \/ c.stale)
        /\ call' = [j \in Caller |-> IF j = k THEN row
                                     ELSE [call[j] EXCEPT !.stale = @ \/ call[j].at = "rotate"]]
    BY <1>4 DEF RotateLog
  <2> DEFINE mark(j) == call[j].stale \/ call[j].at = "rotate"
             row2(j) == [call[j] EXCEPT !.stale = mark(j)]
  <2>2. ASSUME NEW j \in Caller, j # k  PROVE row2(j) \in CallRow /\ CallSound(row2(j))
    <3>1. call[j] \in CallRow /\ CallSound(call[j])
      BY SoundCall
    <3>2. mark(j) \in BOOLEAN
      OBVIOUS
    <3> HIDE DEF mark
    <3> QED
      BY <3>1, <3>2, MarkedCall
  <2>3. call' = [j \in Caller |-> IF j = k THEN row ELSE row2(j)]
    BY <2>1
  <2> HIDE DEF row, row2
  <2>4. call' \in [Caller -> CallRow] /\ \A j \in Caller : CallSound(call'[j])
    BY <1>2, <2>2, <2>3
  <2>5. \A j \in Caller : CallSound(call[j])'
    BY <2>4 DEF CallSound, AccSound, HonestCounts, HonestRecord, WholeCost
  <2>6. crossed' \in BOOLEAN
    BY <2>1
  <2>7. active \in Seq(UsageRecord) /\ appended \in Seq(UsageRecord) /\ HonestLog(appended)
    BY <1>4 DEF CountsIInv
  <2>8. HonestLog(appended')
    BY <2>1, <2>7
  <2> QED
    BY <2>1, <2>4, <2>5, <2>6, <2>7, <2>8 DEF CountsIInv, HonestLog
<1> QED
  BY <1>3, <1>4

LEMMA Numbered ==
  ASSUME NEW r \in UsageRecord, HonestRecord(r), NEW n \in Nat
  PROVE  [r EXCEPT !.id = n] \in UsageRecord /\ HonestRecord([r EXCEPT !.id = n])
<1> DEFINE line == [r EXCEPT !.id = n]
<1>1. line \in UsageRecord
  BY DEF UsageRecord
<1>2. line.spent = r.spent /\ line.tokens = r.tokens /\ line.cost = r.cost
  BY DEF UsageRecord
<1> HIDE DEF line
<1>3. HonestRecord(line)
  BY <1>2 DEF HonestRecord, WholeCost
<1> QED
  BY <1>1, <1>3 DEF line

LEMMA OneMoreRecord ==
  ASSUME NEW log \in Seq(UsageRecord), HonestLog(log), NEW line \in UsageRecord, HonestRecord(line)
  PROVE  Append(log, line) \in Seq(UsageRecord) /\ HonestLog(Append(log, line))
<1> DEFINE more == Append(log, line)
<1>1. more \in Seq(UsageRecord) /\ Len(more) = Len(log) + 1 /\ Len(log) \in Nat
  OBVIOUS
<1>2. ASSUME NEW n \in DOMAIN more  PROVE HonestRecord(more[n])
  <2>1. n \in 1..Len(log) + 1
    BY <1>1
  <2>2. CASE n = Len(log) + 1
    <3>1. more[n] = line
      BY <2>2
    <3> QED
      BY <3>1
  <2>3. CASE n # Len(log) + 1
    <3>1. n \in 1..Len(log) /\ n \in DOMAIN log
      BY <1>1, <2>1, <2>3
    <3>2. more[n] = log[n]
      BY <3>1
    <3> QED
      BY <3>1, <3>2 DEF HonestLog
  <2> QED
    BY <2>2, <2>3
<1> QED
  BY <1>1, <1>2 DEF HonestLog

LEMMA NoRecords == <<>> \in Seq(UsageRecord) /\ HonestLog(<<>>)
<1>1. <<>> \in Seq(UsageRecord) /\ DOMAIN <<>> = {}
  OBVIOUS
<1> QED
  BY <1>1 DEF HonestLog

\* A log of records is not what stands for none.
LEMMA AppendCounts ==
  ASSUME CountsIInv, NEW k \in Caller, AppendRecord(k)
  PROVE  CountsIInv' /\ (LogStays \/ active' # NoLog)
<1>1. call[k] \in CallRow /\ CallSound(call[k]) /\ call[k].at = "append" /\ call' = [call EXCEPT ![k] = NoCall]
  BY SoundCall DEF AppendRecord, CallAt
<1>2. CASE LogStays
  BY <1>1, <1>2, NoCallSound, CallCounts
<1>3. CASE ~LogStays
  <2> DEFINE n == Len(appended) + 1
             r == call[k].record
             line == [r EXCEPT !.id = n]
             log == IF active = NoLog THEN <<>> ELSE active
  <2>1. /\ active' = Append(log, line) /\ appended' = Append(appended, line)
        /\ archive' = archive /\ crossed' = crossed
    BY <1>3 DEF AppendRecord
  <2>2. r \in UsageRecord /\ HonestRecord(r)
    BY <1>1 DEF CallSound
  <2>3. appended \in Seq(UsageRecord) /\ HonestLog(appended)
    BY DEF CountsIInv
  <2>4. n \in Nat
    BY <2>3
  <2>5. log \in Seq(UsageRecord) /\ HonestLog(log)
    BY NoRecords DEF CountsIInv
  <2> HIDE DEF r, n, log
  <2>6. line \in UsageRecord /\ HonestRecord(line)
    BY <2>2, <2>4, Numbered
  <2> HIDE DEF line
  <2>7. /\ Append(log, line) \in Seq(UsageRecord) /\ HonestLog(Append(log, line))
        /\ Append(appended, line) \in Seq(UsageRecord) /\ HonestLog(Append(appended, line))
    BY <2>3, <2>5, <2>6, OneMoreRecord
  <2>8. call \in [Caller -> CallRow] /\ \A j \in Caller : CallSound(call[j])
    BY DEF CountsIInv
  <2>9. call' \in [Caller -> CallRow] /\ \A j \in Caller : CallSound(call'[j])
    BY <1>1, <2>8, NoCallSound
  <2>10. \A j \in Caller : CallSound(call[j])'
    BY <2>9 DEF CallSound, AccSound, HonestCounts, HonestRecord, WholeCost
  <2>11. HonestLog(active') /\ HonestLog(appended') /\ active' \in Seq(UsageRecord) /\ appended' \in Seq(UsageRecord)
    BY <2>1, <2>7
  <2>12. crossed' \in BOOLEAN /\ (archive = NoLog \/ archive \in Seq(UsageRecord))
    BY <2>1 DEF CountsIInv
  <2>13. active' # NoLog
    BY <2>11, UsageAssumption
  <2> QED
    BY <2>1, <2>9, <2>10, <2>11, <2>12, <2>13 DEF CountsIInv, HonestLog
<1> QED
  BY <1>2, <1>3

LEMMA ResetCounts == ASSUME CountsIInv, ResetLog PROVE CountsIInv'
<1> DEFINE mark(j) == call[j].stale \/ call[j].at = "rotate"
           row(j) == [call[j] EXCEPT !.stale = mark(j)]
<1>1. /\ active' = <<>> /\ appended' = <<>> /\ archive' = archive /\ crossed' = crossed
      /\ call' = [j \in Caller |-> row(j)]
  BY DEF ResetLog
<1>2. ASSUME NEW j \in Caller  PROVE row(j) \in CallRow /\ CallSound(row(j))
  <2>1. call[j] \in CallRow /\ CallSound(call[j]) /\ mark(j) \in BOOLEAN
    BY SoundCall
  <2> HIDE DEF mark
  <2> QED
    BY <2>1, MarkedCall
<1> HIDE DEF row
<1>3. call' \in [Caller -> CallRow] /\ \A j \in Caller : CallSound(call'[j])
  BY <1>1, <1>2
<1>4. \A j \in Caller : CallSound(call[j])'
  BY <1>3 DEF CallSound, AccSound, HonestCounts, HonestRecord, WholeCost
<1>5. HonestLog(active') /\ HonestLog(appended') /\ active' \in Seq(UsageRecord) /\ appended' \in Seq(UsageRecord)
  BY <1>1, NoRecords
<1>6. crossed' \in BOOLEAN /\ (archive = NoLog \/ archive \in Seq(UsageRecord))
  BY <1>1 DEF CountsIInv
<1> QED
  BY <1>1, <1>3, <1>4, <1>5, <1>6 DEF CountsIInv, HonestLog

LEMMA CountsIInvInit == UsageInit => CountsIInv
<1> SUFFICES ASSUME UsageInit  PROVE CountsIInv
  OBVIOUS
<1>1. call = [k \in Caller |-> NoCall] /\ active = NoLog /\ archive = NoLog /\ appended = <<>> /\ crossed = FALSE
  BY DEF UsageInit
<1> QED
  BY <1>1, NoCallSound, NoRecords DEF CountsIInv

LEMMA CountsIInvStep == CountsIInv /\ [UsageNext]_usageVars => CountsIInv'
<1> SUFFICES ASSUME CountsIInv, [UsageNext]_usageVars  PROVE CountsIInv'
  OBVIOUS
<1>1. CASE UNCHANGED usageVars
  BY <1>1 DEF usageVars, CountsIInv, CallSound, AccSound, HonestCounts, HonestRecord, WholeCost, HonestLog
<1>2. CASE ResetLog
  BY <1>2, ResetCounts
<1>3. ASSUME NEW k \in Caller, CallStep(k)  PROVE CountsIInv'
  BY <1>3, StartCounts, FoldCounts, FinishCounts, ApiCounts, CrushCounts, FlatCounts, StatCounts, SkipCounts,
     RotateCounts, AppendCounts DEF CallStep
<1> QED
  BY <1>1, <1>2, <1>3 DEF UsageNext

-----------------------------------------------------------------------------
(* The usage log: what the summary of a log says                           *)

\* Nothing is missing when nothing is left over.
LEMMA NoneUnknown ==
  ASSUME NEW log \in Seq(UsageRecord), NEW S, S \subseteq DOMAIN log
  PROVE  /\ IsFiniteSet(S) /\ Cardinality(S) \in Nat
         /\ (Len(log) - Cardinality(S) = 0 => S = DOMAIN log)
         /\ (Cardinality(S) = Len(log) => S = DOMAIN log)
         /\ (S = DOMAIN log => Cardinality(S) = Len(log))
<1>1. Len(log) \in Nat /\ DOMAIN log = 1..Len(log)
  OBVIOUS
<1>2. IsFiniteSet(DOMAIN log) /\ Cardinality(DOMAIN log) = Len(log)
  <2>1. IsFiniteSet(1..Len(log)) /\ Cardinality(1..Len(log)) = Len(log)
    <3>1. 1 \in Int /\ Len(log) \in Int
      BY <1>1
    <3>2. IsFiniteSet(1..Len(log)) /\ Cardinality(1..Len(log)) = IF 1 > Len(log) THEN 0 ELSE Len(log) - 1 + 1
      BY <3>1, FS_Interval
    <3> QED
      BY <1>1, <3>2
  <2> QED
    BY <1>1, <2>1
<1>3. IsFiniteSet(S) /\ Cardinality(S) \in Nat
  BY <1>2, FS_Subset, FS_CardinalityType
<1>4. Cardinality(S) = Cardinality(DOMAIN log) => S = DOMAIN log
  BY <1>2, FS_Subset
<1> QED
  BY <1>1, <1>2, <1>3, <1>4

LEMMA RecordParts ==
  ASSUME NEW r \in UsageRecord
  PROVE  r.tokens \in TokenRow /\ r.spent \in ClassCounts /\ r.cost.total \in TokenCount
  BY DEF UsageRecord, TokenRow, ClassCounts

LEMMA CostsAddUp ==
  ASSUME NEW log \in Seq(UsageRecord), HonestLog(log), CostSummary(log).unknown = 0
  PROVE  CostSummary(log).sum = SumTo([n \in DOMAIN log |-> Due(log[n].spent, log[n].cost.from)], Len(log))
<1> DEFINE known == {n \in DOMAIN log : Known(log[n].cost.total)}
           costs == [n \in DOMAIN log |-> OrZero(log[n].cost.total)]
           due == [n \in DOMAIN log |-> Due(log[n].spent, log[n].cost.from)]
<1>1. CostSummary(log).unknown = Len(log) - Cardinality(known) /\ CostSummary(log).sum = SumTo(costs, Len(log))
  BY DEF CostSummary
<1>2. known = DOMAIN log
  <2>1. known \subseteq DOMAIN log
    OBVIOUS
  <2> HIDE DEF known
  <2> QED
    BY <1>1, <2>1, NoneUnknown
<1>3. ASSUME NEW n \in DOMAIN log  PROVE OrZero(log[n].cost.total) = Due(log[n].spent, log[n].cost.from)
  <2>1. Known(log[n].cost.total)
    BY <1>2
  <2>2. log[n] \in UsageRecord /\ HonestRecord(log[n])
    BY DEF HonestLog
  <2> QED
    BY <2>1, <2>2, RecordParts, CountFacts DEF HonestRecord, WholeCost
<1>4. costs = due
  BY <1>3
<1> HIDE DEF costs, due
<1> QED
  BY <1>1, <1>4 DEF due

LEMMA CountsOfALog ==
  ASSUME NEW log \in Seq(UsageRecord), NEW f \in Field
  PROVE  /\ FieldSummary(log, f).sum = SumTo([n \in DOMAIN log |-> OrZero(log[n].tokens[f])], Len(log))
         /\ \A n \in 1..Len(log) : OrZero(log[n].tokens[f]) \in Nat
<1>1. ASSUME NEW n \in 1..Len(log)  PROVE OrZero(log[n].tokens[f]) \in Nat
  <2>1. log[n] \in UsageRecord
    OBVIOUS
  <2>2. log[n].tokens \in TokenRow
    BY <2>1, RecordParts
  <2> QED
    BY <2>2, CountFacts DEF TokenRow
<1> QED
  BY <1>1 DEF FieldSummary

LEMMA SideSums ==
  ASSUME NEW log \in Seq(UsageRecord), NEW side \in {"input", "output"},
         SideSummary(log, side, "reconciled") = Len(log), NEW n \in DOMAIN log
  PROVE  /\ log[n].tokens \in TokenRow
         /\ Known(log[n].tokens[side]) /\ SumKnown(log[n].tokens, SideClass(side)) = log[n].tokens[side]
<1> DEFINE S == {m \in DOMAIN log : SideState(log[m].tokens, side) = "reconciled"}
<1>1. S = DOMAIN log
  <2>1. S \subseteq DOMAIN log /\ Cardinality(S) = Len(log)
    BY DEF SideSummary
  <2> HIDE DEF S
  <2> QED
    BY <2>1, NoneUnknown
<1>2. SideState(log[n].tokens, side) = "reconciled"
  BY <1>1
<1>3. log[n] \in UsageRecord
  OBVIOUS
<1> QED
  BY <1>2, <1>3, RecordParts DEF SideState

LEMMA KnownSums ==
  ASSUME NEW t \in TokenRow
  PROVE  /\ SumKnown(t, InputClass) = OrZero(t["uncached"]) + OrZero(t["read"]) + OrZero(t["write"])
         /\ SumKnown(t, OutputClass) = OrZero(t["visible"]) + OrZero(t["reasoning"])
<1> DEFINE v == [c \in Class |-> OrZero(t[c])]
<1>1. v \in ClassCounts
  BY FieldParts, CountFacts DEF ClassCounts, TokenRow
<1>2. /\ v["uncached"] = OrZero(t["uncached"]) /\ v["read"] = OrZero(t["read"]) /\ v["write"] = OrZero(t["write"])
      /\ v["visible"] = OrZero(t["visible"]) /\ v["reasoning"] = OrZero(t["reasoning"])
  BY DEF Class, InputClass, OutputClass
<1>3. SumKnown(t, InputClass) = SumOf(v, InputClass) /\ SumKnown(t, OutputClass) = SumOf(v, OutputClass)
  BY DEF SumKnown
<1> HIDE DEF v
<1> QED
  BY <1>1, <1>2, <1>3, ClassSums

LEMMA SidesAddUp ==
  ASSUME NEW log \in Seq(UsageRecord), NEW side \in {"input", "output"},
         SideSummary(log, side, "reconciled") = Len(log)
  PROVE  /\ FieldSummary(log, side).unknown = 0
         /\ FieldSummary(log, side).sum = SumOf([c \in Class |-> FieldSummary(log, c).sum], SideClass(side))
<1> DEFINE of(f) == [n \in DOMAIN log |-> OrZero(log[n].tokens[f])]
           L == Len(log)
           sums == [c \in Class |-> FieldSummary(log, c).sum]
<1>1. L \in Nat /\ DOMAIN log = 1..L
  OBVIOUS
<1>2. \A f \in Field : FieldSummary(log, f).sum = SumTo(of(f), L) /\ \A n \in 1..L : of(f)[n] \in Nat
  BY CountsOfALog
<1>3. ASSUME NEW n \in 1..L
      PROVE  /\ log[n].tokens \in TokenRow
             /\ Known(log[n].tokens[side]) /\ SumKnown(log[n].tokens, SideClass(side)) = log[n].tokens[side]
  BY SideSums
<1>4. FieldSummary(log, side).unknown = 0
  <2> DEFINE known == {n \in DOMAIN log : Known(log[n].tokens[side])}
  <2>1. known = DOMAIN log
    BY <1>3
  <2>2. FieldSummary(log, side).unknown = Len(log) - Cardinality(known)
    BY DEF FieldSummary
  <2> HIDE DEF known
  <2>3. Cardinality(known) = Len(log)
    BY <2>1, NoneUnknown
  <2> QED
    BY <1>1, <2>2, <2>3
<1>5. /\ "uncached" \in Class /\ "read" \in Class /\ "write" \in Class /\ "visible" \in Class /\ "reasoning" \in Class
      /\ Class \subseteq Field /\ "input" \in Field /\ "output" \in Field
  BY DEF Field, Class, InputClass, OutputClass
<1>6. ASSUME NEW n \in 1..L  PROVE OrZero(log[n].tokens[side]) = SumKnown(log[n].tokens, SideClass(side))
  <2>1. log[n].tokens[side] \in TokenCount
    BY <1>3, <1>5 DEF TokenRow
  <2> QED
    BY <1>3, <2>1, CountFacts
<1>7. /\ sums["uncached"] = SumTo(of("uncached"), L) /\ sums["read"] = SumTo(of("read"), L)
      /\ sums["write"] = SumTo(of("write"), L) /\ sums["visible"] = SumTo(of("visible"), L)
      /\ sums["reasoning"] = SumTo(of("reasoning"), L)
  BY <1>2, <1>5
<1>8. CASE side = "input"
  <2> DEFINE two == [n \in DOMAIN log |-> of("uncached")[n] + of("read")[n]]
  <2>1. \A n \in 1..L : of("input")[n] = two[n] + of("write")[n]
    <3> TAKE n \in 1..L
    <3>1. OrZero(log[n].tokens["input"])
            = OrZero(log[n].tokens["uncached"]) + OrZero(log[n].tokens["read"]) + OrZero(log[n].tokens["write"])
      BY <1>3, <1>6, <1>8, KnownSums DEF SideClass
    <3> QED
      BY <1>1, <3>1
  <2>2. \A n \in 1..L : /\ of("uncached")[n] \in Nat /\ of("read")[n] \in Nat /\ of("write")[n] \in Nat
                        /\ two[n] = of("uncached")[n] + of("read")[n]
    BY <1>1, <1>2, <1>5
  <2> HIDE DEF of, two, L
  <2>3. \A n \in 1..L : two[n] \in Nat
    BY <2>2
  <2>4. /\ SumTo(two, L) = SumTo(of("uncached"), L) + SumTo(of("read"), L)
        /\ SumTo(of("uncached"), L) \in Nat /\ SumTo(of("read"), L) \in Nat
    BY <1>1, <2>2, SumsAdd
  <2>5. SumTo(of("input"), L) = SumTo(two, L) + SumTo(of("write"), L) /\ SumTo(of("write"), L) \in Nat
    <3>1. \A n \in 1..L : two[n] \in Nat /\ of("write")[n] \in Nat /\ of("input")[n] = two[n] + of("write")[n]
      BY <2>1, <2>2, <2>3
    <3> QED
      BY <1>1, <3>1, SumsAdd
  <2>6. SumOf(sums, InputClass) = sums["uncached"] + sums["read"] + sums["write"] + 0 + 0
    <3> HIDE DEF sums
    <3> QED
      BY DEF SumOf, InputClass
  <2>7. FieldSummary(log, "input").sum = SumTo(of("input"), L)
    BY <1>2, <1>5
  <2> HIDE DEF sums
  <2>8. FieldSummary(log, "input").sum = SumOf(sums, InputClass)
    BY <1>7, <2>4, <2>5, <2>6, <2>7
  <2> QED
    BY <1>4, <1>8, <2>8 DEF SideClass, sums
<1>9. CASE side = "output"
  <2>1. \A n \in 1..L : of("output")[n] = of("visible")[n] + of("reasoning")[n]
    <3> TAKE n \in 1..L
    <3>1. OrZero(log[n].tokens["output"]) = OrZero(log[n].tokens["visible"]) + OrZero(log[n].tokens["reasoning"])
      BY <1>3, <1>6, <1>9, KnownSums DEF SideClass
    <3> QED
      BY <1>1, <3>1
  <2>2. \A n \in 1..L : of("visible")[n] \in Nat /\ of("reasoning")[n] \in Nat
    BY <1>1, <1>2, <1>5
  <2> HIDE DEF of, L
  <2>3. /\ SumTo(of("output"), L) = SumTo(of("visible"), L) + SumTo(of("reasoning"), L)
        /\ SumTo(of("visible"), L) \in Nat /\ SumTo(of("reasoning"), L) \in Nat
    BY <1>1, <2>1, <2>2, SumsAdd
  <2>4. SumOf(sums, OutputClass) = 0 + 0 + 0 + sums["visible"] + sums["reasoning"]
    <3> HIDE DEF sums
    <3> QED
      BY DEF SumOf, OutputClass
  <2>5. FieldSummary(log, "output").sum = SumTo(of("output"), L)
    BY <1>2, <1>5
  <2> HIDE DEF sums
  <2>6. FieldSummary(log, "output").sum = SumOf(sums, OutputClass)
    BY <1>7, <2>3, <2>4, <2>5
  <2> QED
    BY <1>4, <1>9, <2>6 DEF SideClass, sums
<1> QED
  BY <1>8, <1>9

LEMMA CountsIInvImplies ==
  CountsIInv => UsageTypeOK /\ ACostIsTheWholeCost /\ CountsAreHonest /\ ReportsSayWhatIsMissing
<1> SUFFICES ASSUME CountsIInv
             PROVE  UsageTypeOK /\ ACostIsTheWholeCost /\ CountsAreHonest /\ ReportsSayWhatIsMissing
  OBVIOUS
<1>1. UsageTypeOK
  <2>1. ASSUME NEW k \in Caller
        PROVE  call[k].at \in CallPlace /\ call[k].source \in Source
               /\ \A f \in Field : call[k].tokens[f] \in Nat \cup {Unknown}
    <3>1. call[k] \in CallRow
      BY SoundCall
    <3>2. call[k].at \in CallPlace /\ call[k].source \in Source /\ call[k].tokens \in TokenRow
      BY <3>1, CallParts
    <3> QED
      BY <3>2 DEF TokenRow, TokenCount
  <2> QED
    BY <2>1 DEF UsageTypeOK, CountsIInv
<1>2. ACostIsTheWholeCost /\ CountsAreHonest
  BY DEF CountsIInv, HonestLog, HonestRecord, ACostIsTheWholeCost, CountsAreHonest
<1>3. ReportsSayWhatIsMissing
  <2> DEFINE log == Records(active)
  <2>1. log \in Seq(UsageRecord) /\ HonestLog(log)
    BY NoRecords DEF CountsIInv, Records
  <2> HIDE DEF log
  <2>2. CostSummary(log).unknown = 0 =>
          CostSummary(log).sum = SumTo([n \in DOMAIN log |-> Due(log[n].spent, log[n].cost.from)], Len(log))
    BY <2>1, CostsAddUp
  <2>3. \A side \in {"input", "output"} :
          SideSummary(log, side, "reconciled") = Len(log) =>
            FieldSummary(log, side).unknown = 0
            /\ FieldSummary(log, side).sum = SumOf([c \in Class |-> FieldSummary(log, c).sum], SideClass(side))
    BY <2>1, SidesAddUp
  <2> QED
    BY <2>2, <2>3 DEF ReportsSayWhatIsMissing, log
<1> QED
  BY <1>1, <1>2, <1>3

-----------------------------------------------------------------------------
(* The usage log.  Until a rename overtakes another, the log is the end of *)
(* what was written, and what is before it ends in its predecessor, which  *)
(* had Cap records when it was put aside.                                  *)

IsSequence(s) == \E S : s \in Seq(S)
LogsTyped ==
  /\ IsSequence(appended)
  /\ active # NoLog => IsSequence(active)
  /\ archive # NoLog => IsSequence(archive)

CallFields == {"at", "source", "spent", "acc", "tokens", "charge", "record", "stale"}
CallsTyped == DOMAIN call = Caller /\ \A k \in Caller : DOMAIN call[k] = CallFields

\* s ends where the first n records of appended end.
EndsAt(s, n) == Len(s) <= n /\ \A i \in 1..Len(s) : s[i] = appended[n - Len(s) + i]
PutAside == Len(appended) - Len(Records(active))

RotatesWhatIsFull ==
  \A k \in Caller : call[k].at = "rotate" /\ ~call[k].stale => active # NoLog /\ Len(active) >= Cap
LogEnds ==
  /\ EndsAt(Records(active), Len(appended))
  /\ PutAside > 0 => Len(Records(archive)) >= Cap /\ EndsAt(Records(archive), PutAside)

UsageIInv == LogsTyped /\ CallsTyped /\ crossed \in BOOLEAN /\ RotatesWhatIsFull /\ (crossed \/ LogEnds)

LEMMA SequenceFacts ==
  ASSUME NEW s, IsSequence(s)
  PROVE  /\ Len(s) \in Nat /\ DOMAIN s = 1..Len(s)
         /\ \A x : /\ IsSequence(Append(s, x)) /\ Len(Append(s, x)) = Len(s) + 1
                   /\ Append(s, x)[Len(s) + 1] = x
                   /\ \A i \in 1..Len(s) : Append(s, x)[i] = s[i]
<1>1. PICK S : s \in Seq(S)
  BY DEF IsSequence
<1>2. Len(s) \in Nat /\ DOMAIN s = 1..Len(s)
  BY <1>1
<1>3. ASSUME NEW x
      PROVE  /\ IsSequence(Append(s, x)) /\ Len(Append(s, x)) = Len(s) + 1
             /\ Append(s, x)[Len(s) + 1] = x
             /\ \A i \in 1..Len(s) : Append(s, x)[i] = s[i]
  <2>1. s \in Seq(S \cup {x}) /\ x \in S \cup {x}
    BY <1>1
  <2>2. Append(s, x) \in Seq(S \cup {x})
    BY <2>1
  <2> QED
    BY <2>1, <2>2 DEF IsSequence
<1> QED
  BY <1>2, <1>3

LEMMA EmptySequence == IsSequence(<<>>) /\ Len(<<>>) = 0
<1>1. <<>> \in Seq({})
  OBVIOUS
<1> QED
  BY <1>1 DEF IsSequence

LEMMA RecordsTyped ==
  ASSUME LogsTyped
  PROVE  /\ IsSequence(Records(active)) /\ IsSequence(Records(archive))
         /\ Len(appended) \in Nat /\ Len(Records(active)) \in Nat /\ Len(Records(archive)) \in Nat
<1>1. IsSequence(Records(active)) /\ IsSequence(Records(archive))
  BY EmptySequence DEF LogsTyped, Records
<1> QED
  BY <1>1, SequenceFacts DEF LogsTyped

\* The property from the invariant.
LEMMA UsageIInvKeepsRecent == UsageIInv => RotationKeepsRecent
<1> SUFFICES ASSUME UsageIInv, ~crossed, NEW x \in Recent  PROVE x \in InLogs
  BY DEF RotationKeepsRecent, RecentHistoryIsKept
<1> DEFINE a == Records(active)
           m == Records(archive)
           L == Len(appended)
<1>1. LogsTyped /\ LogEnds
  BY DEF UsageIInv
<1>2. /\ L \in Nat /\ Len(a) \in Nat /\ Len(m) \in Nat /\ DOMAIN appended = 1..L
      /\ DOMAIN a = 1..Len(a) /\ DOMAIN m = 1..Len(m) /\ Cap \in Nat
  BY <1>1, RecordsTyped, SequenceFacts, UsageAssumption DEF LogsTyped
<1>3. PICK n \in 1..L : x = appended[n] /\ (L <= Cap \/ n >= L - Cap + 1)
  <2>1. CASE L <= Cap
    BY <1>2, <2>1 DEF Recent
  <2>2. CASE ~(L <= Cap)
    <3>1. PICK n \in (L - Cap + 1)..L : x = appended[n]
      BY <2>2 DEF Recent
    <3>2. n \in 1..L /\ n >= L - Cap + 1
      BY <1>2, <2>2
    <3> QED
      BY <3>1, <3>2
  <2> QED
    BY <2>1, <2>2
<1>4. CASE n > PutAside
  <2> DEFINE i == n - (L - Len(a))
  <2>1. i \in 1..Len(a) /\ L - Len(a) + i = n
    BY <1>2, <1>4 DEF PutAside
  <2>2. a[i] = appended[L - Len(a) + i]
    BY <1>1, <2>1 DEF LogEnds, EndsAt
  <2> QED
    BY <1>2, <1>3, <2>1, <2>2 DEF InLogs
<1>5. CASE ~(n > PutAside)
  <2>1. PutAside = L - Len(a)
    BY DEF PutAside
  <2>2. PutAside > 0
    BY <1>2, <1>3, <1>5, <2>1
  <2>3. Len(m) >= Cap /\ EndsAt(m, PutAside)
    BY <1>1, <2>2 DEF LogEnds
  <2> DEFINE i == n - (PutAside - Len(m))
  <2>4. Len(m) <= PutAside
    BY <2>3 DEF EndsAt
  <2>5. i \in 1..Len(m) /\ PutAside - Len(m) + i = n
    BY <1>2, <1>3, <1>5, <2>1, <2>3, <2>4
  <2>6. m[i] = appended[PutAside - Len(m) + i]
    BY <2>3, <2>5 DEF EndsAt
  <2> HIDE DEF i
  <2> QED
    BY <1>2, <1>3, <2>5, <2>6 DEF InLogs
<1> QED
  BY <1>4, <1>5

\* A step of one call that leaves the log alone.
LEMMA CallKeeps ==
  ASSUME UsageIInv, LogStays, NEW k \in Caller, NEW row, call' = [call EXCEPT ![k] = row], DOMAIN row = CallFields,
         row.at = "rotate" /\ ~row.stale => active # NoLog /\ Len(active) >= Cap
  PROVE  UsageIInv'
<1>1. call'[k] = row /\ \A j \in Caller \ {k} : call'[j] = call[j]
  BY DEF UsageIInv, CallsTyped
<1>2. UNCHANGED <<active, archive, appended, crossed>>
  BY DEF LogStays
<1>3. CallsTyped'
  BY <1>1 DEF UsageIInv, CallsTyped
<1>4. RotatesWhatIsFull'
  BY <1>1, <1>2 DEF UsageIInv, RotatesWhatIsFull
<1>5. LogsTyped' /\ crossed' \in BOOLEAN /\ (crossed \/ LogEnds)'
  BY <1>2 DEF UsageIInv, LogsTyped, LogEnds, EndsAt, PutAside, Records
<1> QED
  BY <1>3, <1>4, <1>5 DEF UsageIInv

LEMMA QuietCall ==
  ASSUME UsageIInv, LogStays, NEW k \in Caller,
         \E row : call' = [call EXCEPT ![k] = row] /\ DOMAIN row = CallFields /\ row.at # "rotate"
  PROVE  UsageIInv'
  BY CallKeeps

LEMMA NoCallFields == DOMAIN NoCall = CallFields /\ NoCall.at = "idle" /\ NoCall.stale = FALSE
  BY DEF NoCall, CallFields

LEMMA EarlyKeeps ==
  ASSUME UsageIInv, NEW k \in Caller,
         StartCall(k) \/ FoldStep(k) \/ FinishSteps(k) \/ ApiAnswer(k) \/ AnswerCrush(k) \/ AnswerFlat(k) \/ SkipLog(k)
  PROVE  UsageIInv'
<1>1. DOMAIN call[k] = CallFields /\ LogStays
  BY DEF UsageIInv, CallsTyped, StartCall, FoldStep, FinishSteps, ApiAnswer, AnswerCrush, AnswerFlat, SkipLog
<1>2. CASE StartCall(k)
  <2>1. PICK source \in Source :
          call' = [call EXCEPT ![k].at = IF source = "opencode" THEN "steps" ELSE "answer", ![k].source = source]
    BY <1>2 DEF StartCall
  <2> DEFINE at == IF source = "opencode" THEN "steps" ELSE "answer"
  <2> DEFINE row == [call[k] EXCEPT !.at = at, !.source = source]
  <2>2. call' = [call EXCEPT ![k] = row] /\ DOMAIN row = CallFields /\ row.at # "rotate"
    BY <1>1, <2>1 DEF CallFields
  <2> QED
    BY <1>1, <2>2, QuietCall
<1>3. CASE FoldStep(k)
  <2>1. PICK spent, acc : call' = [call EXCEPT ![k].spent = spent, ![k].acc = acc]
    BY <1>3 DEF FoldStep
  <2> DEFINE row == [call[k] EXCEPT !.spent = spent, !.acc = acc]
  <2>2. call' = [call EXCEPT ![k] = row] /\ DOMAIN row = CallFields /\ row.at = call[k].at
    BY <1>1, <2>1 DEF CallFields
  <2>3. call[k].at = "steps"
    BY <1>3 DEF FoldStep, CallAt
  <2> HIDE DEF row
  <2> QED
    BY <1>1, <2>2, <2>3, QuietCall
<1>4. CASE FinishSteps(k)
  <2>1. PICK tokens : call' = [call EXCEPT ![k].at = "log", ![k].tokens = tokens]
    BY <1>4 DEF FinishSteps
  <2> DEFINE row == [call[k] EXCEPT !.at = "log", !.tokens = tokens]
  <2>2. call' = [call EXCEPT ![k] = row] /\ DOMAIN row = CallFields /\ row.at # "rotate"
    BY <1>1, <2>1 DEF CallFields
  <2> QED
    BY <1>1, <2>2, QuietCall
<1>5. CASE ApiAnswer(k)
  <2>1. PICK spent, tokens : call' = [call EXCEPT ![k].at = "log", ![k].spent = spent, ![k].tokens = tokens]
    BY <1>5 DEF ApiAnswer
  <2> DEFINE row == [call[k] EXCEPT !.at = "log", !.spent = spent, !.tokens = tokens]
  <2>2. call' = [call EXCEPT ![k] = row] /\ DOMAIN row = CallFields /\ row.at # "rotate"
    BY <1>1, <2>1 DEF CallFields
  <2> QED
    BY <1>1, <2>2, QuietCall
<1>6. CASE AnswerCrush(k)
  <2>1. PICK spent \in Spending, shown \in Showings, charged \in BOOLEAN :
          call' = [call EXCEPT ![k].at = "log", ![k].spent = spent, ![k].tokens = CrushTokens(spent, shown),
                               ![k].charge = IF charged THEN SumOf(spent, Class) ELSE Unknown]
    BY <1>6 DEF AnswerCrush
  <2> DEFINE tokens == CrushTokens(spent, shown)
             charge == IF charged THEN SumOf(spent, Class) ELSE Unknown
  <2> DEFINE row == [call[k] EXCEPT !.at = "log", !.spent = spent, !.tokens = tokens, !.charge = charge]
  <2>2. call' = [call EXCEPT ![k] = row] /\ DOMAIN row = CallFields /\ row.at # "rotate"
    BY <1>1, <2>1 DEF CallFields
  <2> QED
    BY <1>1, <2>2, QuietCall
<1>7. CASE AnswerFlat(k)
  <2>1. PICK spent : call' = [call EXCEPT ![k].at = "log", ![k].spent = spent]
    BY <1>7 DEF AnswerFlat
  <2> DEFINE row == [call[k] EXCEPT !.at = "log", !.spent = spent]
  <2>2. call' = [call EXCEPT ![k] = row] /\ DOMAIN row = CallFields /\ row.at # "rotate"
    BY <1>1, <2>1 DEF CallFields
  <2> QED
    BY <1>1, <2>2, QuietCall
<1>8. CASE SkipLog(k)
  <2>1. call' = [call EXCEPT ![k] = NoCall]
    BY <1>8 DEF SkipLog
  <2> QED
    BY <1>1, <2>1, NoCallFields, QuietCall
<1> QED
  BY <1>2, <1>3, <1>4, <1>5, <1>6, <1>7, <1>8

LEMMA StatKeeps == ASSUME UsageIInv, NEW k \in Caller, StatLog(k) PROVE UsageIInv'
<1>1. PICK plan \in Plan :
        call' = [call EXCEPT ![k] = [NoCall EXCEPT
                   !.source = call[k].source, !.record = RecordOf(call[k], plan),
                   !.at = IF active # NoLog /\ Len(active) >= Cap THEN "rotate" ELSE "append"]]
  BY DEF StatLog
<1> DEFINE at == IF active # NoLog /\ Len(active) >= Cap THEN "rotate" ELSE "append"
           row == [NoCall EXCEPT !.source = call[k].source, !.record = RecordOf(call[k], plan), !.at = at]
<1>2. DOMAIN row = CallFields /\ row.at = at
  BY NoCallFields DEF CallFields
<1>3. LogStays
  BY DEF StatLog
<1>4. call' = [call EXCEPT ![k] = row]
  BY <1>1
<1> HIDE DEF row
<1> QED
  BY <1>2, <1>3, <1>4, CallKeeps

\* A call that is marked, or moves on, keeps its fields.
LEMMA Marked ==
  ASSUME NEW row, DOMAIN row = CallFields, NEW mark
  PROVE  /\ DOMAIN [row EXCEPT !.stale = mark] = CallFields
         /\ [row EXCEPT !.stale = mark].stale = mark /\ [row EXCEPT !.stale = mark].at = row.at
         /\ DOMAIN [row EXCEPT !.at = mark] = CallFields /\ [row EXCEPT !.at = mark].at = mark
  BY DEF CallFields

LEMMA RotateKeeps == ASSUME UsageIInv, NEW k \in Caller, RotateLog(k) PROVE UsageIInv'
<1> DEFINE a == Records(active)
           L == Len(appended)
<1>1. LogsTyped /\ CallsTyped /\ DOMAIN call[k] = CallFields /\ call[k].at = "rotate"
  BY DEF UsageIInv, CallsTyped, RotateLog, CallAt
<1>2. CASE active = NoLog
  <2>1. LogStays /\ call' = [call EXCEPT ![k].at = "append"]
    BY <1>2 DEF RotateLog, CallGoes
  <2> DEFINE row == [call[k] EXCEPT !.at = "append"]
  <2>2. call' = [call EXCEPT ![k] = row]
    BY <2>1
  <2>3. DOMAIN row = CallFields /\ row.at = "append"
    BY <1>1, Marked
  <2> HIDE DEF row
  <2> QED
    BY <2>1, <2>2, <2>3, QuietCall
<1>3. CASE active # NoLog
  <2>1. /\ archive' = active /\ active' = NoLog /\ appended' = appended /\ crossed' = (crossed \/ call[k].stale)
        /\ call' = [j \in Caller |-> IF j = k THEN [call[k] EXCEPT !.at = "append"]
                                     ELSE [call[j] EXCEPT !.stale = @ \/ call[j].at = "rotate"]]
    BY <1>3 DEF RotateLog
  <2>2. LogsTyped'
    BY <1>1, <1>3, <2>1 DEF LogsTyped
  <2>3. call'[k].at = "append" /\ DOMAIN call'[k] = CallFields
    BY <1>1, <2>1, Marked
  <2>4. \A j \in Caller \ {k} : DOMAIN call'[j] = CallFields /\ call'[j].at = call[j].at
                                /\ (call'[j].at = "rotate" => call'[j].stale)
    <3> TAKE j \in Caller \ {k}
    <3>1. call'[j] = [call[j] EXCEPT !.stale = call[j].stale \/ call[j].at = "rotate"] /\ DOMAIN call[j] = CallFields
      BY <1>1, <2>1 DEF CallsTyped
    <3> DEFINE mark == call[j].stale \/ call[j].at = "rotate"
    <3>2. /\ DOMAIN call'[j] = CallFields /\ call'[j].at = call[j].at /\ call'[j].stale = mark
      BY <3>1, Marked
    <3> QED
      BY <3>2
  <2>5. CallsTyped' /\ RotatesWhatIsFull'
    BY <2>1, <2>3, <2>4 DEF CallsTyped, RotatesWhatIsFull
  <2>6. crossed' \in BOOLEAN
    BY <2>1
  <2>7. ASSUME ~crossed'  PROVE LogEnds'
    <3>1. ~crossed /\ ~call[k].stale
      BY <2>1, <2>7
    <3>2. Len(active) >= Cap /\ LogEnds
      BY <1>1, <3>1 DEF UsageIInv, RotatesWhatIsFull
    <3>3. Records(active)' = <<>> /\ Records(archive)' = active /\ a = active
      BY <1>3, <2>1 DEF Records
    <3>4. L \in Nat /\ Len(<<>>) = 0
      BY <1>1, RecordsTyped, EmptySequence
    <3>5. EndsAt(active, L)
      BY <3>2, <3>3 DEF LogEnds
    <3>6. PutAside' = L
      BY <2>1, <3>3, <3>4 DEF PutAside
    <3>7. EndsAt(<<>>, L)
      BY <3>4 DEF EndsAt
    <3>8. EndsAt(Records(active), Len(appended))'
      BY <2>1, <3>3, <3>7 DEF EndsAt
    <3>9. EndsAt(Records(archive), PutAside)'
      BY <2>1, <3>3, <3>5, <3>6 DEF EndsAt
    <3> QED
      BY <3>2, <3>3, <3>8, <3>9 DEF LogEnds
  <2> QED
    BY <2>2, <2>5, <2>6, <2>7 DEF UsageIInv
<1> QED
  BY <1>2, <1>3

LEMMA AppendKeeps ==
  ASSUME UsageIInv, LogStays \/ active' # NoLog, NEW k \in Caller, AppendRecord(k)
  PROVE  UsageIInv'
<1> DEFINE a == Records(active)
           L == Len(appended)
<1>1. LogsTyped /\ CallsTyped /\ call' = [call EXCEPT ![k] = NoCall]
  BY DEF UsageIInv, AppendRecord
<1>2. CASE LogStays
  BY <1>1, <1>2, NoCallFields, QuietCall
<1>3. CASE ~LogStays
  <2>1. PICK line : /\ active' = Append(IF active = NoLog THEN <<>> ELSE active, line)
                    /\ appended' = Append(appended, line) /\ archive' = archive /\ crossed' = crossed
    BY <1>3 DEF AppendRecord
  <2>2. active' = Append(a, line)
    BY <2>1 DEF Records
  <2>3. IsSequence(a) /\ IsSequence(appended) /\ L \in Nat /\ Len(a) \in Nat
    BY <1>1, RecordsTyped DEF LogsTyped
  <2>4. /\ IsSequence(active') /\ Len(active') = Len(a) + 1 /\ active'[Len(a) + 1] = line
        /\ \A i \in 1..Len(a) : active'[i] = a[i]
    BY <2>2, <2>3, SequenceFacts
  <2>5. /\ IsSequence(appended') /\ Len(appended') = L + 1 /\ appended'[L + 1] = line
        /\ \A i \in 1..L : appended'[i] = appended[i]
    BY <2>1, <2>3, SequenceFacts
  <2>6. active' # NoLog /\ Records(active)' = active' /\ Records(archive)' = Records(archive)
    BY <1>3, <2>1 DEF Records
  <2>7. LogsTyped'
    BY <1>1, <2>1, <2>4, <2>5 DEF LogsTyped
  <2>8. call'[k] = NoCall /\ \A j \in Caller \ {k} : call'[j] = call[j]
    BY <1>1 DEF CallsTyped
  <2>9. CallsTyped'
    BY <1>1, <2>8, NoCallFields DEF CallsTyped
  <2>10. RotatesWhatIsFull'
    <3> SUFFICES ASSUME NEW j \in Caller, call'[j].at = "rotate", ~call'[j].stale
                 PROVE  active' # NoLog /\ Len(active') >= Cap
      BY DEF RotatesWhatIsFull
    <3>1. j # k /\ call[j].at = "rotate" /\ ~call[j].stale
      BY <2>8, NoCallFields
    <3>2. active # NoLog /\ Len(active) >= Cap
      BY <3>1 DEF UsageIInv, RotatesWhatIsFull
    <3>3. a = active
      BY <3>2 DEF Records
    <3> QED
      BY <2>3, <2>4, <2>6, <3>2, <3>3, UsageAssumption
  <2>11. ASSUME ~crossed  PROVE LogEnds'
    <3>1. LogEnds
      BY <2>11 DEF UsageIInv
    <3>2. Len(a) <= L /\ \A i \in 1..Len(a) : a[i] = appended[L - Len(a) + i]
      BY <3>1 DEF LogEnds, EndsAt
    <3>3. ASSUME NEW i \in 1..Len(active')
          PROVE  active'[i] = appended'[Len(appended') - Len(active') + i]
      <4>1. Len(appended') - Len(active') + i = L - Len(a) + i
        BY <2>3, <2>4, <2>5
      <4>2. CASE i = Len(a) + 1
        <5>1. L - Len(a) + i = L + 1
          BY <2>3, <4>2
        <5> QED
          BY <2>4, <2>5, <4>1, <4>2, <5>1
      <4>3. CASE i # Len(a) + 1
        <5>1. i \in 1..Len(a) /\ L - Len(a) + i \in 1..L
          BY <2>3, <2>4, <3>2, <4>3
        <5> QED
          BY <2>4, <2>5, <3>2, <4>1, <5>1
      <4> QED
        BY <4>2, <4>3
    <3>4. Len(active') <= Len(appended')
      BY <2>3, <2>4, <2>5, <3>2
    <3>5. EndsAt(Records(active), Len(appended))'
      BY <2>6, <3>3, <3>4 DEF EndsAt
    <3>6. PutAside' = PutAside /\ PutAside \in Nat /\ PutAside <= L
      <4>1. PutAside' = Len(appended') - Len(active') /\ PutAside = L - Len(a)
        BY <2>6 DEF PutAside
      <4> QED
        BY <2>3, <2>4, <2>5, <3>2, <4>1
    <3> DEFINE m == Records(archive)
    <3>7. ASSUME PutAside > 0  PROVE Len(m) >= Cap /\ EndsAt(m, PutAside)'
      <4>1. Len(m) >= Cap /\ Len(m) <= PutAside /\ \A i \in 1..Len(m) : m[i] = appended[PutAside - Len(m) + i]
        BY <3>1, <3>7 DEF LogEnds, EndsAt
      <4>2. Len(m) \in Nat
        BY <1>1, RecordsTyped
      <4>3. ASSUME NEW i \in 1..Len(m)  PROVE m[i] = appended'[PutAside - Len(m) + i]
        <5>1. PutAside - Len(m) + i \in 1..L
          BY <2>3, <3>6, <4>1, <4>2
        <5> QED
          BY <2>5, <4>1, <5>1
      <4> QED
        BY <2>6, <3>6, <4>1, <4>3 DEF EndsAt
    <3> QED
      BY <2>6, <3>5, <3>6, <3>7 DEF LogEnds
  <2> QED
    BY <2>1, <2>7, <2>9, <2>10, <2>11 DEF UsageIInv
<1> QED
  BY <1>2, <1>3

LEMMA ResetKeeps ==
  ASSUME UsageIInv, ResetLog
  PROVE  UsageIInv'
<1>1. /\ active' = <<>> /\ appended' = <<>> /\ archive' = archive /\ crossed' = crossed
      /\ call' = [k \in Caller |-> [call[k] EXCEPT !.stale = @ \/ call[k].at = "rotate"]]
  BY DEF ResetLog
<1>2. LogsTyped'
  BY <1>1, EmptySequence DEF UsageIInv, LogsTyped
<1>3. \A j \in Caller : DOMAIN call'[j] = CallFields /\ (call'[j].at = "rotate" => call'[j].stale)
  <2> TAKE j \in Caller
  <2> DEFINE mark == call[j].stale \/ call[j].at = "rotate"
  <2>1. call'[j] = [call[j] EXCEPT !.stale = mark] /\ DOMAIN call[j] = CallFields
    BY <1>1 DEF UsageIInv, CallsTyped
  <2>2. DOMAIN call'[j] = CallFields /\ call'[j].at = call[j].at /\ call'[j].stale = mark
    BY <2>1, Marked
  <2> QED
    BY <2>2
<1>4. CallsTyped' /\ RotatesWhatIsFull'
  BY <1>1, <1>3 DEF CallsTyped, RotatesWhatIsFull
<1>5. Records(active)' = <<>> /\ Len(<<>>) = 0
  BY <1>1, EmptySequence DEF Records
<1>6. PutAside' = 0 /\ EndsAt(Records(active), Len(appended))'
  BY <1>1, <1>5 DEF PutAside, EndsAt
<1>7. LogEnds'
  BY <1>6 DEF LogEnds
<1> QED
  BY <1>1, <1>2, <1>4, <1>7 DEF UsageIInv

\* Nobody has called and there is no log.
LEMMA UsageIInvInit == UsageInit => UsageIInv
<1> SUFFICES ASSUME UsageInit PROVE UsageIInv
  OBVIOUS
<1>1. call = [k \in Caller |-> NoCall] /\ active = NoLog /\ archive = NoLog /\ appended = <<>> /\ crossed = FALSE
  BY DEF UsageInit
<1>2. LogsTyped /\ CallsTyped /\ RotatesWhatIsFull
  BY <1>1, EmptySequence, NoCallFields DEF LogsTyped, CallsTyped, RotatesWhatIsFull
<1>3. Records(active) = <<>> /\ Len(<<>>) = 0
  BY <1>1, EmptySequence DEF Records
<1>4. PutAside = 0 /\ EndsAt(Records(active), Len(appended))
  BY <1>1, <1>3 DEF PutAside, EndsAt
<1>5. LogEnds
  BY <1>4 DEF LogEnds
<1> QED
  BY <1>1, <1>2, <1>5 DEF UsageIInv

LEMMA UsageIInvStep == CountsIInv /\ UsageIInv /\ [UsageNext]_usageVars => UsageIInv'
<1> SUFFICES ASSUME CountsIInv, UsageIInv, [UsageNext]_usageVars PROVE UsageIInv'
  OBVIOUS
<1>1. CASE UNCHANGED usageVars
  BY <1>1 DEF usageVars, UsageIInv, LogsTyped, CallsTyped, RotatesWhatIsFull, LogEnds, EndsAt, PutAside, Records
<1>2. CASE ResetLog
  BY <1>2, ResetKeeps
<1>3. ASSUME NEW k \in Caller, CallStep(k)  PROVE UsageIInv'
  <2>1. CASE AppendRecord(k)
    BY <2>1, AppendCounts, AppendKeeps
  <2> QED
    BY <1>3, <2>1, EarlyKeeps, StatKeeps, RotateKeeps DEF CallStep
<1> QED
  BY <1>1, <1>2, <1>3 DEF UsageNext

(* Whatever a provider or an engine leaves out of its reports, and however *)
(* many processes append, rotate and reset: no record tells of a cost that *)
(* is not the whole cost, or of more than was spent; the summary says what *)
(* is missing and adds up what is there, over logs of any length; and the  *)
(* records written last, as many as the log may hold, are in the log or in *)
(* its predecessor until a rename lands on a log that another rename or a  *)
(* reset had put in the place of the one it measured.                      *)
THEOREM UsageIsHonest == UsageSpec => []UsageInv
<1>1. CountsIInv /\ UsageIInv /\ [UsageNext]_usageVars => CountsIInv' /\ UsageIInv'
  BY CountsIInvStep, UsageIInvStep
<1>2. UsageInit => CountsIInv /\ UsageIInv
  BY CountsIInvInit, UsageIInvInit
<1>3. CountsIInv /\ UsageIInv => UsageInv
  BY CountsIInvImplies, UsageIInvKeepsRecent DEF UsageInv
<1> QED
  BY <1>1, <1>2, <1>3, PTL DEF UsageSpec

-----------------------------------------------------------------------------
(* The session store                                                       *)

USE AttemptsAssumption

\* None is none of the things the lock, the file and the calls hold; fields of
\* lock files and calls.
LEMMA Facts ==
  /\ None \notin Job
  /\ None \notin Map
  /\ \A l \in LockFile : l # None /\ l.by \in Writer
  /\ \A w \in Writer : [by |-> w, stamped |-> FALSE] \in LockFile
  /\ \A l \in LockFile : [l EXCEPT !.stamped = TRUE] \in LockFile
                         /\ [l EXCEPT !.stamped = TRUE].by = l.by
  /\ \A j \in Job : /\ j.locked \in BOOLEAN /\ j.repair \in BOOLEAN /\ j.failed \in BOOLEAN
                   /\ j.seen \in LockFile \cup {None}
                   /\ j.snap \in Map \cup {None}
                   /\ j.slug \in Slug
  BY NoneAssumption DEF LockFile, Job

\* Nobody is inside a call and there is no lock file.
LEMMA StoreInvInit == Init => StoreInv
<1>1. [s \in Slug |-> None] \in Map
  BY DEF Map
<1> QED
  BY <1>1 DEF Init, StoreInv, TypeOK, JobInv, SeenInv, OwnerInv, SnapInv, Locked,
              Steps, Guarded

\* Every system call of a publication or removal, every failure and every
\* crash keeps the lock file in accord with who believes to hold it.
LEMMA StoreInvStep == StoreInv /\ [Next]_vars => StoreInv'
<1> SUFFICES ASSUME StoreInv, [Next]_vars PROVE StoreInv'
  OBVIOUS
<1> USE DEF StoreInv, TypeOK, JobInv, SeenInv, OwnerInv, SnapInv, Locked,
            Steps, Guarded, Alive
<1> USE Facts
<1>1. ASSUME NEW w \in Writer, NEW op \in {"publish", "remove"}, NEW s \in Slug,
             Start(w, op, s)
      PROVE  StoreInv'
  <2> DEFINE n == [op |-> op, slug |-> s, tries |-> 0, again |-> FALSE,
                   locked |-> FALSE, repair |-> FALSE, failed |-> FALSE,
                   seen |-> None, snap |-> None]
  <2>1. n \in Job /\ n.locked = FALSE
    BY DEF Job
  <2>2. /\ pc[w] = "idle" /\ pc' = [pc EXCEPT ![w] = "open"]
        /\ job' = [job EXCEPT ![w] = n]
        /\ UNCHANGED <<store, lock, disturbed>>
    BY <1>1 DEF Start, At, Goto
  <2> HIDE DEF n
  <2> QED BY <2>1, <2>2
<1>2. ASSUME NEW w \in Writer, Step(w) PROVE StoreInv'
  <2>1. CASE Create(w)
    <3> DEFINE n == [job[w] EXCEPT !.locked = TRUE]
    <3>1. job[w] \in Job
      BY <2>1 DEF Create, At, Goto
    <3>2. n \in Job /\ n.locked = TRUE /\ n.seen = job[w].seen /\ n.snap = job[w].snap
      BY <3>1, <2>1 DEF Job, Create, At, Goto
    <3>3. job' = [job EXCEPT ![w] = n]
      BY <2>1 DEF Create, At, Goto
    <3> HIDE DEF n
    <3> QED BY <3>1, <3>2, <3>3, <2>1 DEF Create, At, Goto
  <2>2. CASE Stamp(w) BY <2>2 DEF Stamp, At, Goto
  <2>3. CASE Exists(w) BY <2>3 DEF Exists, At, Goto
  <2>4. CASE Peek(w)
    <3> DEFINE n == [job[w] EXCEPT !.seen = lock]
    <3>1. job[w] \in Job
      BY <2>4 DEF Peek, At, Goto
    <3>2. n \in Job /\ n.locked = job[w].locked /\ n.seen = lock /\ n.snap = job[w].snap
      BY <3>1, <2>4 DEF Job, Peek, At, Goto
    <3>3. job' = [job EXCEPT ![w] = n]
      BY <2>4 DEF Peek, At, Goto
    <3> HIDE DEF n
    <3> QED BY <3>1, <3>2, <3>3, <2>4 DEF Peek, At, Goto
  <2>5. CASE Recheck(w) BY <2>5 DEF Recheck, At, Goto
  <2>6. CASE Reclaim(w)
    <3> DEFINE n == [job[w] EXCEPT !.again = TRUE, !.seen = None]
    <3>1. job[w] \in Job
      BY <2>6 DEF Reclaim, At, Goto
    <3>2. n \in Job /\ n.locked = job[w].locked /\ n.snap = job[w].snap
      BY <3>1, <2>6 DEF Job, Reclaim, At, Goto
    <3>3. job' = [job EXCEPT ![w] = n]
      BY <2>6 DEF Reclaim, At, Goto
    <3> HIDE DEF n
    <3> QED BY <3>1, <3>2, <3>3, <2>6 DEF Reclaim, At, Goto
  <2>7. CASE Throws(w) BY <2>7 DEF Throws, Refused, Finish, At, Goto
  <2>8. CASE Retries(w)
    <3> DEFINE n == [job[w] EXCEPT !.tries = job[w].tries + 1, !.again = FALSE, !.seen = None]
    <3>1. job[w] \in Job
      BY <2>8 DEF Retries, Refused, At, Goto
    <3>9. job[w].tries + 1 \in 0..Attempts
      BY <3>1, <2>8 DEF Job, Retries
    <3>2. n \in Job /\ n.locked = job[w].locked /\ n.snap = job[w].snap
      BY <3>1, <3>9 DEF Job
    <3>3. job' = [job EXCEPT ![w] = n]
      BY <2>8 DEF Retries, Refused, At, Goto
    <3> HIDE DEF n
    <3> QED BY <3>1, <3>2, <3>3, <2>8 DEF Retries, Refused, At, Goto
  <2>9. CASE Degrades(w) BY <2>9 DEF Degrades, Refused, At, Goto
  <2>10. CASE Read(w)
    <3>1. CASE ~(job[w].op = "remove" /\ store[job[w].slug] = None)
      <4> DEFINE n == [job[w] EXCEPT !.snap = store]
      <4>1. job[w] \in Job
        BY <2>10, <3>1 DEF Read, Leave, At, Goto
      <4>2. n \in Job /\ n.locked = job[w].locked /\ n.seen = job[w].seen /\ n.snap = store
        BY <4>1, <2>10, <3>1 DEF Job, Read, Leave, At, Goto
      <4>3. job' = [job EXCEPT ![w] = n]
        BY <2>10, <3>1 DEF Read, Leave, At, Goto
      <4> HIDE DEF n
      <4> QED BY <4>1, <4>2, <4>3, <2>10, <3>1 DEF Read, Leave, At, Goto
    <3>2. CASE ~(~(job[w].op = "remove" /\ store[job[w].slug] = None))
      BY <2>10, <3>2 DEF Read, Leave, At, Goto
    <3> QED BY <3>1, <3>2
  <2>11. CASE Write(w)
    <3> DEFINE n == [job[w] EXCEPT !.snap = None]
    <3>1. job[w] \in Job
      BY <2>11 DEF Write, Leave, At, Goto
    <3>2. n \in Job /\ n.locked = job[w].locked /\ n.seen = job[w].seen
      BY <3>1, <2>11 DEF Job, Write, Leave, At, Goto
    <3>3. job' = [job EXCEPT ![w] = n]
      BY <2>11 DEF Write, Leave, At, Goto
    <3> HIDE DEF n
    <3>4. store' \in Map
      BY <3>1, <2>11 DEF Write, At, Map
    <3> QED BY <3>1, <3>2, <3>3, <3>4, <2>11 DEF Write, Leave, At, Goto
  <2>12. CASE Check(w)
    <3>1. CASE ~(lock # None /\ lock.by = w) /\ ~(job[w].failed \/ job[w].repair \/ job[w].op = "remove")
      <4> DEFINE n == [job[w] EXCEPT !.locked = FALSE]
      <4>1. job[w] \in Job
        BY <2>12, <3>1 DEF Check, Released, Finish, At, Goto
      <4>2. n \in Job /\ n.locked = FALSE /\ n.seen = job[w].seen /\ n.snap = job[w].snap
        BY <4>1, <2>12, <3>1 DEF Job, Check, Released, Finish, At, Goto
      <4>3. job' = [job EXCEPT ![w] = n]
        BY <2>12, <3>1 DEF Check, Released, Finish, At, Goto
      <4> HIDE DEF n
      <4> QED BY <4>1, <4>2, <4>3, <2>12, <3>1 DEF Check, Released, Finish, At, Goto
    <3>2. CASE ~(~(lock # None /\ lock.by = w) /\ ~(job[w].failed \/ job[w].repair \/ job[w].op = "remove"))
      BY <2>12, <3>2 DEF Check, Released, Finish, At, Goto
    <3> QED BY <3>1, <3>2
  <2>13. CASE Unlink(w)
    <3>1. CASE ~(job[w].failed \/ job[w].repair \/ job[w].op = "remove")
      <4> DEFINE n == [job[w] EXCEPT !.locked = FALSE]
      <4>1. job[w] \in Job
        BY <2>13, <3>1 DEF Unlink, Released, Finish, At, Goto
      <4>2. n \in Job /\ n.locked = FALSE /\ n.seen = job[w].seen /\ n.snap = job[w].snap
        BY <4>1, <2>13, <3>1 DEF Job, Unlink, Released, Finish, At, Goto
      <4>3. job' = [job EXCEPT ![w] = n]
        BY <2>13, <3>1 DEF Unlink, Released, Finish, At, Goto
      <4> HIDE DEF n
      <4> QED BY <4>1, <4>2, <4>3, <2>13, <3>1 DEF Unlink, Released, Finish, At, Goto
    <3>2. CASE ~(~(job[w].failed \/ job[w].repair \/ job[w].op = "remove"))
      BY <2>13, <3>2 DEF Unlink, Released, Finish, At, Goto
    <3> QED BY <3>1, <3>2
  <2>14. CASE Verify(w)
    <3>1. CASE ~(store[job[w].slug] = w \/ job[w].repair)
      <4> DEFINE n == [job[w] EXCEPT !.repair = TRUE, !.tries = 0, !.again = FALSE]
      <4>1. job[w] \in Job
        BY <2>14, <3>1 DEF Verify, Finish, At, Goto
      <4>2. n \in Job /\ n.locked = job[w].locked /\ n.seen = job[w].seen /\ n.snap = job[w].snap
        BY <4>1, 0 \in 0..Attempts DEF Job
      <4>3. job' = [job EXCEPT ![w] = n]
        BY <2>14, <3>1 DEF Verify, Finish, At, Goto
      <4> HIDE DEF n
      <4> QED BY <4>1, <4>2, <4>3, <2>14, <3>1 DEF Verify, Finish, At, Goto
    <3>2. CASE ~(~(store[job[w].slug] = w \/ job[w].repair))
      BY <2>14, <3>2 DEF Verify, Finish, At, Goto
    <3> QED BY <3>1, <3>2
  <2> QED
    BY <1>2, <2>1, <2>2, <2>3, <2>4, <2>5, <2>6, <2>7,
       <2>8, <2>9, <2>10, <2>11, <2>12, <2>13, <2>14 DEF Step
<1>3. ASSUME NEW w \in Writer, Fails(w) PROVE StoreInv'
  <2>1. CASE job[w].locked
    <3> DEFINE n == [job[w] EXCEPT !.failed = TRUE, !.snap = None]
    <3>1. job[w] \in Job
      BY <1>3, <2>1 DEF Fails, At, Goto
    <3>2. n \in Job /\ n.locked = TRUE
      BY <3>1, <2>1 DEF Job
    <3>3. job' = [job EXCEPT ![w] = n]
      BY <1>3, <2>1 DEF Fails, At, Goto
    <3> HIDE DEF n
    <3>4. /\ pc[w] \in {"read", "write"} /\ pc' = [pc EXCEPT ![w] = "check"]
          /\ UNCHANGED <<store, lock, disturbed>>
      BY <1>3, <2>1 DEF Fails, At, Goto
    <3>5. TypeOK' BY <3>2, <3>3, <3>4
    <3>6. JobInv' BY <3>1, <3>2, <3>3, <3>4, <2>1
    <3>7. SeenInv' BY <3>2, <3>3, <3>4
    <3>8. OwnerInv' BY <3>1, <3>2, <3>3, <3>4, <2>1
    <3>9. SnapInv' BY <3>2, <3>3, <3>4
    <3> QED BY <3>5, <3>6, <3>7, <3>8, <3>9
  <2>2. CASE ~job[w].locked
    BY <1>3, <2>2 DEF Fails, Finish, At, Goto
  <2> QED BY <2>1, <2>2
<1>4. ASSUME NEW w \in Writer, Crash(w) PROVE StoreInv'
  BY <1>4 DEF Crash, Goto
<1>5. CASE UNCHANGED vars BY <1>5 DEF vars
<1> QED BY <1>1, <1>2, <1>3, <1>4, <1>5 DEF Next

\* The lock has one owner and its critical section is atomic until somebody
\* writes without it or reclaims a lock that was not the one it examined.
THEOREM StoreInvariant == Spec => []StoreInv
  BY StoreInvInit, StoreInvStep, PTL DEF Spec

\* Every step of the store is an update of one slug, the disturbance, a write
\* after it, or changes neither: only Write changes the file, only Reclaim and
\* Degrades disturb, and a write that is undisturbed is made under the lock
\* from what the file still holds.
THEOREM Implements == Spec => MappingSpec
<1>1. Init => Mapping!Init
  BY DEF Init, Mapping!Init, Map
<1>2. StoreInv /\ [Next]_vars => [Mapping!Next]_<<store, disturbed>>
  <2> SUFFICES ASSUME StoreInv, [Next]_vars, ~UNCHANGED <<store, disturbed>>
               PROVE  Mapping!Next
    OBVIOUS
  <2>1. PICK w \in Writer : Reclaim(w) \/ Degrades(w) \/ Write(w)
    BY DEF Next, vars, Step, Start, Create, Stamp, Exists, Peek, Recheck, Throws,
       Retries, Read, Check, Unlink, Verify, Fails, Crash
  <2>2. CASE Reclaim(w)
    <3>1. disturbed' = TRUE /\ UNCHANGED store
      BY <2>2 DEF Reclaim, StoreInv, TypeOK
    <3> QED BY <3>1 DEF Mapping!Next, Mapping!Disturb
  <2>3. CASE Degrades(w)
    BY <2>3 DEF Degrades, Mapping!Next, Mapping!Disturb
  <2>4. CASE Write(w)
    <3> DEFINE v == IF job[w].op = "publish" THEN w ELSE None
    <3>1. /\ store' = [job[w].snap EXCEPT ![job[w].slug] = v]
          /\ UNCHANGED disturbed
      BY <2>4 DEF Write
    <3>2. /\ job[w] \in Job /\ job[w].slug \in Slug
          /\ job[w].snap \in Map /\ v \in Writer \cup {None}
      BY <2>4, Facts DEF Write, At, StoreInv, TypeOK, JobInv
    <3>3. CASE disturbed
      <4>1. store' \in Map
        BY <3>1, <3>2 DEF Map
      <4> QED BY <3>1, <3>3, <4>1 DEF Mapping!Next, Mapping!Scramble, Map
    <3>4. CASE ~disturbed
      <4>1. job[w].snap = store
        BY <2>4, <3>2, <3>4, Facts
           DEF Write, At, StoreInv, JobInv, SnapInv, Locked, Guarded
      <4> QED BY <3>1, <3>2, <4>1 DEF Mapping!Next, Mapping!Update
    <3> QED BY <3>3, <3>4
  <2> QED BY <2>1, <2>2, <2>3, <2>4
<1> QED
  BY <1>1, <1>2, StoreInvariant, PTL DEF Spec, MappingSpec, Mapping!Spec

-----------------------------------------------------------------------------
(* The credential proxy.  ProxyInv is not inductive: that nobody is served *)
(* after the revocation needs that the listener never opens again, that an *)
(* answer begins only at the provider's headers, and that what was being   *)
(* fetched was on record when it was revoked; the bound on requestCount    *)
(* needs the requests that it counted.                                     *)

USE RequestAssumption, CapAssumption

\* The requests whose 'end' callback has come.
Counted == {r \in Request : request[r].at \in {"fetch", "relay", "blocked", "over"}}

RequestState == [at : RequestAt, received : 0..(MaxBody + 1), overflow : BOOLEAN,
                 connected : BOOLEAN, sent : Status, relayed : 0..MaxResponse]

Shaped == request \in [Request -> RequestState]

Typed ==
  /\ requestCount \in Nat /\ requestTimes \in 0..MaxRate
  /\ listening \in {"open", "closing", "closed"}
  /\ activeFetches \subseteq Request /\ aborted \subseteq Request /\ calls \subseteq Request

CountIsCovered == requestCount <= Cardinality(Counted)

AnswersBeginAtHeaders ==
  \A r \in Request : request[r].at \in {"none", "body", "ended", "fetch"} => request[r].sent # 200

RevokedIsClosing == revoked => listening # "open"

ProxyIInv ==
  /\ Shaped /\ Typed /\ CountIsCovered /\ FetchIsOnRecord
  /\ AnswersBeginAtHeaders /\ RevokedIsClosing /\ RevokedServesNobody

\* The start of the proxy: no request has come.
LEMMA ProxyIInvInit == ProxyInit => ProxyIInv
<1> SUFFICES ASSUME ProxyInit PROVE ProxyIInv
  OBVIOUS
<1>1. Counted = {}
  BY DEF ProxyInit, Counted, NoRequest
<1>2. CountIsCovered
  BY <1>1, FS_EmptySet DEF CountIsCovered, ProxyInit
<1>3. Shaped
  BY DEF ProxyInit, Shaped, RequestState, NoRequest, RequestAt, Status
<1>4. Typed
  BY DEF ProxyInit, Typed
<1> QED
  BY <1>2, <1>3, <1>4 DEF ProxyIInv, ProxyInit, NoRequest, FetchIsOnRecord, AnswersBeginAtHeaders,
     RevokedIsClosing, RevokedServesNobody

\* A request that is counted stays counted, so as long as the counter does not
\* move it stays covered.
LEMMA StaysCovered ==
  ASSUME Typed, CountIsCovered, requestCount' = requestCount, Counted \subseteq Counted',
         Counted' \subseteq Request
  PROVE  CountIsCovered'
<1>1. IsFiniteSet(Counted') /\ IsFiniteSet(Counted)
  BY FS_Subset DEF Counted
<1>2. Cardinality(Counted) <= Cardinality(Counted') /\ Cardinality(Counted) \in Nat /\ Cardinality(Counted') \in Nat
  BY <1>1, FS_Subset, FS_CardinalityType
<1> QED
  BY <1>2 DEF CountIsCovered, Typed

\* The counter moves with one request, which was not counted before.
LEMMA CountsOnce ==
  ASSUME Typed, CountIsCovered, NEW r \in Request, r \notin Counted,
         requestCount' = requestCount + 1, Counted' = Counted \cup {r}
  PROVE  CountIsCovered'
<1>1. IsFiniteSet(Counted)
  BY FS_Subset DEF Counted
<1>2. Cardinality(Counted') = Cardinality(Counted) + 1 /\ Cardinality(Counted) \in Nat
  BY <1>1, FS_AddElement, FS_CardinalityType
<1> QED
  BY <1>2 DEF CountIsCovered, Typed

\* A reply ends a request and leaves its other fields.
LEMMA RepliesAreTyped ==
  ASSUME NEW q \in RequestState, NEW status \in Status
  PROVE  /\ Replies(q, status) \in RequestState
         /\ Replies(q, status).at = "over"
         /\ Replies(q, status).connected = q.connected
<1> DEFINE sent == IF q.sent = 0 /\ q.connected THEN status ELSE q.sent
<1>1. Replies(q, status) = [q EXCEPT !.at = "over", !.sent = sent]
  BY DEF Replies, RequestState
<1>2. "over" \in RequestAt /\ sent \in Status
  BY DEF RequestAt, RequestState
<1> HIDE DEF sent
<1> QED
  BY <1>1, <1>2 DEF RequestState

\* One request's step keeps the shape of all.
LEMMA OneRequestMoves ==
  ASSUME Shaped, NEW r \in Request, NEW q \in RequestState, request' = [request EXCEPT ![r] = q]
  PROVE  Shaped'
  BY DEF Shaped

\* Every callback, the passing of time and the revocation keep the requests' shape.
LEMMA ShapedStep == ASSUME Shaped, Typed, [ProxyNext]_proxyVars PROVE Shaped'
<1> USE DEF RequestIs, Caps, Life, Upstream, Answer
<1>0. /\ {0, 200, 400, 401, 403, 404, 405, 408, 413, 429, 502} \subseteq Status
      /\ {"none", "body", "ended", "fetch", "relay", "blocked", "over"} \subseteq RequestAt
  BY DEF Status, RequestAt
<1>00. \A r \in Request : request[r] \in RequestState
  BY DEF Shaped
<1>1. ASSUME NEW r \in Request, Arrive(r) PROVE Shaped'
  <2>1. NoRequest \in RequestState
    BY DEF NoRequest, RequestState, RequestAt, Status
  <2>2. Came \in RequestState
    BY <2>1 DEF Came, RequestState
  <2>20. [Came EXCEPT !.at = "body"] \in RequestState
    BY <2>2, <1>0 DEF RequestState
  <2>3. \A status \in Status : Replies(Came, status) \in RequestState
    BY <2>2, RepliesAreTyped
  <2>4. \/ \E status \in Status : request' = [request EXCEPT ![r] = Replies(Came, status)]
        \/ request' = [request EXCEPT ![r] = [Came EXCEPT !.at = "body"]]
    BY <1>1, <1>0 DEF Arrive, TurnedAway
  <2> QED
    BY <2>20, <2>3, <2>4, OneRequestMoves
<1>2. ASSUME NEW r \in Request, BodyData(r) PROVE Shaped'
  <2> DEFINE received == request[r].received + 1
             overflow == request[r].received >= MaxBody
             sent == IF overflow /\ request[r].sent = 0 THEN 413 ELSE request[r].sent
  <2>1. received \in 0..(MaxBody + 1) /\ sent \in Status
    BY <1>0, <1>00, <1>2 DEF BodyData, RequestState
  <2>2. overflow \in BOOLEAN
    OBVIOUS
  <2>3. request' = [request EXCEPT ![r] = [@ EXCEPT !.received = received, !.overflow = overflow, !.sent = sent]]
    BY <1>2 DEF BodyData, Shaped, RequestState
  <2> HIDE DEF received, overflow, sent
  <2> QED
    BY <2>1, <2>2, <2>3, <1>00 DEF Shaped, RequestState
<1>3. ASSUME NEW r \in Request, EndCallback(r) PROVE Shaped'
  BY <1>3, <1>0, <1>00, RepliesAreTyped DEF EndCallback, StartsCall, RequestState, Shaped
<1>4. ASSUME NEW r \in Request, BodyEnds(r) \/ BodyFails(r) \/ FetchFails(r) \/ UpstreamEnds(r) PROVE Shaped'
  BY <1>4, <1>0, <1>00, RepliesAreTyped DEF BodyEnds, BodyFails, FetchFails, UpstreamEnds, RequestState, Shaped
<1>5. ASSUME NEW r \in Request, UpstreamHeaders(r) \/ ClientReady(r) PROVE Shaped'
  BY <1>5, <1>0, <1>00, RepliesAreTyped DEF UpstreamHeaders, ClientReady, RequestState, Shaped
<1>6. ASSUME NEW r \in Request, RelayData(r) PROVE Shaped'
  BY <1>6, <1>0, <1>00, RepliesAreTyped DEF RelayData, RequestState, Shaped
<1>7. ASSUME NEW r \in Request, CallEnds(r) \/ AbortTakesEffect(r) PROVE Shaped'
  BY <1>7 DEF CallEnds, AbortTakesEffect, Shaped
<1> DEFINE at(r) == IF request[r].at = "body" THEN "over" ELSE request[r].at
           cut(r) == [request[r] EXCEPT !.connected = FALSE, !.at = at(r)]
<1>8. \A r \in Request : cut(r) \in RequestState
  <2>1. \A r \in Request : at(r) \in RequestAt
    BY <1>0, <1>00 DEF RequestState
  <2> HIDE DEF at
  <2> QED
    BY <2>1, <1>00 DEF RequestState
<1>9. ASSUME NEW r \in Request, ClientLeaves(r) PROVE Shaped'
  <2>1. request' = [request EXCEPT ![r] = cut(r)]
    BY <1>9, <1>00 DEF ClientLeaves, Shaped, RequestState
  <2> QED
    BY <2>1, <1>8, OneRequestMoves
<1>10. CASE Revoke
  <2>1. request' = [r \in Request |-> cut(r)]
    BY <1>10 DEF Revoke
  <2> HIDE DEF cut
  <2> QED
    BY <2>1, <1>8 DEF Shaped
<1>11. CASE WindowMoves \/ Expire \/ Closed \/ UNCHANGED proxyVars
  BY <1>11 DEF WindowMoves, Expire, Closed, proxyVars, Shaped
<1> QED
  BY <1>1, <1>2, <1>3, <1>4, <1>5, <1>6, <1>7, <1>9, <1>10, <1>11 DEF ProxyNext, Handle

\* Every callback, the passing of time and the revocation keep all of it
\* (createServer's callback, forward, forwardBridged and revoke).
LEMMA ProxyIInvStep == ProxyIInv /\ [ProxyNext]_proxyVars => ProxyIInv'
<1> SUFFICES ASSUME ProxyIInv, [ProxyNext]_proxyVars PROVE ProxyIInv'
  OBVIOUS
<1> DEFINE Rest == /\ Typed' /\ FetchIsOnRecord' /\ AnswersBeginAtHeaders'
                   /\ RevokedIsClosing' /\ RevokedServesNobody'
           Same == requestCount' = requestCount /\ Counted \subseteq Counted' /\ Counted' \subseteq Request
<1>a. Shaped'
  BY ShapedStep DEF ProxyIInv
<1>b. Rest /\ Same => ProxyIInv'
  BY StaysCovered, <1>a DEF ProxyIInv
<1> USE DEF ProxyIInv, Typed, FetchIsOnRecord, AnswersBeginAtHeaders, RevokedIsClosing,
            RevokedServesNobody, RequestIs, Caps, Life, Upstream, Replies, Answer, Forgets, Counted, Shaped
<1>1. ASSUME NEW r \in Request, Arrive(r) PROVE Rest /\ Same
  <2>1. /\ request[r].at = "none" /\ listening = "open" /\ ~revoked
        /\ UNCHANGED <<requestCount, Life, Upstream>>
    BY <1>1 DEF Arrive
  <2>2. \/ \E status \in {400, 401, 404, 405, 408, 429} : TurnedAway(r, status)
        \/ request' = [request EXCEPT ![r] = [Came EXCEPT !.at = "body"]]
    BY <1>1 DEF Arrive
  <2>3. requestTimes' \in 0..MaxRate
    BY <1>1 DEF Arrive
  <2>4. /\ request'[r].at \in {"body", "over"} /\ request'[r].sent # 200
        /\ \A x \in Request \ {r} : request'[x] = request[x]
    <3>1. CASE \E status \in {400, 401, 404, 405, 408, 429} : TurnedAway(r, status)
      BY <3>1 DEF TurnedAway, Came, NoRequest
    <3>2. CASE request' = [request EXCEPT ![r] = [Came EXCEPT !.at = "body"]]
      BY <3>2 DEF Came, NoRequest
    <3> QED
      BY <2>2, <3>1, <3>2
  <2> QED
    BY <2>1, <2>3, <2>4
<1>2. ASSUME NEW r \in Request, BodyData(r) \/ BodyEnds(r) \/ BodyFails(r) PROVE Rest /\ Same
  <2>1. CASE BodyData(r) BY <2>1 DEF BodyData
  <2>2. CASE BodyEnds(r) BY <2>2 DEF BodyEnds
  <2>3. CASE BodyFails(r) BY <2>3 DEF BodyFails
  <2> QED BY <1>2, <2>1, <2>2, <2>3
<1>3. ASSUME NEW r \in Request, EndCallback(r) PROVE ProxyIInv'
  <2>1. /\ request[r].at = "ended" /\ UNCHANGED <<requestTimes, Life>>
        /\ \/ /\ \/ request' = [request EXCEPT ![r].at = "over"]
                 \/ Answer(r, 403) \/ Answer(r, 400)
              /\ UNCHANGED Upstream /\ requestCount' \in {requestCount, requestCount + 1}
           \/ StartsCall(r) /\ requestCount' = requestCount + 1
    BY <1>3 DEF EndCallback
  <2>2. /\ \A x \in Request \ {r} : request'[x] = request[x]
        /\ \/ request'[r].at = "over" /\ UNCHANGED Upstream
           \/ /\ request'[r].at = "fetch" /\ request'[r].sent # 200
              /\ activeFetches' = activeFetches \cup {r} /\ calls' = calls \cup {r} /\ aborted' = aborted
        /\ request'[r].connected = request[r].connected
        /\ r \notin Counted /\ Counted' = Counted \cup {r}
    <3>1. CASE StartsCall(r)
      BY <2>1, <3>1 DEF StartsCall
    <3>2. ASSUME UNCHANGED Upstream, NEW status \in {400, 403}, Answer(r, status)
          PROVE  <2>2!:
      BY <2>1, <3>2
    <3>3. CASE UNCHANGED Upstream /\ request' = [request EXCEPT ![r].at = "over"]
      BY <2>1, <3>3
    <3> QED
      BY <2>1, <3>1, <3>2, <3>3
  <2>3. requestCount' = requestCount \/ requestCount' = requestCount + 1
    BY <2>1
  <2>4. Rest
    BY <2>1, <2>2, <2>3
  <2>5. CountIsCovered'
    BY <2>2, <2>3, CountsOnce, StaysCovered
  <2> QED
    BY <2>4, <2>5, <1>a
<1>4. ASSUME NEW r \in Request, FetchFails(r) PROVE Rest /\ Same
  BY <1>4 DEF FetchFails
<1>5. ASSUME NEW r \in Request, UpstreamHeaders(r) PROVE Rest /\ Same
  <2>1. CASE Answer(r, 502) /\ Forgets(r) /\ UNCHANGED <<calls, aborted>>
    BY <1>5, <2>1 DEF UpstreamHeaders
  <2>2. CASE /\ request' = [request EXCEPT ![r].at = "relay",
                              ![r].sent = IF ~bridged /\ request[r].connected THEN 200 ELSE @]
             /\ UNCHANGED Upstream
    BY <1>5, <2>2 DEF UpstreamHeaders
  <2> QED
    BY <1>5, <2>1, <2>2 DEF UpstreamHeaders
<1>6. ASSUME NEW r \in Request, RelayData(r) PROVE Rest /\ Same
  <2>1. CASE request[r].relayed >= MaxResponse
    <3>1. /\ aborted' = aborted \cup {r} /\ calls' = calls \ {r} /\ Forgets(r)
          /\ UNCHANGED <<Caps, Life>>
      BY <1>6, <2>1 DEF RelayData
    <3>2. Answer(r, 502) \/ request' = [request EXCEPT ![r].at = "over", ![r].connected = FALSE]
      BY <1>6, <2>1 DEF RelayData
    <3>3. /\ request[r].at = "relay" /\ request'[r].at = "over"
          /\ request'[r].connected => request[r].connected
          /\ \A x \in Request \ {r} : request'[x] = request[x]
      <4>1. request[r].at = "relay"
        BY <1>6 DEF RelayData
      <4>2. CASE Answer(r, 502)
        BY <4>1, <4>2
      <4>3. CASE request' = [request EXCEPT ![r].at = "over", ![r].connected = FALSE]
        BY <4>1, <4>3
      <4> QED
        BY <3>2, <4>2, <4>3
    <3> QED
      BY <3>1, <3>3
  <2>2. CASE ~(request[r].relayed >= MaxResponse)
    <3>1. /\ \E at \in {"relay", "blocked"} :
               request' = [request EXCEPT ![r].relayed = @ + 1, ![r].at = at]
          /\ request[r].at = "relay" /\ UNCHANGED <<Upstream, Caps, Life>>
      BY <1>6, <2>2 DEF RelayData
    <3> QED
      BY <3>1
  <2> QED
    BY <2>1, <2>2
<1>7. ASSUME NEW r \in Request, ClientReady(r) \/ UpstreamEnds(r) PROVE Rest /\ Same
  <2>1. CASE ClientReady(r) BY <2>1 DEF ClientReady
  <2>2. CASE UpstreamEnds(r) BY <2>2 DEF UpstreamEnds
  <2> QED BY <1>7, <2>1, <2>2
<1>8. ASSUME NEW r \in Request, CallEnds(r) \/ AbortTakesEffect(r) PROVE Rest /\ Same
  BY <1>8 DEF CallEnds, AbortTakesEffect
<1>9. ASSUME NEW r \in Request, ClientLeaves(r) PROVE Rest /\ Same
  BY <1>9 DEF ClientLeaves
<1>10. CASE WindowMoves \/ Expire \/ Closed \/ UNCHANGED proxyVars
  <2>1. Rest /\ Same
    BY <1>10 DEF WindowMoves, Expire, Closed, proxyVars
  <2> QED
    BY <2>1, <1>b
<1>11. CASE Revoke
  <2>1. /\ revoked' = TRUE /\ listening' = "closing" /\ aborted' = aborted \cup activeFetches
        /\ UNCHANGED <<activeFetches, calls, Caps>>
    BY <1>11 DEF Revoke
  <2>2. \A r \in Request :
          /\ ~request'[r].connected /\ request'[r].sent = request[r].sent
          /\ request'[r].at = IF request[r].at = "body" THEN "over" ELSE request[r].at
    BY <1>11 DEF Revoke, RequestState
  <2>3. Rest /\ Same
    BY <2>1, <2>2
  <2> QED
    BY <2>3, <1>b
<1> HIDE DEF Rest, Same, ProxyIInv
<1> QED
  BY <1>b, <1>1, <1>2, <1>3, <1>4, <1>5, <1>6, <1>7, <1>8, <1>9, <1>10, <1>11 DEF ProxyNext, Handle

\* The counter is within the requests there are.
LEMMA ProxyIInvImplies == ProxyIInv => ProxyInv
<1> SUFFICES ASSUME ProxyIInv PROVE ProxyInv
  OBVIOUS
<1>1. Counted \subseteq Request
  BY DEF Counted
<1>2. /\ Cardinality(Counted) \in Nat /\ Cardinality(Request) \in Nat
      /\ Cardinality(Counted) <= Cardinality(Request)
  BY <1>1, FS_Subset, FS_CardinalityType
<1>3. requestCount \in 0..Cardinality(Request)
  BY <1>2 DEF ProxyIInv, CountIsCovered, Typed
<1> QED
  BY <1>3 DEF ProxyIInv, ProxyInv, ProxyTypeOK, Typed, Shaped, RequestState

\* Whatever is being fetched can be aborted, and after the revocation no client
\* is connected and no answer is relayed but on a call that was aborted: for any
\* number of requests, at any point of any of them.
THEOREM ProxyIsSafe == ProxySpec => []ProxyInv
<1>1. ProxySpec => []ProxyIInv
  BY ProxyIInvInit, ProxyIInvStep, PTL DEF ProxySpec
<1> QED
  BY <1>1, ProxyIInvImplies, PTL
=============================================================================

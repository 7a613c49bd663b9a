-------------------------- MODULE CorrelationProof --------------------------
(***************************************************************************)
(* Proofs about Correlation: whatever is recorded while a call runs, and   *)
(* for any window, an entity's samples are its latest returns, those of    *)
(* two entities are paired in step, and the test of their correlation,     *)
(* computed from deviations, is the one by moves; for any returns.         *)
(***************************************************************************)
EXTENDS Correlation, CausalGraphProof

Sample == [at : Nat, ret : Return]

(* s holds the latest of n returns.                                        *)
IsWindow(s, n) ==
  /\ s \in Seq(Sample)
  /\ Len(s) = (IF n < Window THEN n ELSE Window)
  /\ \A i \in DOMAIN s : s[i].at = n - Len(s) + i

Windows ==
  /\ recorded \in [Entity -> Nat]
  /\ DOMAIN samples = Entity
  /\ \A e \in Entity : /\ IsWindow(samples[e], recorded[e])
                       /\ Len(samples[e]) = return_samples[e]

(* What a call copied was a window then, and time has only gone on.        *)
Copies ==
  /\ at_copy \in [Caller -> [Entity -> Nat]]
  /\ DOMAIN src_samples = Caller
  /\ \A c \in Caller :
       /\ \A e \in Entity : at_copy[c][e] <= recorded[e]
       /\ pc[c] = "correlate" => IsWindow(src_samples[c], at_copy[c][src[c]])
       /\ pc[c] = "idle" => candidates[c] = {}

-----------------------------------------------------------------------------
(* The samples only decide what CausalGraph leaves open.                   *)
LEMMA SamplesOnlyDecide == [RNext]_rvars => [Next]_vars
<1> SUFFICES ASSUME [RNext]_rvars PROVE [Next]_vars
  OBVIOUS
<1>1. CASE \E e \in Entity : Tag(e) \/ Record(e)
  BY <1>1 DEF Tag, Record, Next
<1>2. CASE \E c \in Caller : \/ \E e \in Entity : CopySource(c, e) \/ Correlate(c, e)
                             \/ Finish(c)
  BY <1>2 DEF CopySource, Correlate, Finish, Next, Materialize, ReadCandidate
<1>3. CASE UNCHANGED rvars
  BY <1>3 DEF rvars
<1>4. QED
  BY <1>1, <1>2, <1>3 DEF RNext

(* Correlating the recorded returns implements the graph in which every    *)
(* correlation may come out either way: what is proved of CausalGraph      *)
(* holds of the links the statistics find.                                 *)
THEOREM StatisticsImplementGraph == RSpec => Spec
<1>1. RInit => Init
  BY DEF RInit
<1>2. QED
  BY <1>1, SamplesOnlyDecide, PTL DEF RSpec, Spec

-----------------------------------------------------------------------------
(* push and remove(0) keep the latest returns.                             *)
LEMMA KeptIsWindow ==
  ASSUME NEW s, NEW n \in Nat, IsWindow(s, n), NEW x \in Sample, x.at = n + 1
  PROVE  /\ IsWindow(Kept(s, x), n + 1)
         /\ Len(Kept(s, x)) = Rolled(Len(s))
<1> DEFINE t == Append(s, x)
<1>1. /\ s \in Seq(Sample)
      /\ Len(s) \in Nat
      /\ Len(s) = (IF n < Window THEN n ELSE Window)
      /\ Window \in Nat /\ 0 < Window
  BY GraphConstants DEF IsWindow
<1>2. /\ t \in Seq(Sample)
      /\ Len(t) = Len(s) + 1
      /\ t[Len(s) + 1] = x
      /\ \A i \in 1..Len(s) : t[i] = s[i]
  BY <1>1
<1>3. \A i \in 1..Len(t) : t[i].at = n - Len(s) + i
  <2>1. \A i \in 1..Len(s) : s[i].at = n - Len(s) + i
    BY <1>1 DEF IsWindow
  <2>2. ASSUME NEW i \in 1..Len(t) PROVE t[i].at = n - Len(s) + i
    <3>1. CASE i \in 1..Len(s)
      BY <3>1, <1>2, <2>1
    <3>2. CASE i = Len(s) + 1
      BY <3>2, <1>1, <1>2
    <3>3. QED
      BY <3>1, <3>2, <1>1, <1>2
  <2>3. QED
    BY <2>2
<1> HIDE DEF t
<1>4. CASE Len(s) + 1 > Window
  <2>1. Kept(s, x) = Tail(t)
    BY <1>4 DEF Kept, t
  <2>2. /\ Tail(t) \in Seq(Sample)
        /\ Len(Tail(t)) = Len(s)
        /\ \A i \in 1..Len(s) : Tail(t)[i] = t[i + 1]
    BY <1>1, <1>2
  <2>3. Len(s) = Window /\ n >= Window
    BY <1>1, <1>4
  <2>4. \A i \in DOMAIN Tail(t) : Tail(t)[i].at = n + 1 - Len(Tail(t)) + i
    <3>1. ASSUME NEW i \in DOMAIN Tail(t)
          PROVE  Tail(t)[i].at = n + 1 - Len(Tail(t)) + i
      <4>1. i \in 1..Len(s) /\ i + 1 \in 1..Len(t)
        BY <1>1, <1>2, <2>2
      <4>2. t[i + 1].at = n - Len(s) + (i + 1)
        BY <1>3, <4>1
      <4>3. Tail(t)[i].at = n - Len(s) + (i + 1)
        BY <2>2, <4>1, <4>2
      <4>4. i \in Nat /\ n - Len(s) + (i + 1) = n + 1 - Len(s) + i
        BY <1>1, <4>1
      <4>5. QED
        BY <2>2, <4>3, <4>4
    <3>2. QED
      BY <3>1
  <2>5. QED
    BY <1>1, <1>4, <2>1, <2>2, <2>3, <2>4 DEF IsWindow, Rolled
<1>5. CASE ~(Len(s) + 1 > Window)
  <2>1. Kept(s, x) = t
    BY <1>5 DEF Kept, t
  <2>2. Len(s) = n /\ n + 1 <= Window
    BY <1>1, <1>5
  <2>3. \A i \in DOMAIN t : t[i].at = n + 1 - Len(t) + i
    <3>1. DOMAIN t = 1..Len(t)
      BY <1>2
    <3>2. n - Len(s) = n + 1 - Len(t)
      BY <1>1, <1>2
    <3>3. QED
      BY <1>3, <3>1, <3>2
  <2>4. QED
    BY <1>1, <1>2, <1>5, <2>1, <2>2, <2>3 DEF IsWindow, Rolled
<1>6. QED
  BY <1>4, <1>5

LEMMA EmptyWindow == IsWindow(<<>>, 0)
  BY GraphConstants DEF IsWindow

LEMMA WindowsInit == RInit => Windows
  BY EmptyWindow DEF RInit, Init, Windows

LEMMA WindowsStep == GroundInv /\ Windows /\ [RNext]_rvars => Windows'
<1> SUFFICES ASSUME GroundInv, Windows, [RNext]_rvars
             PROVE  Windows'
  OBVIOUS
<1>1. return_samples \in [Entity -> 0..Window]
  BY DEF GroundInv, TypesKept, Counted
<1>2. ASSUME NEW e \in Entity, Record(e) PROVE Windows'
  <2>1. PICK ret \in Return :
          samples' = [samples EXCEPT ![e] = Kept(@, [at |-> recorded'[e], ret |-> ret])]
    BY <1>2 DEF Record
  <2>2. recorded' = [recorded EXCEPT ![e] = @ + 1]
    BY <1>2 DEF Record
  <2>3. return_samples' = [return_samples EXCEPT ![e] = Rolled(@)]
    BY <1>2 DEF Record, RecordReturn
  <2> DEFINE x == [at |-> recorded[e] + 1, ret |-> ret]
  <2>4. /\ recorded \in [Entity -> Nat] /\ recorded[e] \in Nat
        /\ DOMAIN samples = Entity
        /\ IsWindow(samples[e], recorded[e])
        /\ Len(samples[e]) = return_samples[e]
    BY DEF Windows
  <2>5. /\ recorded' \in [Entity -> Nat]
        /\ recorded'[e] = recorded[e] + 1
    BY <2>2, <2>4
  <2>6. x \in Sample /\ x.at = recorded[e] + 1
    BY <2>4 DEF Sample
  <2>7. samples'[e] = Kept(samples[e], x) /\ DOMAIN samples' = Entity
    BY <2>1, <2>4, <2>5
  <2>8. return_samples'[e] = Rolled(return_samples[e])
    BY <1>1, <2>3
  <2> HIDE DEF x
  <2>9. /\ IsWindow(Kept(samples[e], x), recorded[e] + 1)
        /\ Len(Kept(samples[e], x)) = Rolled(Len(samples[e]))
    BY <2>4, <2>6, KeptIsWindow
  <2>10. /\ IsWindow(samples'[e], recorded'[e])
         /\ Len(samples'[e]) = return_samples'[e]
    BY <2>4, <2>5, <2>7, <2>8, <2>9
  <2>11. ASSUME NEW d \in Entity, d # e
         PROVE  /\ samples'[d] = samples[d]
                /\ recorded'[d] = recorded[d]
                /\ return_samples'[d] = return_samples[d]
    BY <1>1, <2>1, <2>2, <2>3, <2>4, <2>11
  <2>12. ASSUME NEW d \in Entity
         PROVE  /\ IsWindow(samples'[d], recorded'[d])
                /\ Len(samples'[d]) = return_samples'[d]
    <3>1. CASE d = e
      BY <3>1, <2>10
    <3>2. CASE d # e
      BY <3>2, <2>11 DEF Windows
    <3>3. QED
      BY <3>1, <3>2
  <2>13. QED
    BY <2>5, <2>7, <2>12 DEF Windows, IsWindow
<1>3. CASE UNCHANGED <<samples, recorded, return_samples>>
  BY <1>3 DEF Windows, IsWindow
<1>4. ASSUME NEW e \in Entity, Tag(e)
      PROVE  UNCHANGED <<samples, recorded, return_samples>>
  BY <1>4 DEF Tag, TagEntity, sampleVars
<1>5. ASSUME NEW c \in Caller, NEW e \in Entity, CopySource(c, e) \/ Correlate(c, e)
      PROVE  UNCHANGED <<samples, recorded, return_samples>>
  BY <1>5 DEF CopySource, ReadSource, Correlate, LinkCandidate, SkipCandidate,
              graphVars, sampleVars
<1>6. ASSUME NEW c \in Caller, Finish(c)
      PROVE  UNCHANGED <<samples, recorded, return_samples>>
  BY <1>6 DEF Finish, WriteLinks, FindNothing, graphVars
<1>7. UNCHANGED rvars => UNCHANGED <<samples, recorded, return_samples>>
  BY DEF rvars, vars, graphVars, sampleVars
<1>8. QED
  BY <1>2, <1>3, <1>4, <1>5, <1>6, <1>7 DEF RNext

(* The samples an entity is correlated by are its latest returns, none     *)
(* missing and in order, however often its window rolled, and they are as  *)
(* many as the graph counts when it asks for MIN_HISTORY of them.          *)
THEOREM SamplesAreLatest == RSpec => []WindowIsLatest
<1>1. Windows => WindowIsLatest
  BY DEF Windows, WindowIsLatest, IsWindow
<1>2. RInit => Init
  BY DEF RInit
<1>3. QED
  BY <1>1, <1>2, WindowsInit, WindowsStep, GroundInit, GroundStep,
     SamplesOnlyDecide, PTL DEF RSpec

-----------------------------------------------------------------------------
(* What a call copied.                                                     *)

LEMMA CopiesInit == RInit => Copies
  BY DEF RInit, Init, Copies

(* Nothing is copied and nobody moves: returns may be recorded.            *)
LEMMA CopiesStay ==
  ASSUME Copies, UNCHANGED <<src_samples, at_copy, pc, src, candidates>>,
         Windows, \A e \in Entity : recorded'[e] \in Nat /\ recorded[e] <= recorded'[e]
  PROVE  Copies'
<1>1. ASSUME NEW c \in Caller, NEW e \in Entity PROVE at_copy'[c][e] <= recorded'[e]
  <2>1. at_copy[c][e] \in Nat /\ recorded[e] \in Nat /\ at_copy[c][e] <= recorded[e]
    BY DEF Copies, Windows
  <2>2. recorded'[e] \in Nat /\ recorded[e] <= recorded'[e]
    OBVIOUS
  <2>3. QED
    BY <2>1, <2>2
<1>2. QED
  BY <1>1 DEF Copies, IsWindow

LEMMA CopiesStep == GroundInv /\ Windows /\ Copies /\ [RNext]_rvars => Copies'
<1> SUFFICES ASSUME GroundInv, Windows, Copies, [RNext]_rvars
             PROVE  Copies'
  OBVIOUS
<1>1. /\ pc \in [Caller -> {"idle", "correlate"}]
      /\ src \in [Caller -> Entity \cup {NoEntity}]
      /\ candidates \in [Caller -> SUBSET Entity]
  BY DEF GroundInv, TypesKept, Called
<1>2. /\ at_copy \in [Caller -> [Entity -> Nat]]
      /\ DOMAIN src_samples = Caller
      /\ recorded \in [Entity -> Nat]
  BY DEF Copies, Windows
<1>3. ASSUME NEW e \in Entity, Tag(e) PROVE Copies'
  <2>1. UNCHANGED <<src_samples, at_copy, pc, src, candidates, recorded>>
    BY <1>3 DEF Tag, TagEntity, callVars, sampleVars
  <2>2. QED
    BY <1>2, <2>1, CopiesStay
<1>4. ASSUME NEW e \in Entity, Record(e) PROVE Copies'
  <2>1. UNCHANGED <<src_samples, at_copy, pc, src, candidates>>
    BY <1>4 DEF Record, RecordReturn, callVars
  <2>2. recorded' = [recorded EXCEPT ![e] = @ + 1]
    BY <1>4 DEF Record
  <2>3. QED
    BY <1>2, <2>1, <2>2, CopiesStay
<1>5. ASSUME NEW c \in Caller, NEW e \in Entity, CopySource(c, e) PROVE Copies'
  <2>1. /\ pc' = [pc EXCEPT ![c] = "correlate"]
        /\ src' = [src EXCEPT ![c] = e]
        /\ candidates' = [candidates EXCEPT ![c] = Sharing(e)]
    BY <1>5 DEF CopySource, ReadSource
  <2>2. /\ src_samples' = [src_samples EXCEPT ![c] = samples[e]]
        /\ at_copy' = [at_copy EXCEPT ![c] = recorded]
        /\ recorded' = recorded
    BY <1>5 DEF CopySource
  <2>3. /\ pc'[c] = "correlate" /\ src'[c] = e
        /\ src_samples'[c] = samples[e] /\ at_copy'[c] = recorded
    BY <1>1, <1>2, <2>1, <2>2
  <2>4. /\ at_copy' \in [Caller -> [Entity -> Nat]]
        /\ DOMAIN src_samples' = Caller
    BY <1>2, <2>2
  <2>5. IsWindow(src_samples'[c], at_copy'[c][src'[c]])
    BY <2>3 DEF Windows
  <2>6. ASSUME NEW d \in Caller, d # c
        PROVE  /\ pc'[d] = pc[d] /\ src'[d] = src[d]
               /\ candidates'[d] = candidates[d]
               /\ src_samples'[d] = src_samples[d] /\ at_copy'[d] = at_copy[d]
    BY <1>1, <1>2, <2>1, <2>2, <2>6
  <2>7. ASSUME NEW d \in Caller
        PROVE  /\ \A b \in Entity : at_copy'[d][b] <= recorded'[b]
               /\ pc'[d] = "correlate" =>
                    IsWindow(src_samples'[d], at_copy'[d][src'[d]])
               /\ pc'[d] = "idle" => candidates'[d] = {}
    <3>1. CASE d = c
      BY <3>1, <1>2, <2>2, <2>3, <2>5
    <3>2. CASE d # c
      BY <3>2, <2>2, <2>6 DEF Copies
    <3>3. QED
      BY <3>1, <3>2
  <2>8. QED
    BY <2>4, <2>7 DEF Copies, IsWindow
<1>6. ASSUME NEW c \in Caller, NEW b \in Entity, Correlate(c, b) PROVE Copies'
  <2>1. /\ UNCHANGED <<src_samples, at_copy, pc, src, recorded>>
        /\ candidates' = [candidates EXCEPT ![c] = @ \ {b}]
    BY <1>6 DEF Correlate, LinkCandidate, SkipCandidate, sampleVars
  <2>2. ASSUME NEW d \in Caller, pc'[d] = "idle" PROVE candidates'[d] = {}
    <3>1. candidates[d] = {}
      BY <2>1, <2>2 DEF Copies
    <3>2. QED
      BY <1>1, <2>1, <3>1
  <2>3. QED
    BY <2>1, <2>2 DEF Copies, IsWindow
<1>7. ASSUME NEW c \in Caller, Finish(c) PROVE Copies'
  <2>1. /\ pc' = [pc EXCEPT ![c] = "idle"]
        /\ src' = [src EXCEPT ![c] = NoEntity]
        /\ candidates' = [candidates EXCEPT ![c] = {}]
    BY <1>7 DEF Finish, WriteLinks, FindNothing, Idle
  <2>2. /\ src_samples' = [src_samples EXCEPT ![c] = <<>>]
        /\ at_copy' = [at_copy EXCEPT ![c] = [e \in Entity |-> 0]]
        /\ recorded' = recorded
    BY <1>7 DEF Finish
  <2>3. /\ pc'[c] = "idle" /\ candidates'[c] = {}
        /\ at_copy'[c] = [e \in Entity |-> 0]
    BY <1>1, <1>2, <2>1, <2>2
  <2>4. /\ at_copy' \in [Caller -> [Entity -> Nat]]
        /\ DOMAIN src_samples' = Caller
    BY <1>2, <2>2
  <2>5. ASSUME NEW d \in Caller, d # c
        PROVE  /\ pc'[d] = pc[d] /\ src'[d] = src[d]
               /\ candidates'[d] = candidates[d]
               /\ src_samples'[d] = src_samples[d] /\ at_copy'[d] = at_copy[d]
    BY <1>1, <1>2, <2>1, <2>2, <2>5
  <2>6. ASSUME NEW d \in Caller
        PROVE  /\ \A b \in Entity : at_copy'[d][b] <= recorded'[b]
               /\ pc'[d] = "correlate" =>
                    IsWindow(src_samples'[d], at_copy'[d][src'[d]])
               /\ pc'[d] = "idle" => candidates'[d] = {}
    <3>1. CASE d = c
      BY <3>1, <1>2, <2>2, <2>3
    <3>2. CASE d # c
      BY <3>2, <2>2, <2>5 DEF Copies
    <3>3. QED
      BY <3>1, <3>2
  <2>7. QED
    BY <2>4, <2>6 DEF Copies, IsWindow
<1>8. CASE UNCHANGED rvars
  <2>1. UNCHANGED <<src_samples, at_copy, pc, src, candidates, recorded>>
    BY <1>8 DEF rvars, vars, callVars, sampleVars
  <2>2. QED
    BY <1>2, <2>1, CopiesStay
<1>9. QED
  BY <1>3, <1>4, <1>5, <1>6, <1>7, <1>8 DEF RNext

-----------------------------------------------------------------------------
(* Two windows laid side by side from their oldest samples on: how far     *)
(* apart the returns of a pair are.                                        *)
LEMMA PairedWindows ==
  ASSUME NEW x, NEW y, NEW m \in Nat, NEW n \in Nat, m <= n,
         IsWindow(x, m), IsWindow(y, n),
         NEW i \in DOMAIN Paired(x, y)
  PROVE  /\ Paired(x, y)[i][2].at - Paired(x, y)[i][1].at \in 0..(n - m)
         /\ n <= Window => Paired(x, y)[i][2].at = Paired(x, y)[i][1].at
<1>1. /\ x \in Seq(Sample) /\ y \in Seq(Sample)
      /\ Len(x) = (IF m < Window THEN m ELSE Window)
      /\ Len(y) = (IF n < Window THEN n ELSE Window)
      /\ Window \in Nat
  BY GraphConstants DEF IsWindow
<1>2. i \in DOMAIN x /\ i \in DOMAIN y /\ i \in Nat
  BY <1>1 DEF Paired
<1>3. Paired(x, y)[i][1] = x[i] /\ Paired(x, y)[i][2] = y[i]
  BY <1>1 DEF Paired
<1>4. x[i].at = m - Len(x) + i /\ y[i].at = n - Len(y) + i
  BY <1>2 DEF IsWindow
<1>5. /\ (n - Len(y) + i) - (m - Len(x) + i) \in 0..(n - m)
      /\ n <= Window => n - Len(y) + i = m - Len(x) + i
  BY <1>1, <1>2
<1>6. QED
  BY <1>3, <1>4, <1>5

(* Series that come in step are correlated in step: a return of the source *)
(* is paired with the candidate's of the same time, or with one later by   *)
(* no more than were recorded since the call began.                        *)
THEOREM PairsStayInStep == RSpec => []PairsInStep
<1>1. GroundInv /\ Windows /\ Copies => PairsInStep
  <2> SUFFICES ASSUME GroundInv, Windows, Copies,
                      NEW c \in Caller, NEW b \in candidates[c],
                      at_copy[c][src[c]] = at_copy[c][b],
                      NEW i \in DOMAIN Paired(src_samples[c], samples[b])
               PROVE  LET late == recorded[b] - at_copy[c][b]
                          pairs == Paired(src_samples[c], samples[b])
                      IN  /\ pairs[i][2].at - pairs[i][1].at \in 0..late
                          /\ recorded[b] <= Window => pairs[i][2].at = pairs[i][1].at
    BY DEF PairsInStep
  <2>1. b \in Entity /\ pc[c] \in {"idle", "correlate"}
    BY DEF GroundInv, TypesKept, Called
  <2>2. pc[c] = "correlate"
    BY <2>1 DEF Copies
  <2>3. IsWindow(src_samples[c], at_copy[c][b])
    BY <2>2 DEF Copies
  <2>4. IsWindow(samples[b], recorded[b])
    BY <2>1 DEF Windows
  <2>5. /\ at_copy[c][b] \in Nat /\ recorded[b] \in Nat
        /\ at_copy[c][b] <= recorded[b]
    BY <2>1 DEF Copies, Windows
  <2>6. QED
    BY <2>3, <2>4, <2>5, PairedWindows
<1>2. RInit => Init
  BY DEF RInit
<1>3. QED
  BY <1>1, <1>2, WindowsInit, WindowsStep, CopiesInit, CopiesStep, GroundInit,
     GroundStep, SamplesOnlyDecide, PTL DEF RSpec

-----------------------------------------------------------------------------
(* Sum.  It is the last of the sums up to each position, a function        *)
(* recursive in the position: what it computes is proved by induction.     *)

\* u gives the sum of the first i of f, for each i
Sums(u, f, n) == u = [i \in 0..n |-> IF i = 0 THEN 0 ELSE u[i - 1] + f[i]]

LEMMA SumsExist ==
  ASSUME NEW f, NEW N \in Nat
  PROVE  \E u : Sums(u, f, N)
<1> DEFINE A == {m \in Nat : \E u : Sums(u, f, m)}
<1>1. 0 \in A
  <2> DEFINE u == [i \in 0..0 |-> 0]
  <2>1. u = [i \in 0..0 |-> IF i = 0 THEN 0 ELSE u[i - 1] + f[i]]
    OBVIOUS
  <2>2. Sums(u, f, 0)
    BY <2>1 DEF Sums
  <2>3. QED
    BY <2>2
<1>2. ASSUME NEW m \in 0..(N - 1), m \in A PROVE m + 1 \in A
  <2>1. PICK u : Sums(u, f, m)
    BY <1>2
  <2>2. u = [i \in 0..m |-> IF i = 0 THEN 0 ELSE u[i - 1] + f[i]]
    BY <2>1 DEF Sums
  <2> DEFINE v == [i \in 0..(m + 1) |-> IF i = m + 1 THEN u[m] + f[m + 1] ELSE u[i]]
  <2>3. ASSUME NEW i \in 0..(m + 1)
        PROVE  v[i] = IF i = 0 THEN 0 ELSE v[i - 1] + f[i]
    <3>1. CASE i = 0
      <4>1. i \in 0..m /\ i # m + 1
        BY <3>1
      <4>2. QED
        BY <2>2, <3>1, <4>1
    <3>2. CASE i = m + 1
      <4>1. i - 1 = m /\ m \in 0..(m + 1) /\ m # m + 1 /\ i # 0
        BY <3>2
      <4>2. v[i - 1] = u[m] /\ v[i] = u[m] + f[i]
        BY <3>2, <4>1
      <4>3. QED
        BY <4>1, <4>2
    <3>3. CASE i # 0 /\ i # m + 1
      <4>1. i \in 0..m /\ i - 1 \in 0..m /\ i - 1 \in 0..(m + 1) /\ i - 1 # m + 1
        BY <3>3
      <4>2. v[i] = u[i] /\ v[i - 1] = u[i - 1]
        BY <3>3, <4>1
      <4>3. u[i] = u[i - 1] + f[i]
        BY <2>2, <3>3, <4>1
      <4>4. QED
        BY <3>3, <4>2, <4>3
    <3>4. QED
      BY <3>1, <3>2, <3>3
  <2>4. v = [i \in 0..(m + 1) |-> v[i]]
    OBVIOUS
  <2> HIDE DEF v
  <2>5. v = [i \in 0..(m + 1) |-> IF i = 0 THEN 0 ELSE v[i - 1] + f[i]]
    BY <2>3, <2>4
  <2>6. Sums(v, f, m + 1)
    BY <2>5 DEF Sums
  <2>7. QED
    BY <2>6
<1>3. N \in A
  <2> HIDE DEF A
  <2>1. \A n \in 0..N : n \in A
    BY <1>1, <1>2, UpTo
  <2>2. QED
    BY <2>1
<1>4. QED
  BY <1>3

LEMMA SumIsLast ==
  ASSUME NEW f, Len(f) \in Nat
  PROVE  \E u : Sums(u, f, Len(f)) /\ Sum(f) = u[Len(f)]
<1> DEFINE last == CHOOSE u : u = [i \in 0..Len(f) |-> IF i = 0 THEN 0 ELSE u[i - 1] + f[i]]
<1>1. \E u : u = [i \in 0..Len(f) |-> IF i = 0 THEN 0 ELSE u[i - 1] + f[i]]
  <2>1. \E u : Sums(u, f, Len(f))
    BY SumsExist
  <2>2. QED
    BY Zenon, <2>1 DEF Sums
<1>2. last = [i \in 0..Len(f) |-> IF i = 0 THEN 0 ELSE last[i - 1] + f[i]]
  BY Zenon, <1>1
<1>3. Sum(f) = last[Len(f)]
  BY Zenon DEF Sum
<1> HIDE DEF last
<1>4. Sums(last, f, Len(f))
  BY Zenon, <1>2 DEF Sums
<1>5. QED
  BY <1>3, <1>4

Starts(f, g, m) == \A i \in 1..m : f[i] = g[i]

(* The sums of a sequence's positions are those of a longer one.           *)
LEMMA SumsAgree ==
  ASSUME NEW f, NEW g, NEW u, NEW v, NEW m \in Nat, NEW n \in Nat, m <= n,
         Sums(u, f, m), Sums(v, g, n), Starts(f, g, m)
  PROVE  u[m] = v[m]
<1>1. u = [i \in 0..m |-> IF i = 0 THEN 0 ELSE u[i - 1] + f[i]]
  BY DEF Sums
<1>2. v = [i \in 0..n |-> IF i = 0 THEN 0 ELSE v[i - 1] + g[i]]
  BY DEF Sums
<1> DEFINE A == {i \in 0..m : u[i] = v[i]}
<1>3. 0 \in A
  <2>1. u[0] = 0 /\ v[0] = 0
    BY <1>1, <1>2
  <2>2. QED
    BY <2>1
<1>4. ASSUME NEW k \in 0..(m - 1), k \in A PROVE k + 1 \in A
  <2>1. /\ k + 1 \in 0..m /\ k + 1 \in 0..n /\ k + 1 \in 1..m
        /\ k + 1 # 0 /\ (k + 1) - 1 = k
    OBVIOUS
  <2>2. u[k + 1] = u[k] + f[k + 1] /\ v[k + 1] = v[k] + g[k + 1]
    BY <1>1, <1>2, <2>1
  <2>3. f[k + 1] = g[k + 1]
    BY <2>1 DEF Starts
  <2>4. QED
    BY <1>4, <2>1, <2>2, <2>3
<1>5. m \in A
  <2> HIDE DEF A
  <2>1. \A i \in 0..m : i \in A
    BY <1>3, <1>4, UpTo
  <2>2. QED
    BY <2>1
<1>6. QED
  BY <1>5

(* The sum of nothing, and of one more.                                    *)
LEMMA SumOfNone ==
  ASSUME NEW f \in [1..0 -> Int]
  PROVE  Sum(f) = 0
<1>1. Len(f) = 0
  OBVIOUS
<1>2. PICK u : Sums(u, f, 0) /\ Sum(f) = u[0]
  BY <1>1, SumIsLast
<1>3. u = [i \in 0..0 |-> IF i = 0 THEN 0 ELSE u[i - 1] + f[i]]
  BY <1>2 DEF Sums
<1>4. u[0] = 0
  BY <1>3
<1>5. QED
  BY <1>2, <1>4

LEMMA SumOfOneMore ==
  ASSUME NEW n \in Nat, NEW f \in [1..n -> Int], NEW g \in [1..(n + 1) -> Int],
         \A i \in 1..n : f[i] = g[i]
  PROVE  Sum(g) = Sum(f) + g[n + 1]
<1>1. Len(f) = n /\ Len(g) = n + 1
  OBVIOUS
<1>2. PICK u : Sums(u, f, n) /\ Sum(f) = u[n]
  BY <1>1, SumIsLast
<1>3. PICK v : Sums(v, g, n + 1) /\ Sum(g) = v[n + 1]
  BY <1>1, SumIsLast
<1>4. v = [i \in 0..(n + 1) |-> IF i = 0 THEN 0 ELSE v[i - 1] + g[i]]
  BY <1>3 DEF Sums
<1>5. n + 1 \in 0..(n + 1) /\ n + 1 # 0 /\ (n + 1) - 1 = n
  OBVIOUS
<1>6. v[n + 1] = v[n] + g[n + 1]
  BY <1>4, <1>5
<1>7. u[n] = v[n]
  <2> DEFINE k == n + 1
  <2>1. k \in Nat /\ n <= k
    OBVIOUS
  <2>2. Sums(u, f, n) /\ Sums(v, g, k) /\ Starts(f, g, n)
    BY <1>2, <1>3 DEF Starts
  <2> HIDE DEF k
  <2>3. QED
    BY <2>1, <2>2, SumsAgree
<1>8. QED
  BY <1>2, <1>3, <1>6, <1>7


Series(n) == [1..n -> Int]

(* The sum of the first n.                                                 *)
Prefix(f, n) == [i \in 1..n |-> f[i]]
SumTo(f, n) == Sum(Prefix(f, n))

LEMMA SumToFacts ==
  ASSUME NEW n \in Nat, NEW f \in Series(n)
  PROVE  /\ SumTo(f, 0) = 0
         /\ \A m \in 0..n : SumTo(f, m) \in Int
         /\ \A m \in 0..(n - 1) : SumTo(f, m + 1) = SumTo(f, m) + f[m + 1]
         /\ Sum(f) = SumTo(f, n)
<1>1. SumTo(f, 0) = 0
  <2>1. Prefix(f, 0) \in [1..0 -> Int]
    BY DEF Prefix
  <2>2. QED
    BY <2>1, SumOfNone DEF SumTo
<1>2. ASSUME NEW m \in 0..(n - 1)
      PROVE  SumTo(f, m + 1) = SumTo(f, m) + f[m + 1]
  <2>1. /\ Prefix(f, m) \in [1..m -> Int] /\ Prefix(f, m + 1) \in [1..(m + 1) -> Int]
        /\ \A i \in 1..m : Prefix(f, m)[i] = Prefix(f, m + 1)[i]
        /\ Prefix(f, m + 1)[m + 1] = f[m + 1]
        /\ m \in Nat
    BY DEF Prefix, Series
  <2>2. QED
    BY <2>1, SumOfOneMore DEF SumTo
<1>3. \A m \in 0..n : SumTo(f, m) \in Int
  <2> DEFINE A == {m \in 0..n : SumTo(f, m) \in Int}
  <2>1. 0 \in A
    BY <1>1
  <2>2. ASSUME NEW m \in 0..(n - 1), m \in A PROVE m + 1 \in A
    <3>1. m + 1 \in 0..n /\ m + 1 \in 1..n
      OBVIOUS
    <3>2. f[m + 1] \in Int
      BY <3>1 DEF Series
    <3>3. QED
      BY <1>2, <2>2, <3>1, <3>2
  <2>3. \A m \in 0..n : m \in A
    <3> HIDE DEF A
    <3>1. QED
      BY <2>1, <2>2, UpTo
  <2>4. QED
    BY <2>3
<1>4. Sum(f) = SumTo(f, n)
  <2>1. Prefix(f, n) = f
    BY DEF Prefix, Series
  <2>2. QED
    BY <2>1 DEF SumTo
<1>5. QED
  BY <1>1, <1>2, <1>3, <1>4

(* A prefix is a series, and so are its sums.                              *)
LEMMA PrefixFacts ==
  ASSUME NEW n \in Nat, NEW f \in Series(n), NEW m \in 0..n
  PROVE  /\ Prefix(f, m) \in Series(m)
         /\ \A k \in 0..m : SumTo(Prefix(f, m), k) = SumTo(f, k)
<1>1. Prefix(f, m) \in Series(m)
  BY DEF Prefix, Series
<1>2. ASSUME NEW k \in 0..m PROVE SumTo(Prefix(f, m), k) = SumTo(f, k)
  <2>1. Prefix(Prefix(f, m), k) = Prefix(f, k)
    BY DEF Prefix
  <2>2. QED
    BY <2>1 DEF SumTo
<1>3. QED
  BY <1>1, <1>2

Products(f, g) == [i \in DOMAIN f |-> f[i] * g[i]]

LEMMA ProductsType ==
  ASSUME NEW n \in Nat, NEW f \in Series(n), NEW g \in Series(n)
  PROVE  /\ Products(f, g) \in Series(n)
         /\ \A i \in 1..n : Products(f, g)[i] = f[i] * g[i]
  BY DEF Products, Series

(* The sum of products of shifted values.                                  *)
LEMMA ShiftedProduct ==
  ASSUME NEW a \in Int, NEW x \in Int, NEW p \in Int, NEW y \in Int, NEW q \in Int
  PROVE  (a * x - p) * (a * y - q) = a * a * (x * y) - a * q * x - a * p * y + p * q
  OBVIOUS

ShiftedSum(f, g, a, p, q, m) ==
  a * a * SumTo(Products(f, g), m) - a * q * SumTo(f, m) - a * p * SumTo(g, m) + m * (p * q)

LEMMA SumOfShifted ==
  ASSUME NEW n \in Nat, NEW f \in Series(n), NEW g \in Series(n),
         NEW a \in Int, NEW p \in Int, NEW q \in Int,
         NEW h \in Series(n), \A i \in 1..n : h[i] = (a * f[i] - p) * (a * g[i] - q)
  PROVE  Sum(h) = ShiftedSum(f, g, a, p, q, n)
<1> DEFINE A == {m \in 0..n : SumTo(h, m) = ShiftedSum(f, g, a, p, q, m)}
           P == Products(f, g)
<1>1. P \in Series(n) /\ \A i \in 1..n : P[i] = f[i] * g[i]
  BY ProductsType
<1> HIDE DEF P
<1>2. /\ SumTo(P, 0) = 0 /\ SumTo(f, 0) = 0 /\ SumTo(g, 0) = 0 /\ SumTo(h, 0) = 0
      /\ Sum(h) = SumTo(h, n)
  BY <1>1, SumToFacts
<1>3. 0 \in A
  BY <1>2 DEF P, ShiftedSum
<1>4. ASSUME NEW m \in 0..(n - 1), m \in A PROVE m + 1 \in A
  <2>1. m + 1 \in 1..n /\ m \in 0..n /\ m + 1 \in 0..n /\ m \in Int
    OBVIOUS
  <2> DEFINE x == f[m + 1]
             y == g[m + 1]
  <2>2. x \in Int /\ y \in Int /\ P[m + 1] = x * y
    BY <1>1, <2>1 DEF Series
  <2>3. h[m + 1] = (a * x - p) * (a * y - q)
    BY <2>1
  <2> HIDE DEF x, y
  <2>4. h[m + 1] = a * a * (x * y) - a * q * x - a * p * y + p * q
    BY <2>2, <2>3, ShiftedProduct
  <2>5. /\ SumTo(P, m + 1) = SumTo(P, m) + x * y
        /\ SumTo(f, m + 1) = SumTo(f, m) + x
        /\ SumTo(g, m + 1) = SumTo(g, m) + y
        /\ SumTo(h, m + 1) = SumTo(h, m) + h[m + 1]
    BY <1>1, <2>2, SumToFacts DEF x, y
  <2>6. SumTo(P, m) \in Int /\ SumTo(f, m) \in Int /\ SumTo(g, m) \in Int
    BY <1>1, <2>1, SumToFacts
  <2>7. SumTo(h, m) = a * a * SumTo(P, m) - a * q * SumTo(f, m) - a * p * SumTo(g, m)
                        + m * (p * q)
    BY <1>4 DEF ShiftedSum, P
  <2> DEFINE S == SumTo(P, m)
             F == SumTo(f, m)
             G == SumTo(g, m)
  <2>8. a * a * S - a * q * F - a * p * G + m * (p * q)
          + (a * a * (x * y) - a * q * x - a * p * y + p * q)
        = a * a * (S + x * y) - a * q * (F + x) - a * p * (G + y) + (m + 1) * (p * q)
    <3>1. S \in Int /\ F \in Int /\ G \in Int
      BY <2>6
    <3> HIDE DEF S, F, G
    <3>2. QED
      BY <2>1, <2>2, <3>1
  <2>9. SumTo(h, m + 1) = ShiftedSum(f, g, a, p, q, m + 1)
    BY <2>4, <2>5, <2>7, <2>8 DEF ShiftedSum, P
  <2>10. QED
    BY <2>1, <2>9
<1>5. n \in A
  <2> HIDE DEF A
  <2>1. \A m \in 0..n : m \in A
    BY <1>3, <1>4, UpTo
  <2>2. QED
    BY <2>1
<1>6. QED
  BY <1>2, <1>5

-----------------------------------------------------------------------------
(* Covariance and MovesTogether come down to the same sums.                *)

\* n times the sum of the products, less the product of the sums
Joint(f, g, n) == n * SumTo(Products(f, g), n) - SumTo(f, n) * SumTo(g, n)

LEMMA JointType ==
  ASSUME NEW n \in Nat, NEW f \in Series(n), NEW g \in Series(n)
  PROVE  Joint(f, g, n) \in Int /\ Joint(f, g, n) = Joint(g, f, n)
<1>1. Products(f, g) \in Series(n) /\ Products(g, f) \in Series(n)
  BY ProductsType
<1>2. /\ SumTo(Products(f, g), n) \in Int
      /\ SumTo(f, n) \in Int /\ SumTo(g, n) \in Int
  BY <1>1, SumToFacts
<1>3. Products(f, g) = Products(g, f)
  BY DEF Products, Series
<1>4. QED
  BY <1>2, <1>3 DEF Joint

LEMMA CovarianceIsJoint ==
  ASSUME NEW n \in Nat, NEW f \in Series(n), NEW g \in Series(n)
  PROVE  Covariance(f, g) = n * Joint(f, g, n)
<1> DEFINE F == Sum(f)
           G == Sum(g)
           h == [i \in DOMAIN f |-> Deviation(f, i) * Deviation(g, i)]
<1>1. Len(f) = n /\ Len(g) = n /\ DOMAIN f = 1..n
  BY DEF Series
<1>2. F = SumTo(f, n) /\ G = SumTo(g, n) /\ F \in Int /\ G \in Int
  BY SumToFacts
<1>3. /\ SumTo(Products(f, g), n) \in Int
      /\ n \in Int
  BY ProductsType, SumToFacts
<1>4. \A i \in 1..n : Deviation(f, i) = n * f[i] - F /\ Deviation(g, i) = n * g[i] - G
  BY <1>1 DEF Deviation
<1> HIDE DEF F, G
<1>5. \A i \in 1..n : h[i] = (n * f[i] - F) * (n * g[i] - G)
  BY <1>1, <1>4
<1>6. Covariance(f, g) = Sum(h) /\ h = [i \in 1..n |-> h[i]]
  BY <1>1 DEF Covariance
<1> HIDE DEF h
<1>10. h \in Series(n)
  <2>1. \A i \in 1..n : (n * f[i] - F) * (n * g[i] - G) \in Int
    <3>1. \A i \in 1..n : f[i] \in Int /\ g[i] \in Int
      BY DEF Series
    <3>2. QED
      BY <1>2, <1>3, <3>1
  <2>2. \A i \in 1..n : h[i] \in Int
    BY <1>5, <2>1
  <2>3. QED
    BY <1>6, <2>2 DEF Series
<1>7. Sum(h) = ShiftedSum(f, g, n, F, G, n)
  BY <1>2, <1>3, <1>5, <1>10, SumOfShifted
<1> DEFINE P == SumTo(Products(f, g), n)
<1>8. n * n * P - n * G * F - n * F * G + n * (F * G) = n * (n * P - F * G)
  <2>1. P \in Int
    BY <1>3
  <2> HIDE DEF P
  <2>2. QED
    BY <1>2, <1>3, <2>1
<1>9. QED
  BY <1>2, <1>6, <1>7, <1>8 DEF ShiftedSum, Joint

\* How the moves between a time and those before it agree
MovesTo(f, g, i) == Sum([j \in 1..i |-> (f[i] - f[j]) * (g[i] - g[j])])

LEMMA MovesToIsSum ==
  ASSUME NEW n \in Nat, NEW f \in Series(n), NEW g \in Series(n), NEW i \in 1..n
  PROVE  MovesTo(f, g, i) = SumTo(Products(f, g), i) - g[i] * SumTo(f, i)
                              - f[i] * SumTo(g, i) + i * (f[i] * g[i])
<1> DEFINE x == f[i]
           y == g[i]
           h == [j \in 1..i |-> (f[i] - f[j]) * (g[i] - g[j])]
           b == Prefix(f, i)
           d == Prefix(g, i)
<1>1. i \in Nat /\ i \in 0..n /\ x \in Int /\ y \in Int
  BY DEF Series
<1>2. /\ b \in Series(i) /\ d \in Series(i)
      /\ SumTo(b, i) = SumTo(f, i) /\ SumTo(d, i) = SumTo(g, i)
      /\ \A j \in 1..i : b[j] = f[j] /\ d[j] = g[j]
  <2>1. /\ b \in Series(i) /\ d \in Series(i) /\ i \in 0..i
        /\ SumTo(b, i) = SumTo(f, i) /\ SumTo(d, i) = SumTo(g, i)
    BY <1>1, PrefixFacts
  <2>2. QED
    BY <2>1 DEF Prefix
<1>3. SumTo(Products(b, d), i) = SumTo(Products(f, g), i)
  <2>1. Prefix(Products(b, d), i) = Prefix(Products(f, g), i)
    BY <1>2 DEF Prefix, Products, Series
  <2>2. QED
    BY <2>1 DEF SumTo
<1>4. \A j \in 1..i : b[j] \in Int /\ d[j] \in Int
  BY <1>2 DEF Series
<1>5. h \in Series(i) /\ \A j \in 1..i : h[j] = (x - b[j]) * (y - d[j])
  <2>1. \A j \in 1..i : h[j] = (x - b[j]) * (y - d[j])
    BY <1>2
  <2>2. h = [j \in 1..i |-> h[j]]
    OBVIOUS
  <2> HIDE DEF h, x, y, b, d
  <2>3. \A j \in 1..i : (x - b[j]) * (y - d[j]) \in Int
    BY <1>1, <1>4
  <2>4. QED
    BY <2>1, <2>2, <2>3 DEF Series
<1>6. MovesTo(f, g, i) = Sum(h)
  BY DEF MovesTo
<1> HIDE DEF h, x, y, b, d
<1>7. -1 \in Int /\ -x \in Int /\ -y \in Int
  BY <1>1
<1>8. \A j \in 1..i : h[j] = ((-1) * b[j] - (-x)) * ((-1) * d[j] - (-y))
  BY <1>1, <1>4, <1>5
<1>9. Sum(h) = ShiftedSum(b, d, -1, -x, -y, i)
  BY <1>1, <1>2, <1>5, <1>7, <1>8, SumOfShifted
<1>10. /\ SumTo(Products(b, d), i) \in Int
       /\ SumTo(b, i) \in Int /\ SumTo(d, i) \in Int
  <2>1. Products(b, d) \in Series(i) /\ i \in 0..i
    BY <1>1, <1>2, ProductsType
  <2>2. QED
    BY <1>1, <1>2, <2>1, SumToFacts
<1> DEFINE P == SumTo(Products(b, d), i)
           F == SumTo(b, i)
           G == SumTo(d, i)
<1>11. (-1) * (-1) * P - (-1) * (-y) * F - (-1) * (-x) * G + i * ((-x) * (-y))
         = P - y * F - x * G + i * (x * y)
  <2>1. P \in Int /\ F \in Int /\ G \in Int
    BY <1>10
  <2> HIDE DEF P, F, G
  <2>2. QED
    BY <1>1, <2>1
<1>12. QED
  BY <1>2, <1>3, <1>6, <1>9, <1>11 DEF ShiftedSum, x, y

LEMMA MovesAreJoint ==
  ASSUME NEW n \in Nat, NEW f \in Series(n), NEW g \in Series(n)
  PROVE  MovesTogether(f, g) = Joint(f, g, n)
<1> DEFINE h == [i \in 1..n |-> MovesTo(f, g, i)]
           P == Products(f, g)
           A == {m \in 0..n : SumTo(h, m) = Joint(f, g, m)}
<1>1. P \in Series(n) /\ \A i \in 1..n : P[i] = f[i] * g[i]
  BY ProductsType
<1>2. \A m \in 0..n : SumTo(P, m) \in Int /\ SumTo(f, m) \in Int /\ SumTo(g, m) \in Int
  BY <1>1, SumToFacts
<1>3. h \in Series(n)
  <2>1. ASSUME NEW i \in 1..n PROVE MovesTo(f, g, i) \in Int
    <3> HIDE DEF P
    <3>1. /\ i \in 0..n /\ i \in Int /\ f[i] \in Int /\ g[i] \in Int
      BY DEF Series
    <3>2. QED
      BY <1>2, <3>1, MovesToIsSum DEF P
  <2>2. QED
    BY <2>1 DEF Series
<1>4. MovesTogether(f, g) = Sum(h)
  <2>1. DOMAIN f = 1..n
    BY DEF Series
  <2>2. QED
    BY <2>1 DEF MovesTogether, MovesTo
<1>5. \A i \in 1..n : h[i] = MovesTo(f, g, i)
  OBVIOUS
<1> HIDE DEF h, P
<1>6. /\ SumTo(P, 0) = 0 /\ SumTo(f, 0) = 0 /\ SumTo(g, 0) = 0 /\ SumTo(h, 0) = 0
      /\ Sum(h) = SumTo(h, n)
  BY <1>1, <1>3, SumToFacts
<1>7. 0 \in A
  BY <1>6 DEF Joint, P
<1>8. ASSUME NEW m \in 0..(n - 1), m \in A PROVE m + 1 \in A
  <2>1. m + 1 \in 1..n /\ m \in 0..n /\ m + 1 \in 0..n /\ m \in Int
    OBVIOUS
  <2> DEFINE x == f[m + 1]
             y == g[m + 1]
             S == SumTo(P, m)
             F == SumTo(f, m)
             G == SumTo(g, m)
  <2>2. x \in Int /\ y \in Int /\ P[m + 1] = x * y
    BY <1>1, <2>1 DEF Series
  <2>3. S \in Int /\ F \in Int /\ G \in Int
    BY <1>2, <2>1
  <2>4. /\ SumTo(P, m + 1) = S + x * y
        /\ SumTo(f, m + 1) = F + x
        /\ SumTo(g, m + 1) = G + y
        /\ SumTo(h, m + 1) = SumTo(h, m) + h[m + 1]
    BY <1>1, <1>3, <2>2, SumToFacts
  <2>5. h[m + 1] = SumTo(P, m + 1) - y * SumTo(f, m + 1) - x * SumTo(g, m + 1)
                     + (m + 1) * (x * y)
    BY <1>5, <2>1, MovesToIsSum DEF P
  <2>6. SumTo(h, m) = m * S - F * G
    BY <1>8 DEF Joint, P
  <2> HIDE DEF x, y, S, F, G
  <2>7. m * S - F * G + (S + x * y - y * (F + x) - x * (G + y) + (m + 1) * (x * y))
          = (m + 1) * (S + x * y) - (F + x) * (G + y)
    BY <2>1, <2>2, <2>3
  <2>8. SumTo(h, m + 1)
          = m * S - F * G + (S + x * y - y * (F + x) - x * (G + y) + (m + 1) * (x * y))
    <3> DEFINE H == h[m + 1]
               R == SumTo(h, m)
    <3>1. H = S + x * y - y * (F + x) - x * (G + y) + (m + 1) * (x * y)
      <4> DEFINE S1 == SumTo(P, m + 1)
                 F1 == SumTo(f, m + 1)
                 G1 == SumTo(g, m + 1)
      <4>1. S1 = S + x * y /\ F1 = F + x /\ G1 = G + y
        BY <2>4
      <4>2. H = S1 - y * F1 - x * G1 + (m + 1) * (x * y)
        BY <2>5 DEF x, y
      <4> HIDE DEF S1, F1, G1, H
      <4>3. y * F1 = y * (F + x) /\ x * G1 = x * (G + y)
        BY <4>1
      <4>4. QED
        BY <2>1, <2>2, <2>3, <4>1, <4>2, <4>3
    <3>2. SumTo(h, m + 1) = R + H /\ R = m * S - F * G
      BY <2>4, <2>6
    <3> HIDE DEF H, R
    <3>3. QED
      BY <3>1, <3>2
  <2>10. Joint(f, g, m + 1) = (m + 1) * (S + x * y) - (F + x) * (G + y)
    <3>1. Joint(f, g, m + 1)
            = (m + 1) * SumTo(P, m + 1) - SumTo(f, m + 1) * SumTo(g, m + 1)
      BY DEF Joint, P
    <3>2. QED
      BY <2>4, <3>1
  <2>11. SumTo(h, m + 1) = Joint(f, g, m + 1)
    BY <2>7, <2>8, <2>10
  <2>9. QED
    BY <2>1, <2>11
<1>9. n \in A
  <2> HIDE DEF A
  <2>1. \A m \in 0..n : m \in A
    BY <1>7, <1>8, UpTo
  <2>2. QED
    BY <2>1
<1>10. QED
  BY <1>4, <1>6, <1>9

-----------------------------------------------------------------------------
(* A correlation is at most 1: the square of a sum of products is at most  *)
(* the product of the sums of squares.                                     *)

LEMMA ProductIsPositive ==
  ASSUME NEW a \in Int, NEW b \in Int
  PROVE  /\ a * a >= 0
         /\ a >= 0 /\ b >= 0 => a * b >= 0
         /\ a > 0 /\ a * b >= 0 => b >= 0
         /\ a > 0 /\ a * b > 0 => b > 0
  OBVIOUS

LEMMA OneMoreProduct ==
  ASSUME NEW A \in Int, NEW B \in Int, NEW C \in Int, NEW x \in Int, NEW y \in Int,
         A >= 0, B >= 0, C * C <= A * B
  PROVE  (C + x * y) * (C + x * y) <= (A + x * x) * (B + y * y)
<1> DEFINE Z == A * (y * y) + B * (x * x) - 2 * (C * (x * y))
           D == A * B - C * C
<1>1. Z \in Int /\ D \in Int /\ D >= 0
  OBVIOUS
<1>2. (A + x * x) * (B + y * y) = (C + x * y) * (C + x * y) + D + Z
  OBVIOUS
<1>3. Z >= 0
  <2>1. CASE A > 0
    <3> DEFINE v == A * y - C * x
               w == x * x
    <3>1. A * Z = v * v + w * D
      OBVIOUS
    <3>2. v \in Int /\ w \in Int /\ w >= 0
      BY ProductIsPositive
    <3> HIDE DEF Z, D, v, w
    <3>3. v * v \in Int /\ v * v >= 0 /\ w * D \in Int /\ w * D >= 0
      BY <1>1, <3>2, ProductIsPositive
    <3>4. A * Z >= 0
      BY <3>1, <3>3
    <3>5. QED
      BY <1>1, <2>1, <3>4, ProductIsPositive
  <2>2. CASE A = 0
    <3>1. C * C <= 0
      BY <2>2
    <3>2. C = 0
      BY <3>1
    <3>3. Z = B * (x * x)
      BY <2>2, <3>2
    <3>4. x * x \in Int /\ x * x >= 0
      BY ProductIsPositive
    <3> HIDE DEF Z
    <3>5. QED
      BY <3>3, <3>4, ProductIsPositive
  <2>3. QED
    BY <2>1, <2>2
<1> HIDE DEF Z, D
<1>4. (C + x * y) * (C + x * y) \in Int
  OBVIOUS
<1>5. QED
  BY <1>1, <1>2, <1>3, <1>4

Bounded(f, g, m) ==
  LET A == SumTo(Products(f, f), m)
      B == SumTo(Products(g, g), m)
      C == SumTo(Products(f, g), m)
  IN  /\ A \in Int /\ B \in Int /\ C \in Int
      /\ A >= 0 /\ B >= 0 /\ C * C <= A * B

LEMMA ProductsAreBounded ==
  ASSUME NEW n \in Nat, NEW f \in Series(n), NEW g \in Series(n)
  PROVE  Bounded(f, g, n)
<1> DEFINE S == {m \in 0..n : Bounded(f, g, m)}
           a == Products(f, f)
           b == Products(g, g)
           c == Products(f, g)
<1>1. /\ a \in Series(n) /\ \A i \in 1..n : a[i] = f[i] * f[i]
      /\ b \in Series(n) /\ \A i \in 1..n : b[i] = g[i] * g[i]
      /\ c \in Series(n) /\ \A i \in 1..n : c[i] = f[i] * g[i]
  BY ProductsType
<1> HIDE DEF a, b, c
<1>2. SumTo(a, 0) = 0 /\ SumTo(b, 0) = 0 /\ SumTo(c, 0) = 0
  BY <1>1, SumToFacts
<1>3. 0 \in S
  BY <1>2 DEF Bounded, a, b, c
<1>4. ASSUME NEW m \in 0..(n - 1), m \in S PROVE m + 1 \in S
  <2>1. m + 1 \in 1..n /\ m + 1 \in 0..n
    OBVIOUS
  <2> DEFINE x == f[m + 1]
             y == g[m + 1]
             A == SumTo(a, m)
             B == SumTo(b, m)
             C == SumTo(c, m)
  <2>2. x \in Int /\ y \in Int
    BY <2>1 DEF Series
  <2>3. /\ SumTo(a, m + 1) = A + x * x
        /\ SumTo(b, m + 1) = B + y * y
        /\ SumTo(c, m + 1) = C + x * y
    BY <1>1, <2>1, SumToFacts
  <2>4. /\ A \in Int /\ B \in Int /\ C \in Int
        /\ A >= 0 /\ B >= 0 /\ C * C <= A * B
    BY <1>4 DEF Bounded, a, b, c
  <2> HIDE DEF x, y, A, B, C
  <2>5. x * x \in Int /\ x * x >= 0 /\ y * y \in Int /\ y * y >= 0 /\ x * y \in Int
    BY <2>2, ProductIsPositive
  <2>6. (C + x * y) * (C + x * y) <= (A + x * x) * (B + y * y)
    BY <2>2, <2>4, OneMoreProduct
  <2>7. /\ A + x * x \in Int /\ B + y * y \in Int /\ C + x * y \in Int
        /\ A + x * x >= 0 /\ B + y * y >= 0
    BY <2>4, <2>5
  <2>8. Bounded(f, g, m + 1)
    BY <2>3, <2>6, <2>7 DEF Bounded, a, b, c
  <2>9. QED
    BY <2>1, <2>8
<1>5. n \in S
  <2> HIDE DEF S
  <2>1. \A m \in 0..n : m \in S
    BY <1>3, <1>4, UpTo
  <2>2. QED
    BY <2>1
<1>6. QED
  BY <1>5

(* Cauchy and Schwarz's inequality for the exact deviations.  Where the    *)
(* code finds a variance of zero, and computes no p-value, both sides of   *)
(* the test by moves are zero by it.                                       *)
LEMMA CorrelationIsBounded ==
  \A n \in Nat : \A f, g \in Series(n) :
    /\ Covariance(f, g) \in Int
    /\ Covariance(f, f) >= 0
    /\ Covariance(f, g) * Covariance(f, g) <= Covariance(f, f) * Covariance(g, g)
<1> SUFFICES ASSUME NEW n \in Nat, NEW f \in Series(n), NEW g \in Series(n)
             PROVE  /\ Covariance(f, g) \in Int
                    /\ Covariance(f, f) >= 0
                    /\ Covariance(f, g) * Covariance(f, g)
                         <= Covariance(f, f) * Covariance(g, g)
  OBVIOUS
<1> DEFINE d == [i \in 1..n |-> Deviation(f, i)]
           e == [i \in 1..n |-> Deviation(g, i)]
<1>1. DOMAIN f = 1..n /\ DOMAIN g = 1..n
  BY DEF Series
<1>2. d \in Series(n) /\ e \in Series(n)
  <2>1. \A i \in 1..n : f[i] \in Int /\ g[i] \in Int
    BY DEF Series
  <2>2. Sum(f) \in Int /\ Sum(g) \in Int /\ Len(f) = n /\ Len(g) = n
    BY SumToFacts DEF Series
  <2>3. \A i \in 1..n : Deviation(f, i) \in Int /\ Deviation(g, i) \in Int
    BY <2>1, <2>2 DEF Deviation
  <2>4. QED
    BY <2>3 DEF Series
<1>3. /\ Covariance(f, g) = Sum(Products(d, e))
      /\ Covariance(f, f) = Sum(Products(d, d))
      /\ Covariance(g, g) = Sum(Products(e, e))
  <2>1. /\ Products(d, e) = [i \in 1..n |-> Deviation(f, i) * Deviation(g, i)]
        /\ Products(d, d) = [i \in 1..n |-> Deviation(f, i) * Deviation(f, i)]
        /\ Products(e, e) = [i \in 1..n |-> Deviation(g, i) * Deviation(g, i)]
    BY DEF Products
  <2>2. QED
    BY <1>1, <2>1 DEF Covariance
<1> HIDE DEF d, e
<1>4. /\ Sum(Products(d, e)) = SumTo(Products(d, e), n)
      /\ Sum(Products(d, d)) = SumTo(Products(d, d), n)
      /\ Sum(Products(e, e)) = SumTo(Products(e, e), n)
  BY <1>2, ProductsType, SumToFacts
<1>5. Bounded(d, e, n)
  BY <1>2, ProductsAreBounded
<1>6. QED
  BY <1>3, <1>4, <1>5 DEF Bounded

-----------------------------------------------------------------------------
(* The test of significance, by moves.                                     *)

\* pearson_with_pvalue's verdict on two series of n returns
Test(f, g, n) ==
  LET cov == Covariance(f, g)
      var == Covariance(f, f) * Covariance(g, g)
  IN  /\ n >= 3
      /\ var # 0
      /\ cov * cov * (n - 2) * CriticalSquare.den
           > (var - cov * cov) * CriticalSquare.num

TestByMoves(f, g, n) ==
  MovesTogether(f, g) * MovesTogether(f, g)
      * (CriticalSquare.num + (n - 2) * CriticalSquare.den)
    > MovesTogether(f, f) * MovesTogether(g, g) * CriticalSquare.num

(* With N > 0 in both sides and squares Q <= V, a zero V says no as well.  *)
LEMMA FactorIsDropped ==
  ASSUME NEW N \in Int, NEW Q \in Int, NEW V \in Int, NEW k \in Int,
         N > 0, Q >= 0, N * Q <= N * V
  PROVE  (N * V # 0 /\ N * Q * k * 1000 > (N * V - N * Q) * 4966)
           <=> Q * (4966 + k * 1000) > V * 4966
<1> DEFINE D == Q * (4966 + k * 1000) - V * 4966
<1>1. D \in Int /\ N * Q * k * 1000 - (N * V - N * Q) * 4966 = N * D
  OBVIOUS
<1>2. /\ N * Q * k * 1000 \in Int /\ (N * V - N * Q) * 4966 \in Int
      /\ N * D \in Int /\ Q * (4966 + k * 1000) \in Int /\ V * 4966 \in Int
      /\ V - Q \in Int /\ N * (V - Q) >= 0
  OBVIOUS
<1>3. V >= Q
  BY <1>2, ProductIsPositive
<1>4. V = 0 => D = 0
  <2>1. V = 0 => Q = 0
    BY <1>3
  <2>2. QED
    BY <2>1
<1>5. (N * V # 0 /\ N * D > 0) <=> D > 0
  <2>1. ASSUME N * D > 0 PROVE D > 0
    <3> HIDE DEF D
    <3>1. QED
      BY <1>1, <2>1, ProductIsPositive
  <2>2. ASSUME D > 0 PROVE N * V # 0 /\ N * D > 0
    <3>1. V # 0
      BY <1>4, <2>2
    <3>2. N * V # 0
      BY <3>1
    <3> HIDE DEF D
    <3>3. N * D > 0
      BY <1>1, <2>2
    <3>4. QED
      BY <3>2, <3>3
  <2>3. QED
    BY <2>1, <2>2
<1>6. N * Q * k * 1000 > (N * V - N * Q) * 4966 <=> N * D > 0
  <2> DEFINE L == N * Q * k * 1000
             R == (N * V - N * Q) * 4966
             M == N * D
  <2>1. L \in Int /\ R \in Int /\ M \in Int /\ L - R = M
    BY <1>1, <1>2
  <2> HIDE DEF L, R, M
  <2>2. L > R <=> M > 0
    BY <2>1
  <2>3. QED
    BY <2>2 DEF L, R, M
<1>7. D > 0 <=> Q * (4966 + k * 1000) > V * 4966
  BY <1>2
<1> HIDE DEF D
<1>8. QED
  BY <1>5, <1>6, <1>7

LEMMA TestIsByMoves ==
  ASSUME NEW n \in Nat, n >= 3, NEW f \in Series(n), NEW g \in Series(n)
  PROVE  Test(f, g, n) <=> TestByMoves(f, g, n)
<1> DEFINE M == MovesTogether(f, g)
           A == MovesTogether(f, f)
           B == MovesTogether(g, g)
           N == n * n
           Q == M * M
           V == A * B
<1>1. M \in Int /\ A \in Int /\ B \in Int
  BY JointType, MovesAreJoint
<1>2. /\ Covariance(f, g) = n * M
      /\ Covariance(f, f) = n * A
      /\ Covariance(g, g) = n * B
  BY CovarianceIsJoint, MovesAreJoint
<1>3. Covariance(f, g) * Covariance(f, g) <= Covariance(f, f) * Covariance(g, g)
  BY CorrelationIsBounded
<1>4. CriticalSquare.num = 4966 /\ CriticalSquare.den = 1000
  BY DEF CriticalSquare
<1> HIDE DEF M, A, B
<1>5. /\ (n * M) * (n * M) = N * Q
      /\ (n * A) * (n * B) = N * V
  BY <1>1
<1>6. N \in Int /\ N > 0 /\ Q \in Int /\ V \in Int /\ n - 2 \in Int
  BY <1>1
<1>7. Q >= 0
  BY <1>1, ProductIsPositive
<1> HIDE DEF N, Q, V
<1>8. N * Q <= N * V
  BY <1>2, <1>3, <1>5
<1>9. (N * V # 0 /\ N * Q * (n - 2) * 1000 > (N * V - N * Q) * 4966)
        <=> Q * (4966 + (n - 2) * 1000) > V * 4966
  BY <1>6, <1>7, <1>8, FactorIsDropped
<1>10. Test(f, g, n)
         <=> (N * V # 0 /\ N * Q * (n - 2) * 1000 > (N * V - N * Q) * 4966)
  BY <1>2, <1>4, <1>5 DEF Test
<1>11. TestByMoves(f, g, n) <=> Q * (4966 + (n - 2) * 1000) > V * 4966
  BY <1>4 DEF TestByMoves, M, A, B, Q, V
<1>12. QED
  BY <1>9, <1>10, <1>11

First(pairs) == [i \in DOMAIN pairs |-> pairs[i][1].ret]
Second(pairs) == [i \in DOMAIN pairs |-> pairs[i][2].ret]

(* Pairs are series of one length, whichever side comes first.             *)
LEMMA PairsAreSeries ==
  ASSUME NEW x \in Seq(Sample), NEW y \in Seq(Sample)
  PROVE  LET pairs == Paired(x, y)
             n == Len(pairs)
         IN  /\ n \in Nat
             /\ First(pairs) \in Series(n) /\ Second(pairs) \in Series(n)
             /\ Len(Paired(y, x)) = n
             /\ First(Paired(y, x)) = Second(pairs)
             /\ Second(Paired(y, x)) = First(pairs)
<1> DEFINE n == IF Len(x) < Len(y) THEN Len(x) ELSE Len(y)
<1>1. /\ n \in Nat /\ n = (IF Len(y) < Len(x) THEN Len(y) ELSE Len(x))
      /\ \A i \in 1..n : i \in DOMAIN x /\ i \in DOMAIN y
  OBVIOUS
<1>2. /\ Paired(x, y) = [i \in 1..n |-> <<x[i], y[i]>>]
      /\ Paired(y, x) = [i \in 1..n |-> <<y[i], x[i]>>]
  BY <1>1 DEF Paired
<1>3. \A i \in 1..n : x[i].ret \in Int /\ y[i].ret \in Int
  <2>1. \A i \in 1..n : x[i] \in Sample /\ y[i] \in Sample
    BY <1>1
  <2>2. QED
    BY <2>1, CorrelationConstants DEF Sample
<1> HIDE DEF n
<1>4. Len(Paired(x, y)) = n /\ Len(Paired(y, x)) = n
  BY <1>1, <1>2
<1>5. /\ First(Paired(x, y)) = [i \in 1..n |-> x[i].ret]
      /\ Second(Paired(x, y)) = [i \in 1..n |-> y[i].ret]
      /\ First(Paired(y, x)) = [i \in 1..n |-> y[i].ret]
      /\ Second(Paired(y, x)) = [i \in 1..n |-> x[i].ret]
  BY <1>2 DEF First, Second
<1>6. QED
  BY <1>1, <1>3, <1>4, <1>5 DEF Series

\* What SignificanceByMoves says of one correlation
ByMoves(x, y) ==
  LET pairs == Paired(x, y)
      n == Len(pairs)
  IN  n >= 3 => /\ Significant(x, y) <=> TestByMoves(First(pairs), Second(pairs), n)
                /\ Significant(x, y) <=> Significant(y, x)

LEMMA SignificantIsByMoves ==
  ASSUME NEW x \in Seq(Sample), NEW y \in Seq(Sample)
  PROVE  ByMoves(x, y)
<1> DEFINE pairs == Paired(x, y)
           n == Len(pairs)
           f == First(pairs)
           g == Second(pairs)
<1>1. /\ n \in Nat /\ f \in Series(n) /\ g \in Series(n)
      /\ Len(Paired(y, x)) = n
      /\ First(Paired(y, x)) = g /\ Second(Paired(y, x)) = f
  BY PairsAreSeries
<1>2. Significant(x, y) <=> Test(f, g, n)
  BY DEF Significant, Test, First, Second
<1>3. Significant(y, x) <=> Test(g, f, n)
  <2>1. Significant(y, x)
          <=> Test(First(Paired(y, x)), Second(Paired(y, x)), Len(Paired(y, x)))
    BY DEF Significant, Test, First, Second
  <2>2. QED
    BY <1>1, <2>1
<1> HIDE DEF pairs, n, f, g
<1>4. ASSUME n >= 3
      PROVE  /\ Test(f, g, n) <=> TestByMoves(f, g, n)
             /\ Test(f, g, n) <=> Test(g, f, n)
  <2>1. Test(f, g, n) <=> TestByMoves(f, g, n)
    BY <1>1, <1>4, TestIsByMoves
  <2>2. Test(g, f, n) <=> TestByMoves(g, f, n)
    BY <1>1, <1>4, TestIsByMoves
  <2>3. /\ MovesTogether(f, g) = MovesTogether(g, f)
        /\ MovesTogether(f, f) * MovesTogether(g, g)
             = MovesTogether(g, g) * MovesTogether(f, f)
    <3>1. /\ MovesTogether(f, g) = Joint(f, g, n)
          /\ MovesTogether(g, f) = Joint(g, f, n)
          /\ MovesTogether(f, f) = Joint(f, f, n)
          /\ MovesTogether(g, g) = Joint(g, g, n)
      BY <1>1, MovesAreJoint
    <3>2. /\ Joint(f, g, n) = Joint(g, f, n)
          /\ Joint(f, f, n) \in Int /\ Joint(g, g, n) \in Int
      BY <1>1, JointType
    <3>3. QED
      BY <3>1, <3>2
  <2>4. TestByMoves(f, g, n) <=> TestByMoves(g, f, n)
    BY <2>3 DEF TestByMoves
  <2>5. QED
    BY <2>1, <2>2, <2>4
<1>5. QED
  BY <1>2, <1>3, <1>4 DEF ByMoves, pairs, n, f, g

(* The two-pass computation of pearson_with_pvalue decides every candidate *)
(* as the correlation it stands for would, and the same whichever of the   *)
(* two series is the source's.                                             *)
THEOREM SignificanceIsByMoves == RSpec => []SignificanceByMoves
<1>1. GroundInv /\ Windows /\ Copies => SignificanceByMoves
  <2>1. ASSUME GroundInv, Windows, Copies, NEW c \in Caller, NEW b \in candidates[c]
        PROVE  ByMoves(src_samples[c], samples[b])
    <3>1. b \in Entity /\ pc[c] \in {"idle", "correlate"}
      BY <2>1 DEF GroundInv, TypesKept, Called
    <3>2. pc[c] = "correlate"
      BY <2>1, <3>1 DEF Copies
    <3>3. IsWindow(src_samples[c], at_copy[c][src[c]])
      BY <2>1, <3>2 DEF Copies
    <3>4. IsWindow(samples[b], recorded[b])
      BY <2>1, <3>1 DEF Windows
    <3>5. QED
      BY <3>3, <3>4, SignificantIsByMoves DEF IsWindow
  <2>2. QED
    BY <2>1 DEF SignificanceByMoves, ByMoves, TestByMoves, First, Second
<1>2. RInit => Init
  BY DEF RInit
<1>3. QED
  BY <1>1, <1>2, WindowsInit, WindowsStep, CopiesInit, CopiesStep, GroundInit,
     GroundStep, SamplesOnlyDecide, PTL DEF RSpec

=============================================================================

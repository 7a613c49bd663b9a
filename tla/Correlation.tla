---------------------------- MODULE Correlation -----------------------------
(***************************************************************************)
(* The statistics of CausalGraph (crates/warm-tier/src/lib.rs): the        *)
(* returns record_return keeps per entity, and how                         *)
(* materialize_temporal_link correlates the source's, copied under its     *)
(* first lock, with each candidate's, read under a later one, while        *)
(* returns go on being recorded.                                           *)
(*                                                                         *)
(* Every step is a step of CausalGraph; where that leaves open whether a   *)
(* candidate is linked, the samples decide.  Returns are integers, and     *)
(* pearson_with_pvalue is computed exactly: squared, and multiplied out.   *)
(***************************************************************************)
EXTENDS CausalGraph

CONSTANTS Return,      \* price returns, in some unit
          MaxReturns   \* bound: returns recorded per entity

ASSUME CorrelationConstants == Return \subseteq Int /\ MaxReturns \in Nat

VARIABLES samples,      \* per entity, its latest returns, oldest first, each
                        \* with its number
          recorded,     \* history: how many returns were recorded
          src_samples,  \* per caller, the source's samples when the call began
          at_copy       \* history, per caller: recorded when the call began

sampleVars == <<samples, recorded, src_samples, at_copy>>
rvars == <<vars, sampleVars>>

RInit == /\ Init
         /\ samples = [e \in Entity |-> <<>>]
         /\ recorded = [e \in Entity |-> 0]
         /\ src_samples = [c \in Caller |-> <<>>]
         /\ at_copy = [c \in Caller |-> recorded]

-----------------------------------------------------------------------------
(* pearson_with_pvalue                                                     *)

Sum(f) == LET upto[i \in 0..Len(f)] == IF i = 0 THEN 0 ELSE upto[i - 1] + f[i]
          IN  upto[Len(f)]

\* Mutant: the series' ends are laid side by side
PairedAtEnd(x, y) ==
  LET n == IF Len(x) < Len(y) THEN Len(x) ELSE Len(y)
  IN  [i \in 1..n |-> <<x[Len(x) - n + i], y[Len(y) - n + i]>>]

\* x[..n] and y[..n]: the series side by side from their oldest samples on
Paired(x, y) == LET n == IF Len(x) < Len(y) THEN Len(x) ELSE Len(y)
                IN  [i \in 1..n |-> <<x[i], y[i]>>]

\* Mutant: the mean is not subtracted
RawSample(f, i) == Len(f) * f[i]
\* The deviation from the mean over the pairs, times n
Deviation(f, i) == Len(f) * f[i] - Sum(f)

\* cov and var, times n^2
Covariance(f, g) == Sum([i \in DOMAIN f |-> Deviation(f, i) * Deviation(g, i)])

\* p < 0.05 where |t| > 2.2284, the root of 2 / (1 + exp(0.717 t + 0.416 t^2))
\* = 0.05; here for t^2 = cov^2 (n - 2) / (var_x var_y - cov^2)
CriticalSquare == [num |-> 4966, den |-> 1000]

Significant(x, y) ==
  LET pairs == Paired(x, y)
      f == [i \in DOMAIN pairs |-> pairs[i][1].ret]
      g == [i \in DOMAIN pairs |-> pairs[i][2].ret]
      n == Len(pairs)
      cov == Covariance(f, g)
      var == Covariance(f, f) * Covariance(g, g)
  IN  /\ n >= 3
      /\ var # 0
      /\ cov * cov * (n - 2) * CriticalSquare.den
           > (var - cov * cov) * CriticalSquare.num

-----------------------------------------------------------------------------
\* Mutant: the newest sample is dropped from a full window
KeptOldest(s, x) == IF Len(s) + 1 > Window THEN s ELSE Append(s, x)
\* push, and remove(0) beyond 256
Kept(s, x) == IF Len(s) + 1 > Window THEN Tail(Append(s, x)) ELSE Append(s, x)

Record(e) ==
  /\ RecordReturn(e)
  /\ recorded[e] < MaxReturns
  /\ recorded' = [recorded EXCEPT ![e] = @ + 1]
  /\ \E ret \in Return :
       samples' = [samples EXCEPT ![e] = Kept(@, [at |-> recorded'[e], ret |-> ret])]
  /\ UNCHANGED <<src_samples, at_copy>>

CopySource(c, e) ==
  /\ ReadSource(c, e)
  /\ src_samples' = [src_samples EXCEPT ![c] = samples[e]]
  /\ at_copy' = [at_copy EXCEPT ![c] = recorded]
  /\ UNCHANGED <<samples, recorded>>

Correlate(c, b) ==
  /\ IF Len(samples[b]) >= MinHistory /\ Significant(src_samples[c], samples[b])
       THEN LinkCandidate(c, b)
       ELSE SkipCandidate(c, b)
  /\ UNCHANGED sampleVars

Finish(c) ==
  /\ WriteLinks(c) \/ FindNothing(c)
  /\ src_samples' = [src_samples EXCEPT ![c] = <<>>]
  /\ at_copy' = [at_copy EXCEPT ![c] = [e \in Entity |-> 0]]
  /\ UNCHANGED <<samples, recorded>>

Tag(e) == /\ \E labels \in TagLists : TagEntity(e, labels)
          /\ UNCHANGED sampleVars

RNext == \/ \E e \in Entity : Tag(e) \/ Record(e)
         \/ \E c \in Caller : \/ \E e \in Entity : CopySource(c, e) \/ Correlate(c, e)
                              \/ Finish(c)

RSpec == RInit /\ [][RNext]_rvars

-----------------------------------------------------------------------------
(* What an entity's correlation is computed from are its latest returns,   *)
(* as many as the window holds, none missing and in order, however often   *)
(* the window rolled; and there are as many as the graph counts.           *)
WindowIsLatest ==
  \A e \in Entity :
    /\ Len(samples[e]) = (IF recorded[e] < Window THEN recorded[e] ELSE Window)
    /\ Len(samples[e]) = return_samples[e]
    /\ \A i \in DOMAIN samples[e] :
         samples[e][i].at = recorded[e] - Len(samples[e]) + i

(* Two entities whose returns come in step are correlated in step, up to   *)
(* what is recorded while the call runs: a return of the source is paired  *)
(* with the candidate's of the same time, or with one that is later by no  *)
(* more than were recorded for the candidate since the source was copied,  *)
(* and later at all only if the candidate's window has rolled since then.  *)
PairsInStep ==
  \A c \in Caller : \A b \in candidates[c] :
    at_copy[c][src[c]] = at_copy[c][b] =>
      LET late == recorded[b] - at_copy[c][b]
          pairs == Paired(src_samples[c], samples[b])
      IN  \A i \in DOMAIN pairs :
            /\ pairs[i][2].at - pairs[i][1].at \in 0..late
            /\ recorded[b] <= Window => pairs[i][2].at = pairs[i][1].at

\* How the moves of two series between any two times agree, summed up
MovesTogether(f, g) ==
  LET after[i \in DOMAIN f] == Sum([j \in 1..i |-> (f[i] - f[j]) * (g[i] - g[j])])
  IN  Sum([i \in DOMAIN f |-> after[i]])

(* The two-pass computation of the code is the correlation it stands for:  *)
(* measured by the moves between all pairs of times instead of deviations  *)
(* from a mean, the moves of the two series correlate with r^2 > c/(c+n-2),*)
(* whichever series is the source's, or they are not linked.               *)
SignificanceByMoves ==
  \A c \in Caller : \A b \in candidates[c] :
    LET pairs == Paired(src_samples[c], samples[b])
        f == [i \in DOMAIN pairs |-> pairs[i][1].ret]
        g == [i \in DOMAIN pairs |-> pairs[i][2].ret]
        n == Len(pairs)
        num == CriticalSquare.num
        den == CriticalSquare.den
        square == MovesTogether(f, g) * MovesTogether(f, g)
    IN  n >= 3 =>
          /\ Significant(src_samples[c], samples[b])
               <=> square * (num + (n - 2) * den)
                     > MovesTogether(f, f) * MovesTogether(g, g) * num
          /\ Significant(src_samples[c], samples[b])
               <=> Significant(samples[b], src_samples[c])

=============================================================================

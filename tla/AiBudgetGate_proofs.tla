------------------------ MODULE AiBudgetGate_proofs ------------------------
(***************************************************************************)
(* Proofs about AiBudgetGate for any numbers of requests, providers and     *)
(* days, any prices and limits, faults included.                            *)
(***************************************************************************)
EXTENDS AiBudgetGate, FiniteSetTheorems, WellFoundedInduction, TLAPS

-----------------------------------------------------------------------------
(* Sums over finite sets.  Induction over a set takes the set of its         *)
(* subsets for which the statement fails, and a smallest one of them.        *)

\* h adds up f over every subset of S, one chosen element after the other.
Adds(h, f, S) ==
    h = [s \in SUBSET S |->
            IF s = {} THEN 0
            ELSE f[CHOOSE x \in s : TRUE] + h[s \ {CHOOSE x \in s : TRUE}]]

LEMMA SumIs ==
    ASSUME NEW f, NEW S
    PROVE  SumFunctionOnSet(f, S) = (CHOOSE h : Adds(h, f, S))[S]
BY DEF SumFunctionOnSet, FoldFunctionOnSet, MapThenFoldSet, Adds

LEMMA Smallest ==
    ASSUME NEW S, IsFiniteSet(S), NEW B \in SUBSET (SUBSET S), B # {}
    PROVE  \E T \in B : \A U \in B : ~(U \subseteq T /\ U # T)
<1>1. B \subseteq FiniteSubsetsOf(S)
  BY FS_Subset DEF FiniteSubsetsOf
<1>2. PICK T \in B : \A U \in B : ~(<<U, T>> \in StrictSubsetOrdering(S))
  BY <1>1, FS_StrictSubsetOrderingWellFounded, WFMin
<1> QED
  BY <1>2 DEF StrictSubsetOrdering

LEMMA SetInduction ==
    ASSUME NEW S, IsFiniteSet(S), NEW G, {} \in G,
           \A T \in SUBSET S : \A x \in S \ T : T \in G => T \cup {x} \in G
    PROVE  S \in G
<1> SUFFICES ASSUME S \notin G PROVE FALSE
  OBVIOUS
<1> DEFINE B == (SUBSET S) \ G
<1>1. PICK T \in B : \A U \in B : ~(U \subseteq T /\ U # T)
  <2>1. B \in SUBSET (SUBSET S) /\ B # {}
    OBVIOUS
  <2> HIDE DEF B
  <2> QED
    BY <2>1, Smallest
<1>2. PICK x \in T : TRUE
  <2>1. T # {}
    BY <1>1
  <2> QED
    BY <2>1
<1>3. T \ {x} \in G
  BY <1>1, <1>2
<1>4. (T \ {x}) \cup {x} = T
  BY <1>2
<1> QED
  BY <1>1, <1>2, <1>3, <1>4

\* Two such functions agree where both are defined.
LEMMA AddsAgree ==
    ASSUME NEW f, NEW S, NEW R, IsFiniteSet(S), NEW g, NEW h,
           Adds(g, f, S), Adds(h, f, R), NEW T \in SUBSET S, T \in SUBSET R
    PROVE  g[T] = h[T]
<1> DEFINE B == {s \in SUBSET S : s \in SUBSET R /\ g[s] # h[s]}
<1> SUFFICES ASSUME B # {} PROVE FALSE
  OBVIOUS
<1>1. PICK s \in B : \A U \in B : ~(U \subseteq s /\ U # s)
  <2>1. B \in SUBSET (SUBSET S)
    OBVIOUS
  <2> HIDE DEF B
  <2> QED
    BY <2>1, Smallest
<1> DEFINE c == CHOOSE x \in s : TRUE
<1>2. g[s] = IF s = {} THEN 0 ELSE f[c] + g[s \ {c}]
  BY DEF Adds
<1>3. h[s] = IF s = {} THEN 0 ELSE f[c] + h[s \ {c}]
  BY DEF Adds
<1>4. s # {} => c \in s
  OBVIOUS
<1>5. s # {} => g[s \ {c}] = h[s \ {c}]
  <2> HIDE DEF c
  <2> QED
    BY <1>1, <1>4
<1> QED
  BY <1>1, <1>2, <1>3, <1>5

\* Such a function exists over every finite set.
LEMMA AddsExists ==
    ASSUME NEW f, NEW S, IsFiniteSet(S)
    PROVE  \E h : Adds(h, f, S)
<1> DEFINE B == {T \in SUBSET S : ~ \E h : Adds(h, f, T)}
<1> SUFFICES ASSUME B # {} PROVE FALSE
  OBVIOUS
<1>1. PICK T \in B : \A U \in B : ~(U \subseteq T /\ U # T)
  <2>1. B \in SUBSET (SUBSET S)
    OBVIOUS
  <2> HIDE DEF B
  <2> QED
    BY <2>1, Smallest
<1>2. \A U \in SUBSET T : IsFiniteSet(U)
  BY FS_Subset
<1> DEFINE on(U) == CHOOSE h : Adds(h, f, U)
           c(s) == CHOOSE x \in s : TRUE
<1>3. \A U \in SUBSET T : U # T => Adds(on(U), f, U)
  BY <1>1
<1> DEFINE v(s) == IF s = {} THEN 0 ELSE f[c(s)] + on(s \ {c(s)})[s \ {c(s)}]
           g == [s \in SUBSET T |-> v(s)]
<1>4. ASSUME NEW s \in SUBSET T, s # T PROVE v(s) = on(s)[s]
  <2>1. Adds(on(s), f, s)
    BY <1>3, <1>4
  <2>2. on(s)[s] = IF s = {} THEN 0 ELSE f[c(s)] + on(s)[s \ {c(s)}]
    <3> HIDE DEF on
    <3> QED
      BY <2>1 DEF Adds
  <2>3. CASE s # {}
    <3>1. c(s) \in s
      BY <2>3
    <3> DEFINE t == s \ {c(s)}
    <3>2. t \in SUBSET T /\ t # T /\ t \in SUBSET s /\ t \in SUBSET t
      BY <3>1
    <3>3. Adds(on(t), f, t)
      <4> HIDE DEF t, on
      <4> QED
        BY <1>3, <3>2
    <3>4. on(t)[t] = on(s)[t]
      <4> HIDE DEF t, on
      <4> QED
        BY <1>2, <2>1, <3>2, <3>3, AddsAgree
    <3> HIDE DEF on, c
    <3> QED
      BY <2>2, <2>3, <3>4
  <2> HIDE DEF on, c
  <2> QED
    BY <2>2, <2>3
<1>5. ASSUME NEW s \in SUBSET T
      PROVE  v(s) = IF s = {} THEN 0 ELSE f[c(s)] + g[s \ {c(s)}]
  <2>1. CASE s # {}
    <3>1. c(s) \in s
      BY <2>1
    <3> DEFINE t == s \ {c(s)}
    <3>2. t \in SUBSET T /\ t # T
      BY <3>1
    <3> HIDE DEF t, on, c, v
    <3>3. g[t] = on(t)[t]
      BY <1>4, <3>2
    <3>4. v(s) = f[c(s)] + on(t)[t]
      BY <2>1 DEF v, t
    <3> QED
      BY <2>1, <3>3, <3>4 DEF t
  <2> QED
    BY <2>1
<1>6. Adds(g, f, T)
  <2> HIDE DEF v
  <2>1. \A s \in SUBSET T : g[s] = v(s)
    OBVIOUS
  <2> HIDE DEF g
  <2>2. g = [s \in SUBSET T |-> v(s)]
    BY DEF g
  <2> QED
    BY <1>5, <2>2 DEF Adds
<1> QED
  BY <1>1, <1>6

LEMMA SumAdds ==
    ASSUME NEW f, NEW S, IsFiniteSet(S), NEW g, Adds(g, f, S), NEW T \in SUBSET S
    PROVE  SumFunctionOnSet(f, T) = g[T]
<1> DEFINE h == CHOOSE h : Adds(h, f, T)
<1>1. IsFiniteSet(T)
  BY FS_Subset
<1>2. Adds(h, f, T)
  BY <1>1, AddsExists
<1>3. SumFunctionOnSet(f, T) = h[T]
  BY SumIs
<1> HIDE DEF h
<1> QED
  BY <1>1, <1>2, <1>3, AddsAgree

\* The defining equation of the sum.
LEMMA SumStep ==
    ASSUME NEW f, NEW S, IsFiniteSet(S)
    PROVE  SumFunctionOnSet(f, S) = IF S = {} THEN 0
                         ELSE LET c == CHOOSE x \in S : TRUE
                              IN  f[c] + SumFunctionOnSet(f, S \ {c})
<1>1. PICK g : Adds(g, f, S)
  BY AddsExists
<1>2. \A T \in SUBSET S : SumFunctionOnSet(f, T) = g[T]
  BY <1>1, SumAdds
<1> DEFINE c == CHOOSE x \in S : TRUE
<1>3. g[S] = IF S = {} THEN 0 ELSE f[c] + g[S \ {c}]
  BY <1>1 DEF Adds
<1> HIDE DEF c
<1> QED
  BY <1>2, <1>3 DEF c

LEMMA SumEmpty == \A f : SumFunctionOnSet(f, {}) = 0
BY FS_EmptySet, SumStep

\* A sum of naturals is one, and any summand may be taken out of it.
LEMMA SumRemove ==
    ASSUME NEW f, NEW S, IsFiniteSet(S), \A x \in S : f[x] \in Nat
    PROVE  /\ SumFunctionOnSet(f, S) \in Nat
           /\ \A x \in S : SumFunctionOnSet(f, S) = f[x] + SumFunctionOnSet(f, S \ {x})
<1> DEFINE Good(T) == /\ SumFunctionOnSet(f, T) \in Nat
                      /\ \A x \in T : SumFunctionOnSet(f, T) = f[x] + SumFunctionOnSet(f, T \ {x})
           B == {T \in SUBSET S : ~Good(T)}
<1> SUFFICES ASSUME B # {} PROVE FALSE
  OBVIOUS
<1>1. PICK T \in B : \A U \in B : ~(U \subseteq T /\ U # T)
  <2>1. B \in SUBSET (SUBSET S)
    OBVIOUS
  <2> HIDE DEF B
  <2> QED
    BY <2>1, Smallest
<1>2. \A U \in SUBSET T : U # T => Good(U)
  <2> HIDE DEF Good
  <2> QED
    BY <1>1
<1>3. T # {}
  <2>1. Good({})
    BY SumEmpty
  <2> HIDE DEF Good
  <2> QED
    BY <1>1, <2>1
<1> DEFINE c == CHOOSE x \in T : TRUE
<1>4. c \in T
  BY <1>3
<1>5. SumFunctionOnSet(f, T) = f[c] + SumFunctionOnSet(f, T \ {c})
  <2>1. IsFiniteSet(T)
    BY <1>1, FS_Subset
  <2> QED
    BY <1>3, <2>1, SumStep
<1> HIDE DEF c
<1>6. Good(T \ {c}) /\ f[c] \in Nat
  <2> HIDE DEF Good
  <2> QED
    BY <1>1, <1>2, <1>4
<1>7. ASSUME NEW x \in T PROVE SumFunctionOnSet(f, T) = f[x] + SumFunctionOnSet(f, T \ {x})
  <2>1. CASE x = c
    BY <1>5, <2>1
  <2>2. CASE x # c
    <3>1. x \in T \ {c} /\ c \in T \ {x}
      BY <1>4, <2>2
    <3>2. Good(T \ {x})
      <4> HIDE DEF Good
      <4> QED
        BY <1>2
    <3>3. SumFunctionOnSet(f, T \ {c}) = f[x] + SumFunctionOnSet(f, (T \ {c}) \ {x})
      BY <1>6, <3>1
    <3>4. SumFunctionOnSet(f, T \ {x}) = f[c] + SumFunctionOnSet(f, (T \ {x}) \ {c})
      BY <3>1, <3>2
    <3>5. Good(T \ {c, x})
      <4> HIDE DEF Good
      <4> QED
        BY <1>2
    <3>6. (T \ {c}) \ {x} = T \ {c, x} /\ (T \ {x}) \ {c} = T \ {c, x}
      OBVIOUS
    <3>7. PICK n \in Nat : n = SumFunctionOnSet(f, T \ {c, x})
      BY <3>5
    <3>8. SumFunctionOnSet(f, T \ {c}) = f[x] + n /\ SumFunctionOnSet(f, T \ {x}) = f[c] + n
      BY <3>3, <3>4, <3>6, <3>7
    <3>9. f[x] \in Nat /\ f[c] + (f[x] + n) = f[x] + (f[c] + n)
      BY <1>1, <1>6
    <3> QED
      BY <1>5, <3>8, <3>9
  <2> QED
    BY <2>1, <2>2
<1>8. SumFunctionOnSet(f, T) \in Nat
  BY <1>5, <1>6
<1> QED
  BY <1>1, <1>7, <1>8

LEMMA SumAdd ==
    ASSUME NEW f, NEW S, IsFiniteSet(S), NEW x, x \notin S,
           \A y \in S \cup {x} : f[y] \in Nat
    PROVE  SumFunctionOnSet(f, S \cup {x}) = f[x] + SumFunctionOnSet(f, S)
<1>1. IsFiniteSet(S \cup {x}) /\ (S \cup {x}) \ {x} = S
  BY FS_AddElement
<1> QED
  BY <1>1, SumRemove

\* The sum of f over S is at most the sum of g over R, when f is zero on S
\* outside R and at most g inside.
LEMMA SumMonotone ==
    ASSUME NEW f, NEW g, NEW S, NEW R, IsFiniteSet(S), IsFiniteSet(R),
           \A x \in R : g[x] \in Nat,
           \A x \in S : f[x] \in Nat /\ ((x \in R /\ f[x] <= g[x]) \/ f[x] = 0)
    PROVE  SumFunctionOnSet(f, S) <= SumFunctionOnSet(g, R)
<1> DEFINE U == S \cup R
           G == {T \in SUBSET U :
                    SumFunctionOnSet(f, S \cap T) <= SumFunctionOnSet(g, R \cap T)}
<1>1. {} \in G
  <2>1. S \cap {} = {} /\ R \cap {} = {}
    OBVIOUS
  <2>2. SumFunctionOnSet(f, S \cap {}) = 0 /\ SumFunctionOnSet(g, R \cap {}) = 0
    BY <2>1, SumEmpty
  <2> QED
    BY <2>2
<1>2. ASSUME NEW T \in SUBSET U, NEW x \in U \ T, T \in G PROVE T \cup {x} \in G
  <2> DEFINE P == S \cap T
             Q == R \cap T
             P1 == S \cap (T \cup {x})
             Q1 == R \cap (T \cup {x})
  <2>1. /\ IsFiniteSet(P) /\ IsFiniteSet(Q) /\ x \notin P /\ x \notin Q
        /\ \A y \in P : f[y] \in Nat
        /\ \A y \in Q : g[y] \in Nat
    BY FS_Subset
  <2>2. /\ x \in S => P1 = P \cup {x}
        /\ x \notin S => P1 = P
        /\ x \in R => Q1 = Q \cup {x}
        /\ x \notin R => Q1 = Q
    OBVIOUS
  <2>3. SumFunctionOnSet(f, P) <= SumFunctionOnSet(g, Q)
    BY <1>2
  <2> HIDE DEF P, Q, P1, Q1
  <2>4. PICK m \in Nat : m = SumFunctionOnSet(f, P)
    BY <2>1, SumRemove
  <2>5. PICK n \in Nat : n = SumFunctionOnSet(g, Q)
    BY <2>1, SumRemove
  <2>6. x \in S => SumFunctionOnSet(f, P1) = f[x] + m
    BY <2>1, <2>2, <2>4, SumAdd
  <2>7. x \in R => SumFunctionOnSet(g, Q1) = g[x] + n
    BY <2>1, <2>2, <2>5, SumAdd
  <2>8. /\ x \notin S => SumFunctionOnSet(f, P1) = m
        /\ x \notin R => SumFunctionOnSet(g, Q1) = n
    BY <2>2, <2>4, <2>5
  <2>9. m <= n
    BY <2>3, <2>4, <2>5
  <2>10. SumFunctionOnSet(f, P1) <= SumFunctionOnSet(g, Q1)
    <3>1. x \in R => g[x] \in Nat
      OBVIOUS
    <3>2. x \in S => f[x] \in Nat /\ ((x \in R /\ f[x] <= g[x]) \/ f[x] = 0)
      OBVIOUS
    <3>3. CASE x \in S /\ x \in R
      BY <2>6, <2>7, <2>9, <3>1, <3>2, <3>3
    <3>4. CASE x \in S /\ x \notin R
      BY <2>6, <2>8, <2>9, <3>2, <3>4
    <3>5. CASE x \notin S /\ x \in R
      BY <2>7, <2>8, <2>9, <3>1, <3>5
    <3> QED
      BY <2>8, <2>9, <3>3, <3>4, <3>5
  <2> QED
    BY <2>10 DEF P1, Q1
<1>3. U \in G
  <2>1. IsFiniteSet(U)
    BY FS_Union
  <2> HIDE DEF G, U
  <2> QED
    BY <1>1, <1>2, <2>1, SetInduction
<1>4. S \cap U = S /\ R \cap U = R
  OBVIOUS
<1>5. SumFunctionOnSet(f, S \cap U) <= SumFunctionOnSet(g, R \cap U)
  BY <1>3
<1> HIDE DEF U
<1> QED
  BY <1>4, <1>5

LEMMA SumPlus ==
    ASSUME NEW f, NEW g, NEW h, NEW S, IsFiniteSet(S),
           \A x \in S : f[x] \in Nat /\ g[x] \in Nat /\ h[x] = f[x] + g[x]
    PROVE  SumFunctionOnSet(h, S) = SumFunctionOnSet(f, S) + SumFunctionOnSet(g, S)
<1> DEFINE G == {T \in SUBSET S : SumFunctionOnSet(h, T) = SumFunctionOnSet(f, T) + SumFunctionOnSet(g, T)}
<1>1. {} \in G
  BY SumEmpty
<1>2. ASSUME NEW T \in SUBSET S, NEW x \in S \ T, T \in G PROVE T \cup {x} \in G
  <2>1. IsFiniteSet(T) /\ \A y \in T \cup {x} : h[y] \in Nat
    BY FS_Subset
  <2>2. /\ SumFunctionOnSet(f, T \cup {x}) = f[x] + SumFunctionOnSet(f, T)
        /\ SumFunctionOnSet(g, T \cup {x}) = g[x] + SumFunctionOnSet(g, T)
        /\ SumFunctionOnSet(h, T \cup {x}) = h[x] + SumFunctionOnSet(h, T)
    BY <2>1, SumAdd
  <2>3. SumFunctionOnSet(f, T) \in Nat /\ SumFunctionOnSet(g, T) \in Nat
    BY <2>1, SumRemove
  <2> QED
    BY <1>2, <2>2, <2>3
<1>3. S \in G
  <2> HIDE DEF G
  <2> QED
    BY <1>1, <1>2, SetInduction
<1> QED
  BY <1>3

LEMMA SumBound ==
    ASSUME NEW f, NEW S, IsFiniteSet(S), NEW m \in Nat,
           \A x \in S : f[x] \in Nat /\ f[x] <= m
    PROVE  SumFunctionOnSet(f, S) <= Cardinality(S) * m
<1> DEFINE G == {T \in SUBSET S : SumFunctionOnSet(f, T) <= Cardinality(T) * m}
<1>1. {} \in G
  BY SumEmpty, FS_EmptySet
<1>2. ASSUME NEW T \in SUBSET S, NEW x \in S \ T, T \in G PROVE T \cup {x} \in G
  <2>1. IsFiniteSet(T)
    BY FS_Subset
  <2>2. SumFunctionOnSet(f, T \cup {x}) = f[x] + SumFunctionOnSet(f, T) /\ SumFunctionOnSet(f, T) \in Nat
    BY <2>1, SumAdd, SumRemove
  <2>3. Cardinality(T \cup {x}) = Cardinality(T) + 1 /\ Cardinality(T) \in Nat
    BY <2>1, FS_AddElement, FS_CardinalityType
  <2>4. (Cardinality(T) + 1) * m = Cardinality(T) * m + m /\ Cardinality(T) * m \in Nat
    BY <2>3
  <2> QED
    BY <1>2, <2>2, <2>3, <2>4
<1>3. S \in G
  <2> HIDE DEF G
  <2> QED
    BY <1>1, <1>2, SetInduction
<1> QED
  BY <1>3

-----------------------------------------------------------------------------
(* Prices and candidates.                                                   *)

LEMMA CostIsNat ==
    ASSUME NEW p \in DOMAIN Pricing, NEW prompt \in Nat, NEW completion \in Nat
    PROVE  CalculateCost(p, prompt, completion) \in Nat
<1>1. \A n, rate \in Nat : PerThousand(n, rate) \in Nat
  <2>1. \A k \in Nat : (k + 999) \div 1000 \in Nat
    OBVIOUS
  <2>2. \A n, rate \in Nat : n * rate \in Nat
    OBVIOUS
  <2> QED
    BY <2>1, <2>2 DEF PerThousand
<1>2. Pricing[p].in \in Nat /\ Pricing[p].out \in Nat
  BY BudgetAssumption
<1>3. /\ PerThousand(prompt, Pricing[p].in) \in Nat
      /\ PerThousand(completion, Pricing[p].out) \in Nat
  BY <1>1, <1>2, Zenon
<1>4. \A m, n \in Nat : m + n \in Nat
  OBVIOUS
<1> QED
  BY <1>3, <1>4, Zenon DEF CalculateCost

LEMMA CandidateList ==
    ASSUME NEW c \in CandidateLists
    PROVE  /\ c \in Seq(Range(c)) /\ \A i \in DOMAIN c : c[i] \in Candidates
           /\ \A i, j \in DOMAIN c : c[i] = c[j] => i = j
           /\ DOMAIN c \subseteq Nat \ {0}
<1>1. c \in Seq(Range(c)) /\ IsInjective(c)
  BY BudgetAssumption
<1>2. DOMAIN c = 1..Len(c) /\ Len(c) \in Nat
  BY <1>1
<1>3. \A i \in DOMAIN c : c[i] \in Candidates
  BY DEF Candidates, Range
<1> QED
  BY <1>1, <1>2, <1>3 DEF IsInjective

LEMMA Constants ==
    /\ DailyLimit \in Nat /\ MaxConcurrent \in Nat \ {0} /\ IsFiniteSet(Requests)
    /\ Day \subseteq Nat /\ MaxDay \in Nat
    /\ MaxTokens \subseteq Nat /\ PromptTokens \subseteq Nat /\ OutputTokens \subseteq Nat
BY BudgetAssumption DEF Day

-----------------------------------------------------------------------------
(* The parts of the invariant.                                              *)

RequestOK(r) ==
    /\ LoopOK(r) /\ CallsOK(r) /\ RowOK(r)
    /\ req[r].answer \in {"completed", "blocked_by_policy", "budget_exceeded"}
           => ai_runs[r].status = req[r].answer
    /\ ai_runs[r] # NoRun => req[r].answer \in {"write_failed", ai_runs[r].status}

Typed ==
    /\ ai_runs \in [Requests -> Run \cup {NoRun}]
    /\ external_ai_enabled \in BOOLEAN
    /\ today \in Day
    /\ req \in [Requests -> Invocation]
    /\ calls \in [Requests -> Seq(Call)]

Overlap == Cardinality(Active) <= MaxConcurrent

LEMMA Parts ==
    Inv <=> Typed /\ (\A r \in Requests : RequestOK(r)) /\ DailyRoom /\ Overlap
BY DEF Inv, TypeOK, Typed, RequestOK, AnsweredIsRecorded, Overlap, LoopOK, Current

LEMMA PartsNext ==
    ASSUME Typed', \A r \in Requests : RequestOK(r)', DailyRoom', Overlap'
    PROVE  Inv'
BY DEF Inv, TypeOK, Typed, RequestOK, AnsweredIsRecorded, Overlap, LoopOK, Current

LEMMA InitInv == Init => Inv
<1> SUFFICES ASSUME Init PROVE Inv
  OBVIOUS
<1>1. Typed
  <2>1. Idle \in Invocation
    <3>1. 0 \in Day /\ <<>> \in CandidateLists \cup {<<>>}
      BY Constants DEF Day
    <3> QED
      BY <3>1 DEF Idle, Invocation, Steps, Answers
  <2>2. today \in Day
    BY Constants DEF Init, Day
  <2>3. <<>> \in Seq(Call)
    OBVIOUS
  <2> QED
    BY <2>1, <2>2, <2>3 DEF Init, Typed
<1>2. ASSUME NEW r \in Requests PROVE RequestOK(r)
  BY <1>2 DEF Init, RequestOK, LoopOK, CallsOK, RowOK, Idle, NoRun
<1>3. Active = {}
  BY DEF Init, Active, Idle
<1>4. \A d \in Day : Counted(d) = {}
  BY DEF Init, Counted, CompletedIn, Recorded, MayStillCount, Idle
<1>5. DailyRoom /\ Overlap
  BY <1>3, <1>4, FS_EmptySet, Constants DEF DailyRoom, Overlap
<1> QED
  BY <1>1, <1>2, <1>5, Parts

-----------------------------------------------------------------------------
(* A request steps.                                                         *)

LEMMA FiniteParts ==
    /\ IsFiniteSet(Active)
    /\ \A d : IsFiniteSet(Counted(d)) /\ IsFiniteSet(CompletedIn({d}))
<1>1. \A S \in SUBSET Requests : IsFiniteSet(S)
  BY Constants, FS_Subset
<1>2. Active \in SUBSET Requests
  BY DEF Active
<1>3. \A d : Counted(d) \in SUBSET Requests /\ CompletedIn({d}) \in SUBSET Requests
  BY DEF Counted, CompletedIn, Recorded
<1> QED
  BY <1>1, <1>2, <1>3

\* A request counts in a day when it has a completed row of the day or may
\* still get one.
Counts(r, d) ==
    \/ ai_runs[r] # NoRun /\ ai_runs[r].status = "completed" /\ ai_runs[r].day = d
    \/ MayStillCount(r, d)

LEMMA CountedIs == \A d : Counted(d) = {r \in Requests : Counts(r, d)}
BY DEF Counted, Counts, CompletedIn, Recorded

LEMMA CountedNext == \A d : Counted(d)' = {r \in Requests : Counts(r, d)'}
BY DEF Counted, Counts, CompletedIn, Recorded

\* One request's step: what it holds becomes x, its calls cs, its row row.
Becomes(r, x, cs, row) ==
    /\ req' = [req EXCEPT ![r] = x] /\ calls' = [calls EXCEPT ![r] = cs]
    /\ ai_runs' = [ai_runs EXCEPT ![r] = row]
    /\ UNCHANGED <<today, external_ai_enabled>>

LEMMA RequestStep ==
    ASSUME Inv, NEW r \in Requests, NEW x \in Invocation, NEW cs \in Seq(Call),
           NEW row \in Run \cup {NoRun}, Becomes(r, x, cs, row), RequestOK(r)'
    PROVE  Typed' /\ \A q \in Requests : RequestOK(q)'
<1>1. Typed /\ \A q \in Requests : RequestOK(q)
  BY Parts
<1>2. Typed'
  BY <1>1 DEF Typed, Becomes
<1>3. ASSUME NEW q \in Requests, q # r PROVE RequestOK(q)'
  <2>1. req'[q] = req[q] /\ calls'[q] = calls[q] /\ ai_runs'[q] = ai_runs[q] /\ today' = today
    BY <1>1, <1>3 DEF Typed, Becomes
  <2> QED
    BY <1>1, <2>1 DEF RequestOK, LoopOK, CallsOK, RowOK, Current
<1> QED
  BY <1>2, <1>3

\* A request that goes on, or ends, does not add to the overlap.
LEMMA OverlapKept ==
    ASSUME Inv, NEW r \in Requests, NEW x, NEW cs, NEW row, Becomes(r, x, cs, row),
           req[r].step \notin {"idle", "done"}
    PROVE  Overlap'
<1>1. Active' \subseteq Active
  BY Parts DEF Active, Typed, Becomes
<1>2. Cardinality(Active)' <= Cardinality(Active)
  BY <1>1, FiniteParts, FS_Subset
<1> QED
  BY <1>2, Parts, Constants, FiniteParts, FS_CardinalityType, FS_Subset, <1>1 DEF Overlap

\* A step after which the request counts in no further day leaves the room.
LEMMA RoomKept ==
    ASSUME Inv, NEW r \in Requests, NEW x, NEW cs, NEW row, Becomes(r, x, cs, row),
           \A d \in Day : Counts(r, d)' => Counts(r, d)
    PROVE  DailyRoom'
<1>1. ASSUME NEW q \in Requests, q # r, NEW d \in Day PROVE Counts(q, d)' <=> Counts(q, d)
  <2>1. req'[q] = req[q] /\ ai_runs'[q] = ai_runs[q]
    BY <1>1, Parts DEF Typed, Becomes
  <2> QED
    BY <2>1 DEF Counts, MayStillCount
<1>2. ASSUME NEW d \in Day
      PROVE  Cardinality(Counted(d)') <= DailyLimit + MaxConcurrent - 1
  <2>1. Counted(d)' \subseteq Counted(d)
    BY <1>1, CountedIs, CountedNext
  <2>2. IsFiniteSet(Counted(d))
    BY FiniteParts
  <2>3. /\ Cardinality(Counted(d)') <= Cardinality(Counted(d))
        /\ IsFiniteSet(Counted(d)')
    BY <2>1, <2>2, FS_Subset
  <2>4. Cardinality(Counted(d)) \in Nat /\ Cardinality(Counted(d)') \in Nat
    BY <2>2, <2>3, FS_CardinalityType
  <2>5. Cardinality(Counted(d)) <= DailyLimit + MaxConcurrent - 1
    BY Parts DEF DailyRoom
  <2> QED
    BY <2>3, <2>4, <2>5, Constants
<1> QED
  BY <1>2 DEF DailyRoom

\* What is known of a request at an await.
LEMMA AtAwait ==
    ASSUME Inv, NEW r \in Requests
    PROVE  /\ req[r] \in Invocation /\ calls[r] \in Seq(Call)
           /\ ai_runs[r] \in Run \cup {NoRun} /\ RequestOK(r)
           /\ today \in Day /\ req[r].at \in Nat /\ req[r].day \in Nat
           /\ req[r].max \in Nat
<1>1. req[r] \in Invocation /\ Typed /\ RequestOK(r)
  BY Parts DEF Typed
<1>2. req[r].at \in Nat /\ req[r].day \in Day /\ req[r].max \in MaxTokens \cup {0}
  BY <1>1 DEF Invocation
<1>3. req[r].day \in Nat /\ req[r].max \in Nat
  <2>1. Day \subseteq Nat /\ MaxTokens \subseteq Nat
    BY Constants
  <2>2. req[r].day \in Nat
    BY <1>2, <2>1, Zenon
  <2>3. 0 \in Nat
    OBVIOUS
  <2>4. req[r].max \in Nat
    BY <1>2, <2>1, <2>3, Zenon
  <2> QED
    BY <2>2, <2>4
<1>4. calls[r] \in Seq(Call) /\ ai_runs[r] \in Run \cup {NoRun} /\ today \in Day
  BY <1>1 DEF Typed
<1> QED
  BY <1>1, <1>2, <1>3, <1>4

\* A step that leaves calls and rows alone.
LEMMA Holds ==
    ASSUME NEW r \in Requests, NEW x, Inv, req' = [req EXCEPT ![r] = x],
           UNCHANGED <<ai_runs, external_ai_enabled, today, calls>>
    PROVE  Becomes(r, x, calls[r], ai_runs[r]) /\ req'[r] = x
BY Parts DEF Becomes, Typed

LEMMA AnswerInv ==
    ASSUME Inv, NEW r \in Requests, req[r].step \notin {"idle", "save", "done"},
           NEW a \in Answers \ {"none", "completed", "blocked_by_policy", "budget_exceeded"},
           Answer(r, a), UNCHANGED <<ai_runs, external_ai_enabled, today, calls>>
    PROVE  Inv'
<1> DEFINE x == [req[r] EXCEPT !.step = "done", !.answer = a]
<1>1. x \in Invocation /\ x.step = "done" /\ x.answer = a
      /\ x.candidates = req[r].candidates /\ x.at = req[r].at /\ x.max = req[r].max
      /\ x.day = req[r].day /\ x.run = req[r].run
  BY AtAwait DEF Invocation, Steps
<1>2. req' = [req EXCEPT ![r] = x]
  BY DEF Answer
<1> HIDE DEF x
<1>3. Becomes(r, x, calls[r], ai_runs[r]) /\ req'[r] = x
  BY <1>2, Holds
<1>4. RequestOK(r)'
  BY <1>1, <1>3, AtAwait DEF RequestOK, LoopOK, CallsOK, RowOK, Current, NoRun
<1>5. \A d \in Day : Counts(r, d)' => Counts(r, d)
  BY <1>1, <1>3 DEF Counts, MayStillCount
<1> QED
  BY <1>1, <1>3, <1>4, <1>5, AtAwait, RequestStep, OverlapKept, RoomKept, PartsNext

\* A row that does not complete is built.
LEMMA RefusalInv ==
    ASSUME Inv, NEW r \in Requests, req[r].step \notin {"idle", "save", "done"},
           NEW s \in {"blocked_by_policy", "budget_exceeded"}, Saving(r, s, 0),
           UNCHANGED <<ai_runs, external_ai_enabled, today, calls>>
    PROVE  Inv'
<1> DEFINE row == [status |-> s, cost |-> 0, day |-> today]
           x == [req[r] EXCEPT !.step = "save", !.run = row]
<1>1. row \in Run /\ row.status = s
  BY AtAwait DEF Run
<1>2. req' = [req EXCEPT ![r] = x]
  BY DEF Saving
<1> HIDE DEF row
<1>3. x \in Invocation /\ x.step = "save" /\ x.run = row
      /\ x.candidates = req[r].candidates /\ x.at = req[r].at /\ x.max = req[r].max
      /\ x.day = req[r].day /\ x.answer = req[r].answer
  BY <1>1, AtAwait DEF Invocation, Steps
<1> HIDE DEF x
<1>4. Becomes(r, x, calls[r], ai_runs[r]) /\ req'[r] = x
  BY <1>2, Holds
<1>5. RequestOK(r)'
  BY <1>1, <1>3, <1>4, AtAwait DEF RequestOK, LoopOK, CallsOK, RowOK, Current, NoRun
<1>6. \A d \in Day : Counts(r, d)' => Counts(r, d)
  BY <1>1, <1>3, <1>4 DEF Counts, MayStillCount
<1> QED
  BY <1>3, <1>4, <1>5, <1>6, AtAwait, RequestStep, OverlapKept, RoomKept, PartsNext

-----------------------------------------------------------------------------
(* The actions.                                                             *)

LEMMA ReceiveInv ==
    ASSUME Inv, NEW r \in Requests, Receive(r)
    PROVE  Inv'
<1>1. PICK c \in CandidateLists, m \in MaxTokens :
          req' = [req EXCEPT ![r].step = "policy", ![r].candidates = c, ![r].max = m]
  BY DEF Receive
<1> DEFINE x == [req[r] EXCEPT !.step = "policy", !.candidates = c, !.max = m]
<1>2. req[r].step = "idle" /\ UNCHANGED <<ai_runs, external_ai_enabled, today, calls>>
  BY DEF Receive, At
<1>3. x \in Invocation /\ x.step = "policy" /\ x.candidates = c
      /\ x.at = req[r].at /\ x.day = req[r].day /\ x.run = req[r].run
      /\ x.answer = req[r].answer
  BY AtAwait DEF Invocation, Steps
<1>4. req' = [req EXCEPT ![r] = x]
  BY <1>1
<1> HIDE DEF x
<1>5. Becomes(r, x, calls[r], ai_runs[r]) /\ req'[r] = x
  BY <1>2, <1>4, Holds
<1>6. RequestOK(r)'
  BY <1>2, <1>3, <1>5, AtAwait DEF RequestOK, LoopOK, CallsOK, RowOK, NoRun
<1>7. \A d \in Day : Counts(r, d)' => Counts(r, d)
  BY <1>2, <1>3, <1>5 DEF Counts, MayStillCount
<1>8. Overlap'
  <2>1. Active' \subseteq Active \cup {r}
    BY <1>5, Parts DEF Active, Typed, Becomes
  <2>2. IsFiniteSet(Active) /\ IsFiniteSet(Active \cup {r})
    BY FiniteParts, FS_AddElement
  <2>3. Cardinality(Active \cup {r}) <= Cardinality(Active) + 1
    <3>1. r \notin Active
      BY <1>2 DEF Active
    <3>2. Cardinality(Active \cup {r}) = Cardinality(Active) + 1
      BY <3>1, FiniteParts, FS_AddElement
    <3>3. Cardinality(Active) \in Nat
      BY FiniteParts, FS_CardinalityType
    <3> QED
      BY <3>2, <3>3
  <2>4. Cardinality(Active') <= Cardinality(Active \cup {r}) /\ IsFiniteSet(Active')
    BY <2>1, <2>2, FS_Subset
  <2>5. /\ Cardinality(Active) \in Nat /\ Cardinality(Active') \in Nat
        /\ Cardinality(Active \cup {r}) \in Nat
    BY <2>2, <2>4, FS_CardinalityType
  <2>6. Cardinality(Active) < MaxConcurrent
    BY DEF Receive
  <2> QED
    BY <2>3, <2>4, <2>5, <2>6, Constants DEF Overlap
<1> QED
  BY <1>3, <1>5, <1>6, <1>7, <1>8, AtAwait, RequestStep, RoomKept, PartsNext

\* The request is at its next step with nothing else changed but its day.
LEMMA AdvanceInv ==
    ASSUME Inv, NEW r \in Requests, req[r].step \notin {"idle", "save", "done"},
           NEW s \in {"daily", "generate"}, NEW day \in {req[r].day, today},
           s = "generate" => req[r].step = "monthly" /\ req[r].at # 0 /\ day = req[r].day,
           req' = [req EXCEPT ![r].step = s, ![r].day = day],
           UNCHANGED <<ai_runs, external_ai_enabled, today, calls>>
    PROVE  Inv'
<1> DEFINE x == [req[r] EXCEPT !.step = s, !.day = day]
<1>1. day \in Day /\ day <= today
  BY AtAwait, Constants DEF RequestOK, RowOK, Invocation
<1>2. x \in Invocation /\ x.step = s /\ x.candidates = req[r].candidates
      /\ x.at = req[r].at /\ x.max = req[r].max /\ x.day = day /\ x.run = req[r].run
      /\ x.answer = req[r].answer
  BY <1>1, AtAwait DEF Invocation, Steps
<1>3. req' = [req EXCEPT ![r] = x]
  OBVIOUS
<1> HIDE DEF x
<1>4. Becomes(r, x, calls[r], ai_runs[r]) /\ req'[r] = x
  BY <1>3, Holds
<1>5. RequestOK(r)'
  <2>1. RequestOK(r) /\ calls' = calls /\ ai_runs' = ai_runs /\ today' = today
    BY AtAwait
  <2>2. LoopOK(r)'
    BY <1>2, <1>4, <2>1 DEF RequestOK, LoopOK, Current
  <2>3. CallsOK(r)'
    <3>1. CallsOK(r) /\ calls'[r] = calls[r]
      BY <2>1 DEF RequestOK
    <3>2. /\ req'[r].candidates = req[r].candidates /\ req'[r].at = req[r].at
          /\ req[r].step \notin {"save", "done"}
      BY <1>2, <1>4
    <3>3. \A i, j \in DOMAIN calls[r] : i < j =>
              /\ calls[r][i].outcome = "failed"
              /\ calls[r][i].provider # calls[r][j].provider
      BY <3>1 DEF CallsOK
    <3>4. ASSUME NEW i \in DOMAIN calls[r]
          PROVE  /\ calls[r][i].outcome = "failed"
                 /\ \E k \in DOMAIN req[r].candidates :
                        k < req[r].at /\ calls[r][i].provider = req[r].candidates[k]
      BY <3>1, <3>2 DEF CallsOK
    <3>5. ASSUME NEW i \in DOMAIN calls'[r]
          PROVE  /\ calls'[r][i].outcome = "failed"
                 /\ \E k \in DOMAIN req'[r].candidates :
                        k < req'[r].at /\ calls'[r][i].provider = req'[r].candidates[k]
      BY <3>1, <3>2, <3>4, Zenon
    <3>6. \A i, j \in DOMAIN calls'[r] : i < j =>
              /\ calls'[r][i].outcome = "failed"
              /\ calls'[r][i].provider # calls'[r][j].provider
      BY <3>1, <3>3, Zenon
    <3> QED
      BY <3>5, <3>6, Zenon DEF CallsOK
  <2>4. RowOK(r)'
    BY <1>1, <1>2, <1>4, <2>1 DEF RequestOK, RowOK, NoRun
  <2> QED
    BY <1>2, <1>4, <2>1, <2>2, <2>3, <2>4 DEF RequestOK
<1>6. \A d \in Day : Counts(r, d)' => Counts(r, d)
  BY <1>2, <1>4 DEF Counts, MayStillCount
<1> QED
  BY <1>2, <1>4, <1>5, <1>6, AtAwait, RequestStep, OverlapKept, RoomKept, PartsNext

LEMMA CheckPolicyInv ==
    ASSUME Inv, NEW r \in Requests, CheckPolicy(r)
    PROVE  Inv'
<1>1. req[r].step = "policy" /\ UNCHANGED <<ai_runs, external_ai_enabled, today, calls>>
  BY DEF CheckPolicy, At
<1>2. CASE req' = [req EXCEPT ![r].step = "daily", ![r].day = today]
  BY <1>1, <1>2, AdvanceInv
<1>3. CASE Saving(r, "blocked_by_policy", 0)
  BY <1>1, <1>3, RefusalInv
<1> QED
  BY <1>2, <1>3 DEF CheckPolicy

\* The daily count leaves room for whoever overlaps with this request.
LEMMA CountDailyInv ==
    ASSUME Inv, NEW r \in Requests, CountDaily(r)
    PROVE  Inv'
<1>1. req[r].step = "daily" /\ UNCHANGED <<ai_runs, external_ai_enabled, today, calls>>
  BY DEF CountDaily, At
<1>2. CASE Saving(r, "budget_exceeded", 0)
  BY <1>1, <1>2, RefusalInv
<1>3. CASE ~(DailyCount(req[r].day) >= DailyLimit) /\ req' = [req EXCEPT ![r].step = "monthly"]
  <2> DEFINE x == [req[r] EXCEPT !.step = "monthly"]
  <2>1. x \in Invocation /\ x.step = "monthly" /\ x.candidates = req[r].candidates
        /\ x.at = req[r].at /\ x.max = req[r].max /\ x.day = req[r].day
        /\ x.run = req[r].run /\ x.answer = req[r].answer
    BY AtAwait DEF Invocation, Steps
  <2>2. req' = [req EXCEPT ![r] = x]
    BY <1>3
  <2> HIDE DEF x
  <2>3. Becomes(r, x, calls[r], ai_runs[r]) /\ req'[r] = x
    BY <1>1, <2>2, Holds
  <2>4. RequestOK(r)'
    BY <1>1, <2>1, <2>3, AtAwait DEF RequestOK, LoopOK, CallsOK, RowOK, Current, NoRun
  <2>5. ASSUME NEW d \in Day
        PROVE  Cardinality(Counted(d)') <= DailyLimit + MaxConcurrent - 1
    <3>1. CASE d < req[r].day
      <4>1. ASSUME NEW q \in Requests PROVE Counts(q, d)' <=> Counts(q, d)
        <5>1. CASE q = r
          BY <1>1, <2>1, <2>3, <3>1, <5>1, AtAwait, Constants DEF Counts, MayStillCount
        <5>2. CASE q # r
          BY <1>1, <2>2, <5>2, Parts DEF Counts, MayStillCount, Typed
        <5> QED
          BY <5>1, <5>2
      <4>2. Counted(d)' = Counted(d)
        BY <4>1, CountedIs, CountedNext
      <4> QED
        BY <4>2, Parts DEF DailyRoom
    <3>2. CASE req[r].day <= d
      <4> DEFINE done == CompletedIn({d})
                 open == {q \in Requests : MayStillCount(q, d)'}
      <4>1. Counted(d)' = done \cup open
        BY <1>1 DEF Counted, CompletedIn, Recorded
      <4>2. open \subseteq Active
        BY <1>1, <2>2, Parts DEF Active, MayStillCount, Typed
      <4>3. IsFiniteSet(Active) /\ IsFiniteSet(done) /\ IsFiniteSet(open)
            /\ Cardinality(open) <= Cardinality(Active)
        BY <4>2, FiniteParts, FS_Subset
      <4>4. done \subseteq {q \in Recorded : ai_runs[q].day >= req[r].day}
        BY <3>2, AtAwait, Constants DEF CompletedIn, Recorded
      <4>5. Cardinality(done) <= DailyCount(req[r].day) /\ DailyCount(req[r].day) \in Nat
        <5>1. IsFiniteSet({q \in Recorded : ai_runs[q].day >= req[r].day})
          BY Constants, FS_Subset DEF Recorded
        <5> QED
          BY <4>4, <5>1, FS_Subset, FS_CardinalityType DEF DailyCount
      <4>6. /\ Cardinality(done) \in Nat /\ Cardinality(open) \in Nat
            /\ Cardinality(Active) \in Nat /\ Cardinality(done \cap open) \in Nat
        BY <4>3, FS_CardinalityType, FS_Intersection
      <4>7. Cardinality(done \cup open)
                = Cardinality(done) + Cardinality(open) - Cardinality(done \cap open)
        BY <4>3, FS_Union
      <4>8. Cardinality(Active) <= MaxConcurrent
        BY Parts DEF Overlap
      <4> HIDE DEF done, open
      <4> QED
        BY <1>3, <4>1, <4>3, <4>5, <4>6, <4>7, <4>8, Constants
    <3> QED
      BY <3>1, <3>2, AtAwait, Constants
  <2>6. DailyRoom'
    BY <2>5 DEF DailyRoom
  <2> QED
    BY <1>1, <2>1, <2>3, <2>4, <2>6, AtAwait, RequestStep, OverlapKept, PartsNext
<1> QED
  BY <1>2, <1>3 DEF CountDaily

\* The list a request goes through.
LEMMA ListOf ==
    ASSUME Inv, NEW r \in Requests
    PROVE  /\ DOMAIN req[r].candidates \subseteq Nat \ {0}
           /\ \A i \in DOMAIN req[r].candidates : req[r].candidates[i] \in Candidates
           /\ \A i, j \in DOMAIN req[r].candidates :
                  req[r].candidates[i] = req[r].candidates[j] => i = j
<1>1. req[r].candidates \in CandidateLists \cup {<<>>}
  BY AtAwait DEF Invocation
<1>2. CASE req[r].candidates = <<>>
  BY <1>2
<1> QED
  BY <1>1, <1>2, CandidateList

\* Calls of candidates up to the current one, all failed but perhaps the last.
InOrder(cs) ==
    \A i, j \in DOMAIN cs :
        i < j => cs[i].outcome = "failed" /\ cs[i].provider # cs[j].provider
AllFailed(r, cs) ==
    \A i \in DOMAIN cs :
        /\ cs[i].outcome = "failed"
        /\ \E k \in DOMAIN req[r].candidates :
               k <= req[r].at /\ cs[i].provider = req[r].candidates[k]

\* A request ends without a row, with its calls.
LEMMA GiveUpInv ==
    ASSUME Inv, NEW r \in Requests, req[r].step \notin {"idle", "save", "done"},
           NEW a \in Answers \ {"none", "completed", "blocked_by_policy", "budget_exceeded"},
           NEW cs \in Seq(Call), InOrder(cs), calls' = [calls EXCEPT ![r] = cs],
           Answer(r, a), UNCHANGED <<ai_runs, external_ai_enabled, today>>
    PROVE  Inv'
<1> DEFINE x == [req[r] EXCEPT !.step = "done", !.answer = a]
<1>1. x \in Invocation /\ x.step = "done" /\ x.answer = a
      /\ x.candidates = req[r].candidates /\ x.at = req[r].at /\ x.max = req[r].max
      /\ x.day = req[r].day /\ x.run = req[r].run
  BY AtAwait DEF Invocation, Steps
<1>2. req' = [req EXCEPT ![r] = x]
  BY DEF Answer
<1> HIDE DEF x
<1>3. Becomes(r, x, cs, ai_runs[r]) /\ req'[r] = x /\ calls'[r] = cs
  BY <1>2, Parts DEF Becomes, Typed
<1>4. RequestOK(r)'
  <2>1. RequestOK(r) /\ ai_runs' = ai_runs /\ today' = today
    BY AtAwait
  <2>2. LoopOK(r)'
    BY <1>1, <1>3, <2>1 DEF RequestOK, LoopOK, Current
  <2>3. CallsOK(r)'
    BY <1>1, <1>3 DEF CallsOK, InOrder
  <2>4. RowOK(r)'
    BY <1>1, <1>3, <2>1 DEF RequestOK, RowOK, NoRun
  <2> QED
    BY <1>1, <1>3, <2>1, <2>2, <2>3, <2>4 DEF RequestOK, RowOK
<1>5. \A d \in Day : Counts(r, d)' => Counts(r, d)
  BY <1>1, <1>3 DEF Counts, MayStillCount
<1> QED
  BY <1>1, <1>3, <1>4, <1>5, AtAwait, RequestStep, OverlapKept, RoomKept, PartsNext

LEMMA NextCandidateInv ==
    ASSUME Inv, NEW r \in Requests, req[r].step \in {"monthly", "generate"},
           NEW cs \in Seq(Call), InOrder(cs), AllFailed(r, cs),
           calls' = [calls EXCEPT ![r] = cs],
           UNCHANGED <<ai_runs, external_ai_enabled, today>>,
           NEW failed \in BOOLEAN, TryNextCandidate(r, failed)
    PROVE  Inv'
<1>1. CASE \E a \in {"pricing_not_configured", "unavailable"} : Answer(r, a)
  BY <1>1, GiveUpInv DEF Answers
<1>2. CASE \E i \in Priced(r) :
               /\ i > req[r].at
               /\ req' = [req EXCEPT ![r].step = "daily", ![r].at = i, ![r].day = today]
  <2>1. PICK i \in Priced(r) :
            /\ i > req[r].at
            /\ req' = [req EXCEPT ![r].step = "daily", ![r].at = i, ![r].day = today]
    BY <1>2
  <2>2. /\ i \in DOMAIN req[r].candidates /\ i \in Nat /\ i # 0
        /\ PreflightPasses(req[r].candidates[i], req[r].max)
    BY ListOf DEF Priced
  <2> DEFINE x == [req[r] EXCEPT !.step = "daily", !.at = i, !.day = today]
  <2>3. x \in Invocation /\ x.step = "daily" /\ x.at = i /\ x.day = today
        /\ x.candidates = req[r].candidates /\ x.max = req[r].max
        /\ x.run = req[r].run /\ x.answer = req[r].answer
    BY <2>2, AtAwait DEF Invocation, Steps
  <2>4. req' = [req EXCEPT ![r] = x]
    BY <2>1
  <2> HIDE DEF x
  <2>5. Becomes(r, x, cs, ai_runs[r]) /\ req'[r] = x /\ calls'[r] = cs
    BY <2>4, Parts DEF Becomes, Typed
  <2>6. RequestOK(r)'
    <3>1. RequestOK(r) /\ ai_runs' = ai_runs /\ today' = today
      BY AtAwait
    <3>2. LoopOK(r)'
      BY <2>2, <2>3, <2>5 DEF LoopOK, Current
    <3>3. CallsOK(r)'
      <4>1. ASSUME NEW m \in DOMAIN cs
            PROVE  /\ cs[m].outcome = "failed"
                   /\ \E k \in DOMAIN req'[r].candidates :
                          k < req'[r].at /\ cs[m].provider = req'[r].candidates[k]
        <5>1. PICK k \in DOMAIN req[r].candidates :
                  k <= req[r].at /\ cs[m].provider = req[r].candidates[k]
          BY DEF AllFailed
        <5>2. k < i
          BY <2>1, <2>2, <5>1, ListOf, AtAwait
        <5>3. cs[m].outcome = "failed"
          BY DEF AllFailed
        <5> QED
          BY <2>3, <2>5, <5>1, <5>2, <5>3
      <4> QED
        BY <2>3, <2>5, <4>1 DEF CallsOK, InOrder
    <3>4. RowOK(r)'
      <4>1. today \in Nat
        BY AtAwait, Constants
      <4> QED
        BY <2>3, <2>5, <3>1, <4>1 DEF RequestOK, RowOK, NoRun
    <3> QED
      BY <2>3, <2>5, <3>1, <3>2, <3>3, <3>4 DEF RequestOK, RowOK
  <2>7. \A d \in Day : Counts(r, d)' => Counts(r, d)
    BY <2>3, <2>5 DEF Counts, MayStillCount
  <2> QED
    BY <2>3, <2>5, <2>6, <2>7, AtAwait, RequestStep, OverlapKept, RoomKept, PartsNext
<1> QED
  BY <1>1, <1>2 DEF TryNextCandidate

LEMMA SumMonthlyInv ==
    ASSUME Inv, NEW r \in Requests, SumMonthly(r)
    PROVE  Inv'
<1>1. req[r].step = "monthly" /\ UNCHANGED <<ai_runs, external_ai_enabled, today, calls>>
  BY DEF SumMonthly, At
<1>2. CASE Saving(r, "budget_exceeded", 0)
  BY <1>1, <1>2, RefusalInv
<1>3. CASE TryNextCandidate(r, FALSE)
  <2>1. CallsOK(r) /\ calls[r] \in Seq(Call)
    BY AtAwait DEF RequestOK
  <2>2. InOrder(calls[r])
    BY <2>1 DEF InOrder, CallsOK
  <2>3. AllFailed(r, calls[r])
    <3>1. \A k \in DOMAIN req[r].candidates : k < req[r].at => k <= req[r].at
      BY ListOf, AtAwait
    <3> QED
      BY <1>1, <2>1, <3>1 DEF AllFailed, CallsOK
  <2>4. calls' = [calls EXCEPT ![r] = calls[r]]
    BY <1>1, Parts DEF Typed
  <2> QED
    BY <1>1, <1>3, <2>1, <2>2, <2>3, <2>4, NextCandidateInv
<1>4. CASE req[r].at # 0 /\ req' = [req EXCEPT ![r].step = "generate"]
  <2>1. [req EXCEPT ![r].step = "generate"]
            = [req EXCEPT ![r].step = "generate", ![r].day = req[r].day]
    BY AtAwait, Parts DEF Typed, Invocation
  <2> QED
    BY <1>1, <1>4, <2>1, AdvanceInv
<1> QED
  BY <1>2, <1>3, <1>4 DEF SumMonthly

LEMMA GenerateInv ==
    ASSUME Inv, NEW r \in Requests, Generate(r)
    PROVE  Inv'
<1>1. req[r].step = "generate" /\ UNCHANGED <<ai_runs, external_ai_enabled, today>>
  BY DEF Generate, At
<1>2. PICK outcome \in {"ok", "malformed", "failed"},
           prompt \in PromptTokens, completion \in OutputTokens :
          LET cost == CalculateCost(Current(r), prompt, completion)
              call == [provider |-> Current(r), cost |-> cost, outcome |-> outcome]
          IN  /\ calls' = [calls EXCEPT ![r] = Append(@, call)]
              /\ CASE outcome = "ok" -> Saving(r, "completed", cost)
                   [] outcome = "malformed" -> Answer(r, "malformed_output")
                   [] outcome = "failed" -> TryNextCandidate(r, TRUE)
  BY DEF Generate
<1> DEFINE cost == CalculateCost(Current(r), prompt, completion)
           call == [provider |-> Current(r), cost |-> cost, outcome |-> outcome]
           n == Len(calls[r])
           cs == Append(calls[r], call)
<1>3. /\ calls' = [calls EXCEPT ![r] = cs]
      /\ outcome = "ok" => Saving(r, "completed", cost)
      /\ outcome = "malformed" => Answer(r, "malformed_output")
      /\ outcome = "failed" => TryNextCandidate(r, TRUE)
  BY <1>2, Parts DEF Typed
<1>4. LoopOK(r) /\ CallsOK(r) /\ RowOK(r) /\ calls[r] \in Seq(Call)
  BY AtAwait DEF RequestOK
<1>5. /\ req[r].at \in DOMAIN req[r].candidates
      /\ Current(r) \in Candidates /\ Current(r) \in DOMAIN Pricing
  BY <1>1, <1>4, ListOf DEF LoopOK, PreflightPasses, Current
<1>6. cost \in Nat
  BY <1>5, CostIsNat, Constants
<1> HIDE DEF cost
<1>7. call \in Call /\ call.provider = Current(r) /\ call.outcome = outcome /\ call.cost = cost
  BY <1>5, <1>6 DEF Call
<1> HIDE DEF call
<1>8. /\ cs \in Seq(Call) /\ n \in Nat /\ DOMAIN calls[r] = 1..n /\ DOMAIN cs = 1..(n + 1)
      /\ Len(cs) = n + 1 /\ cs # <<>> /\ cs[n + 1] = call
      /\ \A i \in 1..n : cs[i] = calls[r][i]
  BY <1>4, <1>7
<1> HIDE DEF cs
<1>9. ASSUME NEW i \in 1..n
      PROVE  /\ calls[r][i].outcome = "failed" /\ calls[r][i].provider # Current(r)
             /\ \E k \in DOMAIN req[r].candidates :
                    k < req[r].at /\ calls[r][i].provider = req[r].candidates[k]
  <2>1. PICK k \in DOMAIN req[r].candidates :
            k < req[r].at /\ calls[r][i].provider = req[r].candidates[k]
    BY <1>1, <1>4, <1>8 DEF CallsOK
  <2>2. k # req[r].at
    BY <2>1, AtAwait, ListOf
  <2>3. req[r].candidates[k] # req[r].candidates[req[r].at]
    BY <1>5, <2>2, ListOf
  <2>4. calls[r][i].outcome = "failed"
    BY <1>1, <1>4, <1>8 DEF CallsOK
  <2> QED
    BY <2>1, <2>3, <2>4 DEF Current
<1>10. InOrder(cs)
  <2>1. ASSUME NEW i \in 1..(n + 1), NEW j \in 1..(n + 1), i < j
        PROVE  cs[i].outcome = "failed" /\ cs[i].provider # cs[j].provider
    <3>1. i \in 1..n
      BY <1>8, <2>1
    <3>2. CASE j = n + 1
      BY <1>7, <1>8, <1>9, <3>1, <3>2
    <3>3. CASE j \in 1..n
      <4>1. calls[r][i].outcome = "failed" /\ calls[r][i].provider # calls[r][j].provider
        <5>1. i \in DOMAIN calls[r] /\ j \in DOMAIN calls[r]
          BY <1>8, <3>1, <3>3
        <5> QED
          BY <1>4, <2>1, <5>1 DEF CallsOK
      <4> QED
        BY <1>8, <3>1, <3>3, <4>1
    <3> QED
      BY <1>8, <3>2, <3>3
  <2> QED
    BY <1>8, <2>1 DEF InOrder
<1>11. CASE outcome = "malformed"
  BY <1>1, <1>3, <1>8, <1>10, <1>11, GiveUpInv DEF Answers
<1>12. CASE outcome = "failed"
  <2>1. AllFailed(r, cs)
    <3>1. ASSUME NEW i \in 1..(n + 1)
          PROVE  /\ cs[i].outcome = "failed"
                 /\ \E k \in DOMAIN req[r].candidates :
                        k <= req[r].at /\ cs[i].provider = req[r].candidates[k]
      <4>1. CASE i = n + 1
        <5>1. req[r].at <= req[r].at
          BY AtAwait
        <5> QED
          BY <1>5, <1>7, <1>8, <1>12, <4>1, <5>1 DEF Current
      <4>2. CASE i \in 1..n
        <5>1. PICK k \in DOMAIN req[r].candidates :
                  k < req[r].at /\ calls[r][i].provider = req[r].candidates[k]
          BY <1>9, <4>2
        <5>2. k <= req[r].at
          BY <5>1, AtAwait, ListOf
        <5> QED
          BY <1>8, <1>9, <4>2, <5>1, <5>2
      <4> QED
        BY <1>8, <4>1, <4>2
    <3> QED
      BY <1>8, <3>1 DEF AllFailed
  <2> QED
    BY <1>1, <1>3, <1>8, <1>10, <1>12, <2>1, NextCandidateInv
<1>13. CASE outcome = "ok"
  <2> DEFINE row == [status |-> "completed", cost |-> cost, day |-> today]
             x == [req[r] EXCEPT !.step = "save", !.run = row]
  <2>1. row \in Run /\ row.status = "completed" /\ row.cost = cost /\ row.day = today
    BY <1>6, AtAwait DEF Run
  <2>2. req' = [req EXCEPT ![r] = x]
    BY <1>3, <1>13 DEF Saving
  <2> HIDE DEF row
  <2>3. x \in Invocation /\ x.step = "save" /\ x.run = row
        /\ x.candidates = req[r].candidates /\ x.at = req[r].at /\ x.max = req[r].max
        /\ x.day = req[r].day /\ x.answer = req[r].answer
    BY <2>1, AtAwait DEF Invocation, Steps
  <2> HIDE DEF x
  <2>4. Becomes(r, x, cs, ai_runs[r]) /\ req'[r] = x /\ calls'[r] = cs
    BY <1>1, <1>3, <2>2, Parts DEF Becomes, Typed
  <2>5. RequestOK(r)'
    <3>1. RequestOK(r) /\ ai_runs' = ai_runs /\ today' = today
      BY <1>1, AtAwait
    <3>2. LoopOK(r)'
      BY <2>3, <2>4, <3>1 DEF RequestOK, LoopOK, Current
    <3>3. CallsOK(r)'
      BY <1>10, <2>3, <2>4 DEF CallsOK, InOrder
    <3>4. Last(cs) = call
      BY <1>8 DEF Last
    <3>5. RowOK(r)'
      <4>1. today \in Nat /\ req[r].day \in Nat
        BY AtAwait, Constants
      <4> QED
        BY <1>1, <1>7, <1>8, <1>13, <2>1, <2>3, <2>4, <3>1, <3>4, <4>1 DEF RowOK, RequestOK
    <3> QED
      BY <1>1, <2>3, <2>4, <3>1, <3>2, <3>3, <3>5 DEF RequestOK, RowOK
  <2>6. \A d \in Day : Counts(r, d)' => Counts(r, d)
    BY <1>1, <2>3, <2>4 DEF Counts, MayStillCount
  <2> QED
    BY <1>1, <1>8, <2>3, <2>4, <2>5, <2>6, AtAwait, RequestStep, OverlapKept, RoomKept, PartsNext
<1> QED
  BY <1>11, <1>12, <1>13

\* The row is in the ledger or not, and the request has its answer.
LEMMA SavedInv ==
    ASSUME Inv, NEW r \in Requests, req[r].step = "save",
           NEW a \in {"write_failed", req[r].run.status}, Answer(r, a),
           NEW row \in {ai_runs[r], req[r].run}, ai_runs' = [ai_runs EXCEPT ![r] = row],
           a # "write_failed" => row = req[r].run,
           UNCHANGED <<external_ai_enabled, today, calls>>
    PROVE  Inv'
<1>1. /\ RequestOK(r) /\ req[r] \in Invocation /\ req[r].run \in Run
      /\ ai_runs[r] = NoRun
  BY AtAwait DEF RequestOK, RowOK
<1>2. req[r].run.status \in {"completed", "blocked_by_policy", "budget_exceeded"}
  BY <1>1 DEF Run
<1> DEFINE x == [req[r] EXCEPT !.step = "done", !.answer = a]
<1>3. x \in Invocation /\ x.step = "done" /\ x.answer = a
      /\ x.candidates = req[r].candidates /\ x.at = req[r].at /\ x.max = req[r].max
      /\ x.day = req[r].day /\ x.run = req[r].run
  BY <1>1, <1>2 DEF Invocation, Steps, Answers
<1>4. req' = [req EXCEPT ![r] = x]
  BY DEF Answer
<1> HIDE DEF x
<1>5. Becomes(r, x, calls[r], row) /\ req'[r] = x /\ ai_runs'[r] = row
  BY <1>4, Parts DEF Becomes, Typed
<1>6. RequestOK(r)'
  <2>1. LoopOK(r)'
    BY <1>1, <1>3, <1>5 DEF RequestOK, LoopOK, Current
  <2>2. CallsOK(r)'
    <3>1. InOrder(calls[r])
      BY <1>1 DEF RequestOK, CallsOK, InOrder
    <3> QED
      BY <1>3, <1>5, <3>1 DEF CallsOK, InOrder
  <2>3. RowOK(r)'
    BY <1>1, <1>3, <1>5 DEF RequestOK, RowOK
  <2> QED
    BY <1>1, <1>2, <1>3, <1>5, <2>1, <2>2, <2>3 DEF RequestOK, NoRun
<1>7. ASSUME NEW d \in Day, Counts(r, d)' PROVE Counts(r, d)
  <2>1. row # NoRun /\ row.status = "completed" /\ row.day = d
    BY <1>3, <1>5, <1>7 DEF Counts, MayStillCount
  <2>2. row = req[r].run
    BY <1>1, <2>1
  <2>3. req[r].day <= d
    <3>1. req[r].run.day >= req[r].day
      BY <1>1, <2>1, <2>2 DEF RequestOK, RowOK
    <3>2. d \in Nat /\ req[r].day \in Nat
      BY AtAwait, Constants
    <3> QED
      BY <2>1, <2>2, <3>1, <3>2
  <2> QED
    BY <2>1, <2>2, <2>3 DEF Counts, MayStillCount
<1>8. row \in Run \cup {NoRun}
  BY <1>1
<1> QED
  BY <1>3, <1>5, <1>6, <1>7, <1>8, AtAwait, RequestStep, OverlapKept, RoomKept, PartsNext

LEMMA ExecuteInv ==
    ASSUME Inv, NEW r \in Requests, Execute(r)
    PROVE  Inv'
<1>1. CASE Save(r)
  BY <1>1, SavedInv DEF Save, At
<1>2. CASE SaveFails(r)
  <2>1. \E row \in {ai_runs[r], req[r].run} : ai_runs' = [ai_runs EXCEPT ![r] = row]
    BY <1>2, Parts DEF SaveFails, Typed
  <2> QED
    BY <1>2, <2>1, SavedInv DEF SaveFails, At
<1>3. CASE ReadFails(r)
  BY <1>3, AnswerInv DEF ReadFails, Answers
<1> QED
  BY <1>1, <1>2, <1>3, ReceiveInv, CheckPolicyInv, CountDailyInv, SumMonthlyInv, GenerateInv
  DEF Execute

-----------------------------------------------------------------------------
(* The policy, the calendar and the theorems.                               *)

LEMMA WorldInv ==
    ASSUME Inv, UNCHANGED <<ai_runs, req, calls>>, external_ai_enabled' \in BOOLEAN,
           today' \in Day, today <= today'
    PROVE  Inv'
<1>1. Typed'
  BY Parts DEF Typed
<1>2. ASSUME NEW r \in Requests PROVE RequestOK(r)'
  <2>1. RequestOK(r) /\ today \in Nat /\ today' \in Nat /\ req[r].day \in Nat
    BY AtAwait, Constants
  <2> QED
    BY <2>1 DEF RequestOK, LoopOK, CallsOK, RowOK, Current
<1>3. Active' = Active /\ \A d : Counted(d)' = Counted(d)
  BY DEF Active, Counted, CompletedIn, Recorded, MayStillCount
<1>4. Overlap' /\ DailyRoom'
  BY <1>3, Parts DEF Overlap, DailyRoom
<1> QED
  BY <1>1, <1>2, <1>4, PartsNext

LEMMA NextInv == Inv /\ [Next]_vars => Inv'
<1> SUFFICES ASSUME Inv, [Next]_vars PROVE Inv'
  OBVIOUS
<1>1. today \in Day /\ today \in Nat /\ external_ai_enabled \in BOOLEAN /\ MaxDay \in Nat
  BY Parts, Constants DEF Typed
<1>2. CASE SavePolicy
  BY <1>1, <1>2, WorldInv DEF SavePolicy
<1>3. CASE Midnight
  <2>1. today' \in Day /\ today <= today'
    BY <1>1, <1>3 DEF Midnight, Day
  <2> QED
    BY <1>1, <1>3, <2>1, WorldInv DEF Midnight
<1>4. CASE UNCHANGED vars
  BY <1>1, <1>4, WorldInv DEF vars
<1> QED
  BY <1>2, <1>3, <1>4, ExecuteInv DEF Next

\* The inductive invariant holds: where each request is in execute's loop, what
\* it asked so far, what its row pays for and which requests may still be
\* recorded in a day (AIRouter.execute, checkBudget).
THEOREM GateInvariance == Spec => []Inv
BY InitInv, NextInv, PTL DEF Spec

LEMMA DailyBound == Inv => DailyWithinLimit
<1> SUFFICES ASSUME Inv, NEW d \in Day
             PROVE  Cardinality(CompletedIn({d})) <= DailyLimit + MaxConcurrent - 1
  BY DEF DailyWithinLimit
<1>1. CompletedIn({d}) \subseteq Counted(d)
  BY DEF Counted
<1>2. /\ Cardinality(CompletedIn({d})) <= Cardinality(Counted(d))
      /\ Cardinality(CompletedIn({d})) \in Nat /\ Cardinality(Counted(d)) \in Nat
  BY <1>1, FiniteParts, FS_Subset, FS_CardinalityType
<1>3. Cardinality(Counted(d)) <= DailyLimit + MaxConcurrent - 1
  BY DEF Inv, DailyRoom
<1> QED
  BY <1>2, <1>3, Constants

\* A day's completed runs exceed the daily limit by no more than the overlap:
\* checkBudget's count is taken before the run is recorded, and over midnight.
THEOREM DailyBounded == Spec => []DailyWithinLimit
BY DailyBound, GateInvariance, PTL

LEMMA RowPays == Inv => CompletedRowPaysForItsCall
<1> SUFFICES ASSUME Inv PROVE CompletedRowPaysForItsCall
  OBVIOUS
<1>1. ASSUME NEW r \in Requests PROVE RequestOK(r)
  BY Parts
<1>2. ASSUME NEW r \in Requests, ai_runs[r].status = "completed"
      PROVE  /\ calls[r] # <<>> /\ Last(calls[r]).outcome = "ok"
             /\ Last(calls[r]).cost = ai_runs[r].cost
  BY <1>1, <1>2 DEF RequestOK, RowOK, NoRun
<1> QED
  BY <1>1, <1>2 DEF RequestOK, CallsOK, CompletedRowPaysForItsCall

\* A completed row charges the provider call that answered, after calls that
\* all failed, of different candidates (the loop of execute).
THEOREM PaidCall == Spec => []CompletedRowPaysForItsCall
BY RowPays, GateInvariance, PTL

\* No result and no refusal without its row in the ledger (saveRun).
THEOREM OnLedger == Spec => []AnsweredIsRecorded
<1>1. Inv => AnsweredIsRecorded
  BY DEF Inv
<1> QED
  BY <1>1, GateInvariance, PTL

-----------------------------------------------------------------------------
(* Projections and months.                                                  *)

LEMMA SetMax ==
    ASSUME NEW S \in SUBSET Nat, IsFiniteSet(S), S # {}
    PROVE  Max(S) \in S /\ \A x \in S : x <= Max(S)
<1> DEFINE G == {T \in SUBSET S : T = {} \/ \E m \in T : \A x \in T : x <= m}
<1>1. {} \in G
  OBVIOUS
<1>2. ASSUME NEW T \in SUBSET S, NEW y \in S \ T, T \in G PROVE T \cup {y} \in G
  <2>1. CASE T = {}
    <3>1. y <= y /\ T \cup {y} = {y}
      BY <2>1
    <3> QED
      BY <3>1
  <2>2. CASE T # {}
    <3>1. PICK m \in T : \A x \in T : x <= m
      BY <1>2, <2>2
    <3>2. CASE y <= m
      BY <3>1, <3>2
    <3>3. CASE ~(y <= m)
      <4>1. m \in Nat /\ y \in Nat /\ y <= y /\ \A x \in T : x \in Nat
        BY <3>1
      <4>2. \A x \in T \cup {y} : x <= y
        BY <3>1, <3>3, <4>1
      <4> QED
        BY <4>2
    <3> QED
      BY <3>2, <3>3
  <2> QED
    BY <2>1, <2>2
<1>3. S \in G
  <2> HIDE DEF G
  <2> QED
    BY <1>1, <1>2, SetInduction
<1>4. \E m \in S : \A x \in S : m >= x
  BY <1>3
<1>5. Max(S) \in S /\ \A x \in S : Max(S) >= x
  BY <1>4 DEF Max
<1> QED
  BY <1>5

LEMMA ProjectionIsNat ==
    ASSUME NEW p \in DOMAIN Pricing, NEW m \in Nat
    PROVE  ProjectedCost(p, m) \in Nat
<1>1. Pricing[p].cap \in Nat
  BY BudgetAssumption
<1>2. MaxOutput(p, m) \in Nat
  BY <1>1 DEF MaxOutput
<1>3. EstimatedPromptTokens \in Nat
  BY DEF EstimatedPromptTokens
<1> QED
  BY <1>2, <1>3, CostIsNat, Zenon DEF ProjectedCost

LEMMA LargestProjection ==
    /\ MaxProjected \in Nat
    /\ \A p \in Candidates, m \in MaxTokens :
           PreflightPasses(p, m) => ProjectedCost(p, m) <= MaxProjected
<1> DEFINE X == {y \in Candidates \X MaxTokens : PreflightPasses(y[1], y[2])}
           P(x) == ProjectedCost(x[1], x[2])
           f == [x \in X |-> P(x)]
           T == {P(x) : x \in X}
<1>1. IsFiniteSet(X)
  <2>1. IsFiniteSet(Candidates \X MaxTokens)
    BY BudgetAssumption, FS_Product
  <2> QED
    BY <2>1, FS_Subset
<1>2. IsFiniteSet(T)
  <2>1. f \in Surjection(X, T)
    <3> HIDE DEF P, X
    <3> QED
      BY DEF Surjection
  <2> HIDE DEF f, X, T
  <2> QED
    BY <1>1, <2>1, FS_Surjection
<1>3. T \subseteq Nat
  <2>1. ASSUME NEW x \in X PROVE P(x) \in Nat
    <3>1. x[1] \in DOMAIN Pricing /\ x[2] \in Nat
      BY Constants DEF PreflightPasses
    <3> QED
      BY <3>1, ProjectionIsNat
  <2> HIDE DEF P, X
  <2> QED
    BY <2>1
<1>4. MaxProjected = Max({0} \cup T)
  BY DEF MaxProjected
<1> HIDE DEF T
<1>5. MaxProjected \in {0} \cup T /\ \A y \in {0} \cup T : y <= MaxProjected
  <2>1. IsFiniteSet({0} \cup T) /\ {0} \cup T \in SUBSET Nat /\ {0} \cup T # {}
    BY <1>2, <1>3, FS_AddElement
  <2> QED
    BY <1>4, <2>1, SetMax
<1>6. ASSUME NEW p \in Candidates, NEW m \in MaxTokens, PreflightPasses(p, m)
      PROVE  ProjectedCost(p, m) <= MaxProjected
  <2>1. <<p, m>> \in X /\ P(<<p, m>>) = ProjectedCost(p, m)
    BY <1>6
  <2>2. P(<<p, m>>) \in T
    <3> HIDE DEF P, X
    <3> QED
      BY <2>1 DEF T
  <2> QED
    BY <1>5, <2>1, <2>2
<1> QED
  BY <1>3, <1>5, <1>6

LEMMA Months ==
    /\ \A x \in Nat : MonthStart(x) \in Nat /\ MonthStart(x) <= x
    /\ \A x, y \in Nat : x <= y => MonthStart(x) <= MonthStart(y)
<1>1. PICK n \in Nat \ {0} : n = DaysPerMonth
  BY BudgetAssumption
<1>2. \A x \in Nat : /\ x \div n \in Nat /\ x % n \in 0..(n - 1)
                     /\ x = n * (x \div n) + (x % n)
  BY Z3
<1>3. \A x \in Nat : MonthStart(x) = n * (x \div n)
  <2>1. ASSUME NEW x \in Nat PROVE x - (x % n) = n * (x \div n)
    <3>1. PICK q \in Nat, m \in 0..(n - 1) : q = x \div n /\ m = x % n
      BY <1>2
    <3>2. n * q \in Nat /\ x = n * q + m
      BY <1>2, <3>1
    <3> QED
      BY <3>1, <3>2
  <2> QED
    BY <1>1, <2>1 DEF MonthStart
<1>4. ASSUME NEW x \in Nat PROVE n * (x \div n) \in Nat /\ n * (x \div n) <= x
  <2>1. PICK q \in Nat, m \in 0..(n - 1) : q = x \div n /\ m = x % n
    BY <1>2
  <2>2. x = n * q + m /\ n * q \in Nat
    BY <1>2, <2>1
  <2>3. n * q <= x
    BY <2>2
  <2> QED
    BY <2>1, <2>2, <2>3
<1>5. ASSUME NEW x \in Nat, NEW y \in Nat, x <= y PROVE n * (x \div n) <= n * (y \div n)
  <2>1. PICK a \in Nat, b \in Nat : a = x \div n /\ b = y \div n
    BY <1>2
  <2>2. PICK m \in 0..(n - 1) : m = y % n
    BY <1>2
  <2>3. n * a <= y /\ y = n * b + m
    BY <1>2, <1>4, <1>5, <2>1, <2>2
  <2>4. CASE a <= b
    <3>1. PICK c \in Nat : b = a + c
      <4>1. b - a \in Nat /\ b = a + (b - a)
        BY <2>4
      <4> QED
        BY <4>1
    <3>2. n * b = n * a + n * c /\ n * a \in Nat /\ n * c \in Nat
      BY <3>1
    <3> QED
      BY <2>1, <3>2
  <2>5. CASE a > b
    <3>1. PICK c \in Nat : a = b + 1 + c
      <4>1. a - b - 1 \in Nat /\ a = b + 1 + (a - b - 1)
        BY <2>5
      <4> QED
        BY <4>1
    <3>2. n * a = n * b + n + n * c
      BY <3>1
    <3>3. n * c \in Nat /\ n * b \in Nat
      OBVIOUS
    <3> QED
      BY <2>3, <3>2, <3>3
  <2> QED
    BY <2>4, <2>5
<1> QED
  BY <1>3, <1>4, <1>5

-----------------------------------------------------------------------------
(* What a step of execute does to the money: its request goes on, is        *)
(* refused, is admitted to a provider call, has paid for one or is stored.  *)

GoesOn(r) ==
    /\ req[r].step \notin {"save", "done"} /\ ai_runs' = ai_runs
    /\ req'[r].step \notin {"idle", "generate", "save"} /\ req'[r].run = req[r].run
    /\ IF req[r].step = "idle" THEN req'[r].max \in MaxTokens ELSE req'[r].max = req[r].max

Refused(r) ==
    /\ req[r].step \notin {"idle", "save", "done"} /\ ai_runs' = ai_runs
    /\ \E s \in {"blocked_by_policy", "budget_exceeded"} :
           /\ req'[r] = [req[r] EXCEPT !.step = "save",
                             !.run = [status |-> s, cost |-> 0, day |-> today]]
           /\ s = "budget_exceeded" =>
                  DailyCount(req[r].day) >= DailyLimit \/ OverCap(r)

Admitted(r) ==
    /\ At(r, "monthly") /\ req[r].at # 0 /\ ~OverCap(r) /\ ai_runs' = ai_runs
    /\ req'[r] = [req[r] EXCEPT !.step = "generate"]

Paid(r) ==
    /\ At(r, "generate") /\ ai_runs' = ai_runs
    /\ \E prompt \in PromptTokens, completion \in OutputTokens :
           /\ completion <= OutputLimit(Current(r), req[r].max)
           /\ req'[r] = [req[r] EXCEPT !.step = "save",
                             !.run = [status |-> "completed", day |-> today,
                                      cost |-> CalculateCost(Current(r), prompt, completion)]]

Stored(r) ==
    /\ At(r, "save")
    /\ ai_runs'[r] \in {ai_runs[r], req[r].run}
    /\ \E a : req'[r] = [req[r] EXCEPT !.step = "done", !.answer = a]

OthersAlone(r) ==
    \A q \in Requests \ {r} : req'[q] = req[q] /\ ai_runs'[q] = ai_runs[q]

LEMMA SavingRefused ==
    ASSUME Inv, NEW r \in Requests, NEW s \in {"blocked_by_policy", "budget_exceeded"},
           Saving(r, s, 0), req[r].step \notin {"idle", "save", "done"}, ai_runs' = ai_runs,
           s = "budget_exceeded" => DailyCount(req[r].day) >= DailyLimit \/ OverCap(r)
    PROVE  Refused(r)
<1>1. req'[r] = [req[r] EXCEPT !.step = "save",
                     !.run = [status |-> s, cost |-> 0, day |-> today]]
  BY Parts DEF Typed, Saving
<1> QED
  BY <1>1 DEF Refused

LEMMA AnswerGoesOn ==
    ASSUME Inv, NEW r \in Requests, NEW a, Answer(r, a), ai_runs' = ai_runs,
           req[r].step \notin {"idle", "save", "done"}
    PROVE  GoesOn(r)
<1>1. req \in [Requests -> Invocation] /\ req[r] \in Invocation
  BY Parts DEF Typed
<1>2. req'[r] = [req[r] EXCEPT !.step = "done", !.answer = a]
  BY <1>1 DEF Answer
<1>3. req'[r].step = "done" /\ req'[r].run = req[r].run /\ req'[r].max = req[r].max
  BY <1>1, <1>2 DEF Invocation
<1> QED
  BY <1>3 DEF GoesOn

LEMMA NextGoesOn ==
    ASSUME Inv, NEW r \in Requests, NEW failed, TryNextCandidate(r, failed),
           ai_runs' = ai_runs, req[r].step \notin {"idle", "save", "done"}
    PROVE  GoesOn(r)
<1>1. req \in [Requests -> Invocation] /\ req[r] \in Invocation
  BY Parts DEF Typed
<1>2. \/ \E i : req' = [req EXCEPT ![r].step = "daily", ![r].at = i, ![r].day = today]
      \/ \E a : Answer(r, a)
  BY DEF TryNextCandidate
<1>3. CASE \E a : Answer(r, a)
  BY <1>3, AnswerGoesOn
<1>4. ASSUME NEW i, req' = [req EXCEPT ![r].step = "daily", ![r].at = i, ![r].day = today]
      PROVE  GoesOn(r)
  <2>1. req'[r] = [req[r] EXCEPT !.step = "daily", !.at = i, !.day = today]
    BY <1>1, <1>4
  <2>2. req'[r].step = "daily" /\ req'[r].run = req[r].run /\ req'[r].max = req[r].max
    BY <1>1, <2>1 DEF Invocation
  <2> QED
    BY <2>2 DEF GoesOn
<1> QED
  BY <1>2, <1>3, <1>4

LEMMA Kinds ==
    ASSUME Inv, NEW r \in Requests, Execute(r)
    PROVE  GoesOn(r) \/ Refused(r) \/ Admitted(r) \/ Paid(r) \/ Stored(r)
<1>1. req \in [Requests -> Invocation] /\ req[r] \in Invocation
      /\ ai_runs \in [Requests -> Run \cup {NoRun}]
  BY Parts DEF Typed
<1>2. CASE Receive(r)
  <2>1. PICK c \in CandidateLists, m \in MaxTokens :
            req' = [req EXCEPT ![r].step = "policy", ![r].candidates = c, ![r].max = m]
    BY <1>2 DEF Receive
  <2>2. req'[r] = [req[r] EXCEPT !.step = "policy", !.candidates = c, !.max = m]
    BY <1>1, <2>1
  <2>3. req'[r].step = "policy" /\ req'[r].run = req[r].run /\ req'[r].max = m
    BY <1>1, <2>2 DEF Invocation
  <2> QED
    BY <1>2, <2>3 DEF Receive, GoesOn, At
<1>3. CASE CheckPolicy(r)
  <2>1. CASE req' = [req EXCEPT ![r].step = "daily", ![r].day = today]
    <3>1. req'[r] = [req[r] EXCEPT !.step = "daily", !.day = today]
      BY <1>1, <2>1
    <3>2. req'[r].step = "daily" /\ req'[r].run = req[r].run /\ req'[r].max = req[r].max
      BY <1>1, <3>1 DEF Invocation
    <3> QED
      BY <1>3, <3>2 DEF CheckPolicy, GoesOn, At
  <2>2. CASE Saving(r, "blocked_by_policy", 0)
    <3>1. req[r].step = "policy" /\ ai_runs' = ai_runs
      BY <1>3 DEF CheckPolicy, At
    <3> QED
      BY <2>2, <3>1, SavingRefused
  <2> QED
    BY <1>3, <2>1, <2>2 DEF CheckPolicy
<1>4. CASE CountDaily(r)
  <2>1. CASE DailyCount(req[r].day) >= DailyLimit /\ Saving(r, "budget_exceeded", 0)
    <3>1. req[r].step = "daily" /\ ai_runs' = ai_runs
      BY <1>4 DEF CountDaily, At
    <3> QED
      BY <2>1, <3>1, SavingRefused
  <2>2. CASE req' = [req EXCEPT ![r].step = "monthly"]
    <3>1. req'[r] = [req[r] EXCEPT !.step = "monthly"]
      BY <1>1, <2>2
    <3>2. req'[r].step = "monthly" /\ req'[r].run = req[r].run /\ req'[r].max = req[r].max
      BY <1>1, <3>1 DEF Invocation
    <3> QED
      BY <1>4, <3>2 DEF CountDaily, GoesOn, At
  <2> QED
    BY <1>4, <2>1, <2>2 DEF CountDaily
<1>5. CASE SumMonthly(r)
  <2>1. CASE OverCap(r) /\ Saving(r, "budget_exceeded", 0)
    <3>1. req[r].step = "monthly" /\ ai_runs' = ai_runs
      BY <1>5 DEF SumMonthly, At
    <3> QED
      BY <2>1, <3>1, SavingRefused
  <2>2. CASE TryNextCandidate(r, FALSE)
    BY <1>5, <2>2, NextGoesOn DEF SumMonthly, At
  <2>3. CASE ~OverCap(r) /\ req[r].at # 0 /\ req' = [req EXCEPT ![r].step = "generate"]
    <3>1. req'[r] = [req[r] EXCEPT !.step = "generate"]
      BY <1>1, <2>3
    <3> QED
      BY <1>5, <2>3, <3>1 DEF SumMonthly, Admitted
  <2> QED
    BY <1>5, <2>1, <2>2, <2>3 DEF SumMonthly
<1>6. CASE Generate(r)
  <2>1. PICK outcome \in {"ok", "malformed", "failed"},
             prompt \in PromptTokens, completion \in OutputTokens :
            LET cost == CalculateCost(Current(r), prompt, completion)
            IN  /\ completion <= OutputLimit(Current(r), req[r].max)
                /\ CASE outcome = "ok" -> Saving(r, "completed", cost)
                     [] outcome = "malformed" -> Answer(r, "malformed_output")
                     [] outcome = "failed" -> TryNextCandidate(r, TRUE)
    BY <1>6 DEF Generate
  <2>2. ai_runs' = ai_runs /\ req[r].step = "generate"
    BY <1>6 DEF Generate, At
  <2>3. CASE outcome = "ok"
    <3> DEFINE cost == CalculateCost(Current(r), prompt, completion)
    <3>1. Saving(r, "completed", cost)
      BY <2>1, <2>3
    <3>2. req'[r] = [req[r] EXCEPT !.step = "save",
                         !.run = [status |-> "completed", cost |-> cost, day |-> today]]
      BY <1>1, <3>1 DEF Saving
    <3> QED
      BY <2>1, <2>2, <3>2 DEF Paid, At
  <2>4. CASE outcome = "malformed"
    BY <2>1, <2>2, <2>4, AnswerGoesOn
  <2>5. CASE outcome = "failed"
    BY <2>1, <2>2, <2>5, NextGoesOn
  <2> QED
    BY <2>3, <2>4, <2>5
<1>7. ASSUME NEW a, Answer(r, a), At(r, "save"),
             ai_runs' \in {ai_runs, [ai_runs EXCEPT ![r] = req[r].run]}
      PROVE  Stored(r)
  <2>1. req'[r] = [req[r] EXCEPT !.step = "done", !.answer = a]
    BY <1>1, <1>7 DEF Answer
  <2>2. ai_runs'[r] \in {ai_runs[r], req[r].run}
    BY <1>1, <1>7
  <2> QED
    BY <1>7, <2>1, <2>2 DEF Stored
<1>8. CASE Save(r) \/ SaveFails(r)
  BY <1>7, <1>8 DEF Save, SaveFails
<1>9. CASE ReadFails(r)
  BY <1>9, AnswerGoesOn DEF ReadFails
<1> QED
  BY <1>2, <1>3, <1>4, <1>5, <1>6, <1>8, <1>9 DEF Execute

LEMMA Alone ==
    ASSUME Inv, NEW r \in Requests, Execute(r)
    PROVE  OthersAlone(r) /\ today' = today
<1>1. req \in [Requests -> Invocation] /\ ai_runs \in [Requests -> Run \cup {NoRun}]
  BY Parts DEF Typed
<1>2. ASSUME NEW s, NEW cost, Saving(r, s, cost)
      PROVE  \A q \in Requests \ {r} : req'[q] = req[q]
  BY <1>1, <1>2 DEF Saving
<1>3. ASSUME NEW a, Answer(r, a) PROVE \A q \in Requests \ {r} : req'[q] = req[q]
  BY <1>1, <1>3 DEF Answer
<1>4. ASSUME NEW failed, TryNextCandidate(r, failed)
      PROVE  \A q \in Requests \ {r} : req'[q] = req[q]
  BY <1>1, <1>3, <1>4 DEF TryNextCandidate
<1>5. CASE Receive(r)
  BY <1>1, <1>5 DEF Receive, OthersAlone
<1>6. CASE CheckPolicy(r)
  BY <1>1, <1>2, <1>6 DEF CheckPolicy, OthersAlone
<1>7. CASE CountDaily(r)
  BY <1>1, <1>2, <1>7 DEF CountDaily, OthersAlone
<1>8. CASE SumMonthly(r)
  <2>1. ai_runs' = ai_runs /\ today' = today
    BY <1>8 DEF SumMonthly
  <2>2. \/ Saving(r, "budget_exceeded", 0) \/ TryNextCandidate(r, FALSE)
        \/ req' = [req EXCEPT ![r].step = "generate"]
    BY <1>8 DEF SumMonthly
  <2> QED
    BY <1>1, <1>2, <1>4, <2>1, <2>2 DEF OthersAlone
<1>9. CASE Generate(r)
  <2>1. ai_runs' = ai_runs /\ today' = today
    BY <1>9 DEF Generate
  <2>2. \/ \E cost : Saving(r, "completed", cost)
        \/ Answer(r, "malformed_output") \/ TryNextCandidate(r, TRUE)
    BY <1>9 DEF Generate
  <2> QED
    BY <1>2, <1>3, <1>4, <2>1, <2>2 DEF OthersAlone
<1>10. CASE Save(r) \/ SaveFails(r)
  <2>1. \A q \in Requests \ {r} : req'[q] = req[q]
    BY <1>3, <1>10 DEF Save, SaveFails
  <2>2. today' = today /\ \A q \in Requests \ {r} : ai_runs'[q] = ai_runs[q]
    BY <1>1, <1>10 DEF Save, SaveFails
  <2> QED
    BY <2>1, <2>2 DEF OthersAlone
<1>11. CASE ReadFails(r)
  BY <1>3, <1>11 DEF ReadFails, OthersAlone
<1> QED
  BY <1>5, <1>6, <1>7, <1>8, <1>9, <1>10, <1>11 DEF Execute

-----------------------------------------------------------------------------
(* What is foreseen of a request's cost.                                    *)

Charge(r, d) == Booked(r, d) + Pending(r, d)

AllFit == \A r \in Requests : Fits(r)

BookedOK ==
    \A r \in Requests, d \in Day :
        /\ Booked(r, d) # 0 =>
               /\ ai_runs[r] # NoRun /\ ai_runs[r].status = "completed"
               /\ MonthStart(ai_runs[r].day) = MonthStart(d)
               /\ Booked(r, d) = Foreseen(r)
        /\ Booked(r, d) \in {0, Foreseen(r)}

ChargesOK ==
    \A r \in Requests, d \in Day :
        /\ Booked(r, d) \in Nat /\ Pending(r, d) \in Nat
        /\ Pending(r, d) <= MaxProjected
        /\ Pending(r, d) # 0 => r \in Active

LEMMA BookedIs == BookedOK
BY DEF BookedOK, Booked, CompletedIn, MonthOf, Recorded

LEMMA BookedNext == BookedOK'
BY BookedIs, PTL

\* The candidate of an admitted request is priced: its projection is a natural
\* number, and at most the largest one.
LEMMA ProjectedIs ==
    ASSUME Inv, AllFit, NEW r \in Requests, req[r].at # 0, req[r].step # "idle"
    PROVE  /\ Projected(r) = ProjectedCost(Current(r), req[r].max)
           /\ Projected(r) \in Nat /\ Projected(r) <= MaxProjected
           /\ Current(r) \in Candidates /\ PreflightPasses(Current(r), req[r].max)
           /\ req[r].max \in MaxTokens
<1>1. req[r].at \in DOMAIN req[r].candidates /\ PreflightPasses(Current(r), req[r].max)
  BY AtAwait DEF RequestOK, LoopOK
<1>2. Current(r) \in Candidates /\ Current(r) \in DOMAIN Pricing
  BY <1>1, ListOf DEF Current, PreflightPasses
<1>3. req[r].max \in MaxTokens /\ req[r].max \in Nat
  BY AtAwait DEF AllFit, Fits
<1>4. Projected(r) = ProjectedCost(Current(r), req[r].max)
  BY DEF Projected
<1> QED
  BY <1>1, <1>2, <1>3, <1>4, ProjectionIsNat, LargestProjection

\* What was foreseen is within the projection and within the cost.
LEMMA ForeseenIs ==
    ASSUME Inv, AllFit, NEW r \in Requests
    PROVE  /\ Projected(r) \in Nat /\ Projected(r) <= MaxProjected
           /\ Foreseen(r) \in Nat /\ Foreseen(r) <= Projected(r)
           /\ req[r].run.cost \in Nat /\ Foreseen(r) <= req[r].run.cost
<1>1. Projected(r) \in Nat /\ Projected(r) <= MaxProjected
  <2>1. CASE req[r].at = 0
    BY <2>1, LargestProjection DEF Projected
  <2>2. CASE req[r].at # 0
    <3>1. req[r].step # "idle"
      BY <2>2, AtAwait DEF RequestOK, LoopOK
    <3> QED
      BY <2>2, <3>1, ProjectedIs
  <2> QED
    BY <2>1, <2>2
<1>2. req[r].run.cost \in Nat
  BY AtAwait DEF Invocation, Run, NoRun
<1>3. MaxProjected \in Nat
  BY LargestProjection
<1> QED
  BY <1>1, <1>2, <1>3 DEF Foreseen

\* A request that has not ended has no row.
LEMMA NothingBooked ==
    ASSUME Inv, NEW r \in Requests, req[r].step # "done", NEW d \in Day
    PROVE  Booked(r, d) = 0
<1>1. ai_runs[r] = NoRun
  BY AtAwait DEF RequestOK, RowOK
<1> QED
  BY <1>1, BookedIs DEF BookedOK

LEMMA Charges == Inv /\ AllFit => ChargesOK
<1> SUFFICES ASSUME Inv, AllFit, NEW r \in Requests, NEW d \in Day
             PROVE  /\ Booked(r, d) \in Nat /\ Pending(r, d) \in Nat
                    /\ Pending(r, d) <= MaxProjected
                    /\ Pending(r, d) # 0 => r \in Active
  BY DEF ChargesOK
<1>1. Booked(r, d) \in Nat
  BY ForeseenIs, BookedIs DEF BookedOK
<1>2. MaxProjected \in Nat
  BY LargestProjection
<1>3. \/ Pending(r, d) = 0
      \/ Pending(r, d) = Projected(r) /\ At(r, "generate")
      \/ Pending(r, d) = Foreseen(r) /\ At(r, "save")
  BY DEF Pending
<1>4. CASE Pending(r, d) = 0
  BY <1>1, <1>2, <1>4
<1>5. CASE Pending(r, d) = Projected(r) /\ At(r, "generate")
  BY <1>1, <1>5, ForeseenIs DEF Active, At
<1>6. CASE Pending(r, d) = Foreseen(r) /\ At(r, "save")
  <2>1. Foreseen(r) \in Nat /\ Foreseen(r) <= MaxProjected
    BY <1>2, ForeseenIs
  <2> QED
    BY <1>1, <1>6, <2>1 DEF Active, At
<1> QED
  BY <1>3, <1>4, <1>5, <1>6

LEMMA ChargesNext == Inv' /\ AllFit' => ChargesOK'
BY Charges, PTL

\* A step after which no more is foreseen of any request leaves the room.
LEMMA SpendKept ==
    ASSUME Inv, Inv', AllFit, AllFit', SpendRoom,
           \A r \in Requests, d \in Day : Charge(r, d)' <= Charge(r, d)
    PROVE  SpendRoom'
<1> SUFFICES ASSUME NEW d \in Day
             PROVE  SumFunctionOnSet(Committed(d)', Requests)
                        <= MonthlyCap + (MaxConcurrent - 1) * MaxProjected
  BY DEF SpendRoom
<1>1. SumFunctionOnSet(Committed(d), Requests)
          <= MonthlyCap + (MaxConcurrent - 1) * MaxProjected
  BY DEF SpendRoom
<1>2. \A r \in Requests : Committed(d)[r] = Charge(r, d) /\ Committed(d)'[r] = Charge(r, d)'
  BY DEF Committed, Charge
<1>3. \A r \in Requests : Charge(r, d) \in Nat /\ Charge(r, d)' \in Nat
  BY Charges, ChargesNext DEF Charge, ChargesOK
<1>4. SumFunctionOnSet(Committed(d)', Requests) <= SumFunctionOnSet(Committed(d), Requests)
  BY <1>2, <1>3, Constants, SumMonotone
<1>5. /\ SumFunctionOnSet(Committed(d)', Requests) \in Nat
      /\ SumFunctionOnSet(Committed(d), Requests) \in Nat
  BY <1>2, <1>3, Constants, SumRemove
<1>6. (MaxConcurrent - 1) * MaxProjected \in Nat /\ MonthlyCap \in Nat
  <2>1. MaxConcurrent - 1 \in Nat
    BY Constants
  <2> QED
    BY <2>1, LargestProjection, BudgetAssumption
<1> QED
  BY <1>1, <1>4, <1>5, <1>6

\* Of the others as much is foreseen as before.
LEMMA OthersCharged ==
    ASSUME NEW r \in Requests, OthersAlone(r), NEW q \in Requests \ {r}, AllFit
    PROVE  /\ \A d \in Day : Booked(q, d)' = Booked(q, d) /\ Pending(q, d)' = Pending(q, d)
           /\ Fits(q)'
<1>1. req'[q] = req[q] /\ ai_runs'[q] = ai_runs[q]
  BY DEF OthersAlone
<1>2. Fits(q)'
  BY <1>1 DEF AllFit, Fits
<1>3. Projected(q)' = Projected(q) /\ Foreseen(q)' = Foreseen(q)
  BY <1>1 DEF Foreseen, Projected, Current
<1>4. ASSUME NEW d \in Day
      PROVE  Booked(q, d)' = Booked(q, d) /\ Pending(q, d)' = Pending(q, d)
  <2>1. Booked(q, d)' = Booked(q, d)
    BY <1>1, <1>3 DEF Booked, CompletedIn, MonthOf, Recorded
  <2>2. Pending(q, d)' = Pending(q, d)
    BY <1>1, <1>3 DEF Pending, At
  <2> QED
    BY <2>1, <2>2
<1> QED
  BY <1>2, <1>4

\* The request that steps still fits, and unless it is admitted no more is
\* foreseen of it.
LEMMA StepCharged ==
    ASSUME Inv, Inv', AllFit, NEW r \in Requests,
           GoesOn(r) \/ Refused(r) \/ Paid(r) \/ Stored(r)
    PROVE  /\ Fits(r)'
           /\ \A d \in Day : Booked(r, d)' + Pending(r, d)' <= Booked(r, d) + Pending(r, d)
<1>1. req[r] \in Invocation /\ RequestOK(r) /\ ai_runs[r] \in Run \cup {NoRun}
  BY AtAwait
<1>2. \A d \in Day : Booked(r, d) \in Nat /\ Pending(r, d) \in Nat
  BY Charges DEF ChargesOK
<1>3. MaxProjected \in Nat
  BY LargestProjection
<1>4. Fits(r)
  BY DEF AllFit
<1>5. /\ req[r].step # "done" /\ \A d \in Day : Booked(r, d) = 0
      /\ ai_runs' = ai_runs => \A d \in Day : Booked(r, d)' = 0
  <2>1. req[r].step # "done"
    BY DEF GoesOn, Refused, Paid, Stored, At
  <2>2. ai_runs[r] = NoRun
    BY <1>1, <2>1 DEF RequestOK, RowOK
  <2> QED
    BY <2>1, <2>2, NothingBooked, BookedNext DEF BookedOK
<1>6. CASE GoesOn(r)
  <2>1. \A d \in Day : Pending(r, d)' = 0
    BY <1>6 DEF GoesOn, Pending, At
  <2>2. Fits(r)'
    BY <1>4, <1>6 DEF GoesOn, Fits
  <2> QED
    BY <1>2, <1>5, <1>6, <2>1, <2>2 DEF GoesOn
<1>7. CASE Refused(r)
  <2>1. /\ req'[r].step = "save" /\ req'[r].max = req[r].max /\ req'[r].run.cost = 0
        /\ req'[r].run.status # "completed"
    BY <1>1, <1>7 DEF Refused, Invocation
  <2>2. \A d \in Day : Pending(r, d)' = 0
    BY <2>1 DEF Pending, At
  <2>3. Fits(r)'
    BY <1>4, <1>7, <2>1 DEF Fits, Refused
  <2> QED
    BY <1>2, <1>5, <1>7, <2>2, <2>3 DEF Refused
<1>8. CASE Paid(r)
  <2>1. PICK cost : req'[r] = [req[r] EXCEPT !.step = "save",
                                  !.run = [status |-> "completed", day |-> today, cost |-> cost]]
    BY <1>8 DEF Paid
  <2>2. /\ req'[r].step = "save" /\ req'[r].max = req[r].max /\ req'[r].at = req[r].at
        /\ req'[r].candidates = req[r].candidates
        /\ req'[r].run.status = "completed" /\ req'[r].run.day = today
    BY <1>1, <2>1 DEF Invocation
  <2>3. req[r].step = "generate" /\ ai_runs' = ai_runs
    BY <1>8 DEF Paid, At
  <2>4. Fits(r)'
    BY <1>4, <2>2, <2>3 DEF Fits
  <2>5. Foreseen(r)' \in Nat /\ Foreseen(r)' <= Projected(r)
    <3>1. Projected(r)' = Projected(r) /\ Projected(r) \in Nat
      BY <2>2, ForeseenIs DEF Projected, Current
    <3>2. req'[r].run.cost \in Nat
      <4>1. req'[r].run \in Run \cup {NoRun}
        BY DEF Inv, TypeOK, Invocation
      <4> QED
        BY <4>1 DEF Run, NoRun
    <3> QED
      BY <3>1, <3>2 DEF Foreseen
  <2>6. ASSUME NEW d \in Day PROVE Pending(r, d)' <= Pending(r, d) /\ Pending(r, d)' \in Nat
    <3>1. CASE MonthStart(today) = MonthStart(d)
      <4>1. MonthStart(req[r].day) <= MonthStart(d)
        <5>1. req[r].day \in Nat /\ today \in Nat /\ req[r].day <= today
          BY <1>1, AtAwait, Constants DEF RequestOK, RowOK
        <5> QED
          BY <3>1, <5>1, Months
      <4>2. Pending(r, d) = Projected(r)
        BY <2>3, <4>1 DEF Pending, At
      <4>3. Pending(r, d)' = Foreseen(r)'
        BY <2>2, <3>1 DEF Pending, At
      <4> QED
        BY <2>5, <4>2, <4>3
    <3>2. CASE MonthStart(today) # MonthStart(d)
      <4>1. Pending(r, d)' = 0
        BY <2>2, <3>2 DEF Pending, At
      <4> QED
        BY <1>2, <4>1
    <3> QED
      BY <3>1, <3>2
  <2> QED
    BY <1>2, <1>5, <2>3, <2>4, <2>6
<1>9. CASE Stored(r)
  <2>1. /\ req'[r].step = "done" /\ req'[r].max = req[r].max /\ req'[r].run = req[r].run
        /\ req'[r].at = req[r].at /\ req'[r].candidates = req[r].candidates
    BY <1>1, <1>9 DEF Stored, Invocation
  <2>2. req[r].step = "save" /\ req[r].run \in Run /\ ai_runs[r] = NoRun
    BY <1>1, <1>9 DEF Stored, At, RequestOK, RowOK
  <2>3. Fits(r)'
    BY <1>4, <2>1, <2>2 DEF Fits
  <2>4. \A d \in Day : Pending(r, d)' = 0
    BY <2>1 DEF Pending, At
  <2>5. ASSUME NEW d \in Day PROVE Booked(r, d)' = 0 \/ Booked(r, d)' = Pending(r, d)
    <3>1. CASE Booked(r, d)' # 0
      <4>1. /\ ai_runs'[r] # NoRun /\ ai_runs'[r].status = "completed"
            /\ MonthStart(ai_runs'[r].day) = MonthStart(d)
            /\ Booked(r, d)' = Foreseen(r)'
        BY <3>1, BookedNext DEF BookedOK
      <4>2. ai_runs'[r] = req[r].run
        BY <1>9, <2>2, <4>1 DEF Stored
      <4>3. Foreseen(r)' = Foreseen(r)
        BY <2>1 DEF Foreseen, Projected, Current
      <4> QED
        BY <2>2, <4>1, <4>2, <4>3 DEF Pending, At
    <3> QED
      BY <3>1
  <2> QED
    BY <1>2, <1>5, <2>3, <2>4, <2>5
<1> QED
  BY <1>6, <1>7, <1>8, <1>9

\* A request admitted in a month finds room there for its projection, and for
\* the largest projection of every other one that is on its way.
LEMMA AdmittedRoom ==
    ASSUME Inv, Inv', AllFit, AllFit', SpendRoom, NEW r \in Requests, Admitted(r), OthersAlone(r)
    PROVE  SpendRoom'
<1>1. req[r] \in Invocation /\ RequestOK(r) /\ req[r].step = "monthly"
  BY AtAwait DEF Admitted, At
<1>2. /\ req'[r].step = "generate" /\ req'[r].day = req[r].day /\ req'[r].at = req[r].at
      /\ req'[r].candidates = req[r].candidates /\ req'[r].max = req[r].max
      /\ ai_runs' = ai_runs
  BY <1>1 DEF Admitted, Invocation
<1>3. req[r].day \in Nat /\ MonthStart(req[r].day) \in Nat
  BY AtAwait, Months
<1>4. \A q \in Requests, d \in Day : Booked(q, d)' = Booked(q, d)
  <2>1. ai_runs'[r] = NoRun
    BY <1>1, <1>2 DEF RequestOK, RowOK
  <2>2. \A d \in Day : Booked(r, d) = 0 /\ Booked(r, d)' = 0
    BY <1>1, <2>1, NothingBooked, BookedNext DEF BookedOK
  <2> QED
    BY <2>2, OthersCharged
<1>5. \A q \in Requests \ {r}, d \in Day : Pending(q, d)' = Pending(q, d)
  BY OthersCharged
<1>6. ASSUME NEW q \in Requests, NEW d \in Day
      PROVE  /\ Booked(q, d) \in Nat /\ Pending(q, d) \in Nat /\ Pending(q, d)' \in Nat
             /\ Pending(q, d) <= MaxProjected
             /\ Pending(q, d) # 0 => q \in Active
  BY Charges, ChargesNext DEF ChargesOK
<1>7. MaxProjected \in Nat /\ MaxConcurrent \in Nat \ {0} /\ MonthlyCap \in Nat
  BY LargestProjection, BudgetAssumption
<1> DEFINE slack == (MaxConcurrent - 1) * MaxProjected
<1>8. slack \in Nat
  BY <1>7
<1> SUFFICES ASSUME NEW d \in Day
             PROVE  SumFunctionOnSet(Committed(d)', Requests) <= MonthlyCap + slack
  BY DEF SpendRoom
<1> HIDE DEF slack
<1>9. CASE ~(MonthStart(req[r].day) <= MonthStart(d))
  <2>1. Pending(r, d)' = 0
    BY <1>2, <1>9 DEF Pending, At
  <2>2. \A q \in Requests : Booked(q, d)' + Pending(q, d)' <= Booked(q, d) + Pending(q, d)
    BY <1>4, <1>5, <1>6, <2>1
  <2>3. /\ \A q \in Requests : Committed(d)'[q] = Booked(q, d)' + Pending(q, d)'
        /\ \A q \in Requests : Committed(d)[q] = Booked(q, d) + Pending(q, d)
    BY DEF Committed
  <2>4. \A q \in Requests : /\ Committed(d)'[q] \in Nat /\ Committed(d)[q] \in Nat
                            /\ Committed(d)'[q] <= Committed(d)[q]
    BY <1>4, <1>6, <2>2, <2>3
  <2>5. SumFunctionOnSet(Committed(d)', Requests) <= SumFunctionOnSet(Committed(d), Requests)
    BY <2>4, Constants, SumMonotone
  <2>6. /\ SumFunctionOnSet(Committed(d)', Requests) \in Nat
        /\ SumFunctionOnSet(Committed(d), Requests) \in Nat
    BY <2>4, Constants, SumRemove
  <2>7. SumFunctionOnSet(Committed(d), Requests) <= MonthlyCap + slack
    BY DEF SpendRoom, slack
  <2> QED
    BY <1>7, <1>8, <2>5, <2>6, <2>7
<1>10. CASE MonthStart(req[r].day) <= MonthStart(d)
  <2> DEFINE seen == {q \in Recorded : ai_runs[q].day >= MonthStart(req[r].day)}
             booked == [q \in Requests |-> Booked(q, d)]
             pending == [q \in Requests |-> Pending(q, d)']
             rest == Active \ {r}
  <2>1. /\ IsFiniteSet(Requests) /\ IsFiniteSet(seen) /\ IsFiniteSet(Active)
        /\ IsFiniteSet(rest) /\ IsFiniteSet(Requests \ {r}) /\ r \in Active
        /\ Active \subseteq Requests
    BY <1>1, Constants, FiniteParts, FS_Subset DEF Recorded, Active
  <2>2. \A q \in Requests : Cost[q] = ai_runs[q].cost /\ Cost[q] \in Nat
    BY AtAwait DEF Cost, Run, NoRun
  <2>3. SumFunctionOnSet(booked, Requests) <= SumFunctionOnSet(Cost, seen)
    <3>1. ASSUME NEW q \in Requests
          PROVE  booked[q] \in Nat /\ ((q \in seen /\ booked[q] <= Cost[q]) \/ booked[q] = 0)
      <4>1. booked[q] = Booked(q, d) /\ booked[q] \in Nat
        BY <1>6
      <4>2. CASE booked[q] # 0
        <5>1. /\ ai_runs[q] # NoRun /\ MonthStart(ai_runs[q].day) = MonthStart(d)
              /\ Booked(q, d) <= Cost[q]
          <6>1. /\ ai_runs[q] # NoRun /\ MonthStart(ai_runs[q].day) = MonthStart(d)
                /\ Booked(q, d) = Foreseen(q)
            BY <4>1, <4>2, BookedIs DEF BookedOK
          <6>2. ai_runs[q] = req[q].run
            BY <6>1, AtAwait DEF RequestOK, RowOK
          <6> QED
            BY <2>2, <6>1, <6>2, ForeseenIs
        <5>2. ai_runs[q].day \in Nat
          BY <5>1, AtAwait, Constants DEF Run
        <5>3. MonthStart(ai_runs[q].day) \in Nat /\ MonthStart(ai_runs[q].day) <= ai_runs[q].day
          BY <5>2, Months
        <5>4. q \in seen
          BY <1>3, <1>10, <5>1, <5>2, <5>3 DEF Recorded
        <5> QED
          BY <4>1, <5>1, <5>4
      <4> QED
        BY <4>1, <4>2
    <3>2. \A q \in seen : Cost[q] \in Nat
      BY <2>2 DEF Recorded
    <3> HIDE DEF booked, seen
    <3> QED
      BY <2>1, <3>1, <3>2, SumMonotone
  <2>4. SumFunctionOnSet(Cost, seen) + Projected(r) <= MonthlyCap
        /\ SumFunctionOnSet(Cost, seen) \in Nat /\ Projected(r) \in Nat
    <3>1. ~(SumFunctionOnSet(Cost, seen) + Projected(r) > MonthlyCap)
      BY DEF Admitted, OverCap, MonthlySpent
    <3>2. SumFunctionOnSet(Cost, seen) \in Nat
      <4>1. \A q \in seen : Cost[q] \in Nat
        BY <2>2 DEF Recorded
      <4> HIDE DEF seen
      <4> QED
        BY <2>1, <4>1, SumRemove
    <3>3. Projected(r) \in Nat
      BY <1>1, ProjectedIs DEF Admitted
    <3> QED
      BY <1>7, <3>1, <3>2, <3>3
  <2>5. pending[r] = Projected(r)
    <3>1. Projected(r)' = Projected(r)
      BY <1>2 DEF Projected, Current
    <3> QED
      BY <1>2, <1>10, <3>1 DEF Pending, At
  <2>6. \A q \in Requests : pending[q] \in Nat
    BY <1>6
  <2>7. SumFunctionOnSet(pending, Requests \ {r}) <= slack
    <3>1. ASSUME NEW q \in Requests \ {r}
          PROVE  /\ pending[q] <= MaxProjected
                 /\ (q \in rest /\ pending[q] <= pending[q]) \/ pending[q] = 0
      <4>1. pending[q] = Pending(q, d)
        BY <1>5
      <4>2. /\ Pending(q, d) \in Nat /\ Pending(q, d) <= MaxProjected
            /\ Pending(q, d) # 0 => q \in rest
        BY <1>6
      <4> HIDE DEF pending, rest
      <4>3. pending[q] <= pending[q]
        BY <4>1, <4>2
      <4> QED
        BY <4>1, <4>2, <4>3
    <3>2. rest \subseteq Requests \ {r}
      BY DEF Active
    <3> HIDE DEF pending, rest
    <3>3. SumFunctionOnSet(pending, Requests \ {r}) <= SumFunctionOnSet(pending, rest)
      BY <2>1, <2>6, <3>1, <3>2, SumMonotone
    <3>4. SumFunctionOnSet(pending, rest) <= Cardinality(rest) * MaxProjected
      BY <1>7, <2>1, <2>6, <3>1, <3>2, SumBound
    <3>5. /\ SumFunctionOnSet(pending, Requests \ {r}) \in Nat
          /\ SumFunctionOnSet(pending, rest) \in Nat
      BY <2>1, <2>6, <3>2, SumRemove
    <3>6. Cardinality(rest) \in Nat /\ Cardinality(rest) <= MaxConcurrent - 1
      <4>1. Cardinality(rest) = Cardinality(Active) - 1 /\ Cardinality(Active) \in Nat
        BY <2>1, FS_RemoveElement, FS_CardinalityType DEF rest
      <4>2. Cardinality(Active) <= MaxConcurrent
        BY Parts DEF Overlap
      <4> QED
        BY <1>7, <2>1, <4>1, <4>2, FS_CardinalityType
    <3>7. Cardinality(rest) * MaxProjected <= slack /\ Cardinality(rest) * MaxProjected \in Nat
      <4>1. \A a, b, c \in Nat : (a + b) * c = a * c + b * c /\ a * c \in Nat /\ b * c \in Nat
        OBVIOUS
      <4>2. PICK a \in Nat, b \in Nat : a = Cardinality(rest) /\ MaxConcurrent - 1 = a + b
        <5>1. MaxConcurrent - 1 - Cardinality(rest) \in Nat
              /\ MaxConcurrent - 1
                     = Cardinality(rest) + (MaxConcurrent - 1 - Cardinality(rest))
          BY <1>7, <3>6
        <5> QED
          BY <3>6, <5>1
      <4>3. slack = a * MaxProjected + b * MaxProjected
        <5>1. slack = (a + b) * MaxProjected
          BY <4>2, Zenon DEF slack
        <5> QED
          BY <1>7, <4>1, <5>1
      <4>4. PICK m \in Nat, n \in Nat : m = a * MaxProjected /\ n = b * MaxProjected
        BY <1>7, <4>1
      <4>5. m <= m + n
        OBVIOUS
      <4>6. Cardinality(rest) * MaxProjected = m /\ slack = m + n
        BY <4>2, <4>3, <4>4, Zenon
      <4> QED
        BY <4>5, <4>6
    <3> QED
      BY <1>8, <3>3, <3>4, <3>5, <3>7
  <2>8. /\ SumFunctionOnSet(pending, Requests)
               = pending[r] + SumFunctionOnSet(pending, Requests \ {r})
        /\ SumFunctionOnSet(pending, Requests \ {r}) \in Nat
    <3> HIDE DEF pending
    <3> QED
      BY <2>1, <2>6, SumRemove
  <2>9. SumFunctionOnSet(Committed(d)', Requests)
            = SumFunctionOnSet(booked, Requests) + SumFunctionOnSet(pending, Requests)
    <3>1. \A q \in Requests : /\ Committed(d)'[q] = booked[q] + pending[q]
                              /\ booked[q] \in Nat /\ pending[q] \in Nat
      BY <1>4, <1>6 DEF Committed
    <3> HIDE DEF booked, pending
    <3> QED
      BY <2>1, <3>1, SumPlus
  <2>10. SumFunctionOnSet(booked, Requests) \in Nat
    <3>1. \A q \in Requests : booked[q] \in Nat
      BY <1>6
    <3> HIDE DEF booked
    <3> QED
      BY <2>1, <3>1, SumRemove
  <2> HIDE DEF booked, pending, seen
  <2> QED
    BY <1>7, <1>8, <2>3, <2>4, <2>5, <2>7, <2>8, <2>9, <2>10
<1> QED
  BY <1>9, <1>10

LEMMA SpendInvInit == Init => SpendInv
<1> SUFFICES ASSUME Init PROVE SpendInv
  OBVIOUS
<1>1. Inv
  BY InitInv
<1>2. \A r \in Requests : req[r] = Idle /\ ai_runs[r] = NoRun
  BY DEF Init
<1>3. \A r \in Requests : Fits(r)
  BY <1>2 DEF Fits, Idle
<1>4. ASSUME NEW d \in Day
      PROVE  SumFunctionOnSet(Committed(d), Requests)
                 <= MonthlyCap + (MaxConcurrent - 1) * MaxProjected
  <2>1. \A r \in Requests : Committed(d)[r] = 0
    BY <1>2 DEF Committed, Booked, Pending, CompletedIn, Recorded, At, Idle
  <2>2. SumFunctionOnSet(Committed(d), Requests) <= Cardinality(Requests) * 0
    <3>1. \A r \in Requests : Committed(d)[r] \in Nat /\ Committed(d)[r] <= 0
      BY <2>1
    <3> QED
      BY <3>1, Constants, SumBound
  <2>3. SumFunctionOnSet(Committed(d), Requests) \in Nat /\ Cardinality(Requests) * 0 = 0
    <3>1. Cardinality(Requests) \in Nat /\ \A r \in Requests : Committed(d)[r] \in Nat
      BY <2>1, Constants, FS_CardinalityType
    <3> QED
      BY <3>1, Constants, SumRemove
  <2>4. (MaxConcurrent - 1) * MaxProjected \in Nat /\ MonthlyCap \in Nat
    <3>1. MaxConcurrent - 1 \in Nat
      BY Constants
    <3> QED
      BY <3>1, LargestProjection, BudgetAssumption
  <2> QED
    BY <2>2, <2>3, <2>4
<1> QED
  BY <1>1, <1>3, <1>4 DEF SpendInv, SpendRoom

LEMMA SpendInvNext ==
    ASSUME SpendInv, [Next]_vars
    PROVE  SpendInv'
<1>1. Inv /\ Inv' /\ AllFit /\ SpendRoom
  BY NextInv DEF SpendInv, AllFit
<1>2. CASE SavePolicy \/ Midnight \/ UNCHANGED vars
  <2>1. req' = req /\ ai_runs' = ai_runs
    BY <1>2 DEF SavePolicy, Midnight, vars
  <2>2. AllFit'
    BY <1>1, <2>1 DEF AllFit, Fits
  <2>3. \A d \in Day : Committed(d)' = Committed(d)
    BY <2>1 DEF Committed, Booked, Pending, CompletedIn, Recorded, MonthOf, At, Foreseen,
       Projected, Current
  <2> QED
    BY <1>1, <2>2, <2>3 DEF SpendInv, AllFit, SpendRoom
<1>3. ASSUME NEW r \in Requests, Execute(r)
      PROVE  SpendInv'
  <2>1. OthersAlone(r)
    BY <1>1, <1>3, Alone
  <2>2. \A q \in Requests \ {r} : Fits(q)'
    BY <1>1, <2>1, OthersCharged
  <2>3. CASE GoesOn(r) \/ Refused(r) \/ Paid(r) \/ Stored(r)
    <3>1. Fits(r)' /\ \A d \in Day : Charge(r, d)' <= Charge(r, d)
      BY <1>1, <2>3, StepCharged DEF Charge
    <3>2. AllFit'
      BY <2>2, <3>1 DEF AllFit
    <3>3. ASSUME NEW q \in Requests, NEW d \in Day PROVE Charge(q, d)' <= Charge(q, d)
      <4>1. CASE q = r
        BY <3>1, <4>1
      <4>2. CASE q # r
        <5>1. Booked(q, d)' = Booked(q, d) /\ Pending(q, d)' = Pending(q, d)
          BY <1>1, <2>1, <4>2, OthersCharged
        <5>2. Booked(q, d) \in Nat /\ Pending(q, d) \in Nat
          BY <1>1, Charges DEF ChargesOK
        <5> QED
          BY <5>1, <5>2 DEF Charge
      <4> QED
        BY <4>1, <4>2
    <3> QED
      BY <1>1, <3>2, <3>3, SpendKept DEF SpendInv, AllFit
  <2>4. CASE Admitted(r)
    <3>1. req[r] \in Invocation
      BY <1>1, AtAwait
    <3>2. req'[r].max = req[r].max /\ req'[r].run = req[r].run /\ req[r].step = "monthly"
      BY <2>4, <3>1 DEF Admitted, At, Invocation
    <3>3. AllFit'
      BY <1>1, <2>2, <3>2 DEF AllFit, Fits
    <3> QED
      BY <1>1, <2>1, <2>4, <3>3, AdmittedRoom DEF SpendInv, AllFit
  <2> QED
    BY <1>1, <1>3, <2>3, <2>4, Kinds
<1> QED
  BY <1>2, <1>3 DEF Next

LEMMA SpentWithinCommitted == SpendInv => SpendWithinCap
<1> SUFFICES ASSUME SpendInv, NEW d \in Day
             PROVE  SumFunctionOnSet(Cost, CompletedIn(MonthOf(d)))
                        <= MonthlyCap + (MaxConcurrent - 1) * MaxProjected
                             + SumFunctionOnSet(Overrun, CompletedIn(MonthOf(d)))
  BY DEF SpendWithinCap
<1>1. Inv /\ AllFit
  BY DEF SpendInv, AllFit
<1> DEFINE done == CompletedIn(MonthOf(d))
           foreseen == [r \in Requests |-> Foreseen(r)]
<1>2. done \subseteq Requests /\ IsFiniteSet(done) /\ IsFiniteSet(Requests)
  <2>1. done \subseteq Requests
    BY DEF CompletedIn, Recorded
  <2> QED
    BY <2>1, Constants, FS_Subset
<1>3. ASSUME NEW r \in Requests
      PROVE  /\ Committed(d)[r] \in Nat
             /\ r \in done => /\ foreseen[r] \in Nat /\ foreseen[r] <= Committed(d)[r]
                              /\ Overrun[r] \in Nat /\ Cost[r] = foreseen[r] + Overrun[r]
  <2>1. Booked(r, d) \in Nat /\ Pending(r, d) \in Nat
    BY <1>1, Charges DEF ChargesOK
  <2>2. Committed(d)[r] = Booked(r, d) + Pending(r, d)
    BY DEF Committed
  <2>3. ASSUME r \in done
        PROVE  /\ foreseen[r] \in Nat /\ foreseen[r] = Booked(r, d)
               /\ Overrun[r] \in Nat /\ Cost[r] = foreseen[r] + Overrun[r]
    <3>1. ai_runs[r] = req[r].run
      BY <1>1, <2>3, AtAwait DEF RequestOK, RowOK, CompletedIn, Recorded
    <3>2. Foreseen(r) \in Nat /\ Projected(r) \in Nat /\ req[r].run.cost \in Nat
      BY <1>1, ForeseenIs
    <3>3. Cost[r] = req[r].run.cost /\ foreseen[r] = Foreseen(r) /\ Foreseen(r) = Booked(r, d)
      BY <2>3, <3>1 DEF Cost, Booked
    <3>4. Overrun[r] = IF req[r].run.cost > Projected(r) THEN req[r].run.cost - Projected(r) ELSE 0
      BY <3>1 DEF Overrun
    <3> QED
      BY <3>2, <3>3, <3>4 DEF Foreseen
  <2> QED
    BY <2>1, <2>2, <2>3
<1> HIDE DEF done, foreseen
<1>4. SumFunctionOnSet(Cost, done)
          = SumFunctionOnSet(foreseen, done) + SumFunctionOnSet(Overrun, done)
  <2>1. \A r \in done : /\ foreseen[r] \in Nat /\ Overrun[r] \in Nat
                        /\ Cost[r] = foreseen[r] + Overrun[r]
    BY <1>2, <1>3
  <2> QED
    BY <1>2, <2>1, SumPlus
<1>5. SumFunctionOnSet(foreseen, done) <= SumFunctionOnSet(Committed(d), Requests)
  BY <1>2, <1>3, SumMonotone
<1>6. /\ SumFunctionOnSet(foreseen, done) \in Nat /\ SumFunctionOnSet(Overrun, done) \in Nat
      /\ SumFunctionOnSet(Committed(d), Requests) \in Nat
  <2>1. \A r \in done : foreseen[r] \in Nat /\ Overrun[r] \in Nat
    BY <1>2, <1>3
  <2> QED
    BY <1>2, <1>3, <2>1, SumRemove
<1>7. SumFunctionOnSet(Committed(d), Requests)
          <= MonthlyCap + (MaxConcurrent - 1) * MaxProjected
  BY DEF SpendInv, SpendRoom
<1>8. MonthlyCap + (MaxConcurrent - 1) * MaxProjected \in Nat
  <2>1. MaxConcurrent - 1 \in Nat /\ MonthlyCap \in Nat /\ MaxProjected \in Nat
    BY Constants, LargestProjection, BudgetAssumption
  <2> QED
    BY <2>1
<1>9. SumFunctionOnSet(Cost, done)
          <= MonthlyCap + (MaxConcurrent - 1) * MaxProjected + SumFunctionOnSet(Overrun, done)
  BY <1>4, <1>5, <1>6, <1>7, <1>8
<1> QED
  BY <1>9 DEF done

\* The money of a month stays within the cap and the overlap's slack also when
\* everything admitted and everything about to be saved is counted with what is
\* in the ledger, each at no more than was projected for it.
THEOREM SpendInvariance == Spec => []SpendInv
<1>1. SpendInv /\ [Next]_vars => SpendInv'
  BY SpendInvNext
<1> QED
  BY <1>1, SpendInvInit, PTL DEF Spec

\* A month's completed runs exceed the cap by at most one largest projection for
\* each other invocation that overlaps (checkBudget reserves nothing) and by
\* what they cost beyond their own projections (which take every prompt for
\* 2000 tokens).
THEOREM SpendBounded == Spec => []SpendWithinCap
BY SpendInvariance, SpentWithinCommitted, PTL

\* A month in which no run cost more than was projected for it is within its cap.
ForeseenMonthWithinCap ==
    \A d \in Day :
        LET month == CompletedIn(MonthOf(d))
        IN  (\A r \in month : ai_runs[r].cost <= Projected(r))
                => SumFunctionOnSet(Cost, month) <= MonthlyCap

\* One invocation at a time keeps the cap in every month whose runs all cost at
\* most what checkBudget projected for them.  The condition is part of the
\* formula because no code ensures it: one long prompt breaks it, and the cap.
THEOREM CapKeptOneAtATime ==
    ASSUME MaxConcurrent = 1
    PROVE  Spec => []ForeseenMonthWithinCap
<1>1. SpendInv /\ SpendWithinCap => ForeseenMonthWithinCap
  <2> SUFFICES ASSUME SpendInv, SpendWithinCap, NEW d \in Day,
                      \A r \in CompletedIn(MonthOf(d)) : ai_runs[r].cost <= Projected(r)
               PROVE  SumFunctionOnSet(Cost, CompletedIn(MonthOf(d))) <= MonthlyCap
    BY DEF ForeseenMonthWithinCap
  <2> DEFINE month == CompletedIn(MonthOf(d))
  <2>1. IsFiniteSet(month) /\ Cardinality(month) \in Nat
    <3>1. month \subseteq Requests
      BY DEF CompletedIn, Recorded
    <3> QED
      BY <3>1, Constants, FS_Subset, FS_CardinalityType
  <2>2. \A r \in month : Overrun[r] = 0
    <3>1. \A r \in month : r \in Requests /\ ai_runs[r].cost <= Projected(r)
      BY DEF CompletedIn, Recorded
    <3>2. ASSUME NEW r \in month PROVE ai_runs[r].cost \in Nat /\ Projected(r) \in Nat
      <4>1. ai_runs[r] = req[r].run
        BY AtAwait DEF RequestOK, RowOK, CompletedIn, Recorded, SpendInv
      <4> QED
        BY <3>1, <4>1, ForeseenIs DEF SpendInv, AllFit
    <3> QED
      BY <3>1, <3>2 DEF Overrun
  <2>3. SumFunctionOnSet(Overrun, month) \in Nat /\ SumFunctionOnSet(Overrun, month) <= 0
    <3>1. SumFunctionOnSet(Overrun, month) \in Nat
      BY <2>1, <2>2, SumRemove
    <3>2. SumFunctionOnSet(Overrun, month) <= Cardinality(month) * 0
      BY <2>1, <2>2, SumBound
    <3> QED
      BY <2>1, <3>1, <3>2
  <2>4. SumFunctionOnSet(Cost, month)
            <= MonthlyCap + (MaxConcurrent - 1) * MaxProjected + SumFunctionOnSet(Overrun, month)
    BY DEF SpendWithinCap
  <2>5. MonthlyCap + (MaxConcurrent - 1) * MaxProjected = MonthlyCap
    <3>1. MonthlyCap \in Nat /\ MaxProjected \in Nat
      BY BudgetAssumption, LargestProjection
    <3> QED
      BY <3>1
  <2>6. SumFunctionOnSet(Overrun, month) = 0 /\ MonthlyCap \in Nat
    BY <2>3, BudgetAssumption
  <2> HIDE DEF month
  <2>7. SumFunctionOnSet(Cost, month) <= MonthlyCap
    BY <2>4, <2>5, <2>6
  <2> QED
    BY <2>7 DEF month
<1> QED
  BY <1>1, SpendInvariance, SpendBounded, PTL

-----------------------------------------------------------------------------
(* What the projection needs.                                               *)

LEMMA PerThousandGrows ==
    \A a, b, rate \in Nat : a <= b => PerThousand(a, rate) <= PerThousand(b, rate)
<1>1. ASSUME NEW a \in Nat, NEW b \in Nat, NEW rate \in Nat, a <= b
      PROVE  a * rate <= b * rate /\ a * rate \in Nat /\ b * rate \in Nat
  <2>1. PICK c \in Nat : b = a + c
    <3>1. b - a \in Nat /\ b = a + (b - a)
      BY <1>1
    <3> QED
      BY <3>1
  <2>2. PICK m \in Nat, n \in Nat : m = a * rate /\ n = c * rate
    OBVIOUS
  <2>3. b * rate = m + n
    BY <2>1, <2>2
  <2> QED
    BY <2>2, <2>3
<1>2. \A m, n \in Nat : m <= n => (m + 999) \div 1000 <= (n + 999) \div 1000
  OBVIOUS
<1> QED
  BY <1>1, <1>2 DEF PerThousand

LEMMA EstimateCovers ==
    ASSUME NEW p \in DOMAIN Pricing, NEW m \in Nat,
           NEW prompt \in Nat, NEW completion \in Nat,
           prompt <= EstimatedPromptTokens, completion <= MaxOutput(p, m)
    PROVE  CalculateCost(p, prompt, completion) <= ProjectedCost(p, m)
<1>1. Pricing[p].in \in Nat /\ Pricing[p].out \in Nat /\ Pricing[p].cap \in Nat
  BY BudgetAssumption
<1>2. EstimatedPromptTokens \in Nat /\ MaxOutput(p, m) \in Nat
  BY <1>1 DEF EstimatedPromptTokens, MaxOutput
<1>3. \A n, rate \in Nat : PerThousand(n, rate) \in Nat
  <2>1. \A k \in Nat : (k + 999) \div 1000 \in Nat
    OBVIOUS
  <2>2. \A n, rate \in Nat : n * rate \in Nat
    OBVIOUS
  <2> QED
    BY <2>1, <2>2 DEF PerThousand
<1>4. /\ PerThousand(prompt, Pricing[p].in) <= PerThousand(EstimatedPromptTokens, Pricing[p].in)
      /\ PerThousand(completion, Pricing[p].out) <= PerThousand(MaxOutput(p, m), Pricing[p].out)
  BY <1>1, <1>2, PerThousandGrows
<1>5. /\ PerThousand(prompt, Pricing[p].in) \in Nat
      /\ PerThousand(EstimatedPromptTokens, Pricing[p].in) \in Nat
      /\ PerThousand(completion, Pricing[p].out) \in Nat
      /\ PerThousand(MaxOutput(p, m), Pricing[p].out) \in Nat
  BY <1>1, <1>2, <1>3
<1> QED
  BY <1>4, <1>5 DEF CalculateCost, ProjectedCost

\* No call costs more than was projected for it when prompts are no longer than
\* checkBudget's fixed estimate and, for a request that gives no token limit,
\* answers no longer than the output it projects; a limit that is given bounds
\* both (calculateCost is monotone).
THEOREM WhenProjectionCovers ==
    ASSUME \A prompt \in PromptTokens : prompt <= EstimatedPromptTokens,
           \A p \in Candidates, completion \in OutputTokens :
               PreflightPasses(p, 0) /\ completion <= DefaultOutput[p]
                   => completion <= MaxOutput(p, 0)
    PROVE  ProjectionCovers
<1> SUFFICES ASSUME NEW p \in Candidates, NEW m \in MaxTokens, NEW prompt \in PromptTokens,
                    NEW completion \in OutputTokens, PreflightPasses(p, m),
                    completion <= OutputLimit(p, m)
             PROVE  CalculateCost(p, prompt, completion) <= ProjectedCost(p, m)
  BY DEF ProjectionCovers
<1>1. p \in DOMAIN Pricing /\ m \in Nat /\ prompt \in Nat /\ completion \in Nat
  BY Constants DEF PreflightPasses
<1>2. completion <= MaxOutput(p, m)
  <2>1. CASE m = 0
    BY <2>1 DEF OutputLimit
  <2>2. CASE m # 0
    BY <2>2 DEF OutputLimit, MaxOutput
  <2> QED
    BY <2>1, <2>2
<1>3. prompt <= EstimatedPromptTokens
  OBVIOUS
<1> QED
  BY <1>1, <1>2, <1>3, EstimateCovers

\* What a request paid is covered by the projection it still shows.
Covered(r) ==
    \/ req[r].run.cost = 0
    \/ req[r].step \in {"save", "done"} /\ req[r].run.cost <= Projected(r)

LEMMA StepCovered ==
    ASSUME ProjectionCovers, Inv, AllFit, NEW r \in Requests, Covered(r), Execute(r)
    PROVE  Covered(r)'
<1>1. req[r] \in Invocation /\ RequestOK(r)
  BY AtAwait
<1>2. CASE GoesOn(r)
  BY <1>2 DEF GoesOn, Covered
<1>3. CASE Refused(r)
  <2>1. req'[r].run.cost = 0
    BY <1>1, <1>3 DEF Refused, Invocation
  <2> QED
    BY <2>1 DEF Covered
<1>4. CASE Admitted(r)
  <2>1. req'[r].run = req[r].run /\ req[r].step = "monthly"
    BY <1>1, <1>4 DEF Admitted, At, Invocation
  <2> QED
    BY <2>1 DEF Covered
<1>5. CASE Paid(r)
  <2>1. PICK prompt \in PromptTokens, completion \in OutputTokens :
            /\ completion <= OutputLimit(Current(r), req[r].max)
            /\ req'[r] = [req[r] EXCEPT !.step = "save",
                              !.run = [status |-> "completed", day |-> today,
                                       cost |-> CalculateCost(Current(r), prompt, completion)]]
    BY <1>5 DEF Paid
  <2>2. /\ req'[r].run.cost = CalculateCost(Current(r), prompt, completion)
        /\ req'[r].step = "save" /\ req'[r].at = req[r].at /\ req'[r].max = req[r].max
        /\ req'[r].candidates = req[r].candidates
    BY <1>1, <2>1 DEF Invocation
  <2>3. req[r].step = "generate" /\ req[r].at # 0
    BY <1>1, <1>5 DEF Paid, At, RequestOK, LoopOK
  <2>4. CalculateCost(Current(r), prompt, completion) <= Projected(r)
    BY <2>1, <2>3, ProjectedIs DEF ProjectionCovers
  <2>5. Projected(r)' = Projected(r)
    BY <2>2 DEF Projected, Current
  <2> QED
    BY <2>2, <2>4, <2>5 DEF Covered
<1>6. CASE Stored(r)
  <2>1. /\ req'[r].step = "done" /\ req'[r].run = req[r].run /\ req'[r].at = req[r].at
        /\ req'[r].max = req[r].max /\ req'[r].candidates = req[r].candidates
    BY <1>1, <1>6 DEF Stored, Invocation
  <2>2. Projected(r)' = Projected(r)
    BY <2>1 DEF Projected, Current
  <2> QED
    BY <2>1, <2>2 DEF Covered
<1> QED
  BY <1>2, <1>3, <1>4, <1>5, <1>6, Kinds

\* Where every prompt and answer fits the projection, no run costs more than its
\* budget check projected for it: the overrun of SpendBounded is nothing.
THEOREM NothingOverruns ==
    ASSUME ProjectionCovers
    PROVE  Spec => [](\A r \in Requests : Overrun[r] = 0)
<1> DEFINE AllCovered == \A r \in Requests : Covered(r)
<1>1. Init => AllCovered
  BY DEF Init, Covered, Idle, NoRun
<1>2. SpendInv /\ AllCovered /\ [Next]_vars => AllCovered'
  <2> SUFFICES ASSUME SpendInv, AllCovered, [Next]_vars PROVE AllCovered'
    OBVIOUS
  <2>1. Inv /\ AllFit
    BY DEF SpendInv, AllFit
  <2>2. CASE SavePolicy \/ Midnight \/ UNCHANGED vars
    <3>1. req' = req
      BY <2>2 DEF SavePolicy, Midnight, vars
    <3> QED
      BY <3>1 DEF Covered, Projected, Current
  <2>3. ASSUME NEW r \in Requests, Execute(r), NEW q \in Requests PROVE Covered(q)'
    <3>1. CASE q = r
      BY <2>1, <2>3, <3>1, StepCovered
    <3>2. CASE q # r
      <4>1. req'[q] = req[q]
        BY <2>1, <2>3, <3>2, Alone DEF OthersAlone
      <4> QED
        BY <4>1 DEF Covered, Projected, Current
    <3> QED
      BY <3>1, <3>2
  <2> QED
    BY <2>2, <2>3 DEF Next
<1>3. SpendInv /\ AllCovered => \A r \in Requests : Overrun[r] = 0
  <2> SUFFICES ASSUME SpendInv, AllCovered, NEW r \in Requests PROVE Overrun[r] = 0
    OBVIOUS
  <2>1. Projected(r) \in Nat /\ req[r].run.cost \in Nat /\ ai_runs[r] \in {NoRun, req[r].run}
    BY ForeseenIs, AtAwait DEF SpendInv, AllFit, RequestOK, RowOK
  <2>2. ai_runs[r].cost \in Nat /\ ai_runs[r].cost <= Projected(r)
    BY <2>1 DEF Covered, NoRun
  <2> QED
    BY <2>1, <2>2 DEF Overrun
<1> HIDE DEF AllCovered
<1>4. Spec => []AllCovered
  BY <1>1, <1>2, SpendInvariance, PTL DEF Spec
<1> QED
  BY <1>3, <1>4, SpendInvariance, PTL

-----------------------------------------------------------------------------
(* Refusals.                                                                *)

\* The ledger without r: the rows since a day.
Since(r, day) == {q \in Recorded \ {r} : ai_runs[q].day >= day}

NoRoomFor(r) ==
    \/ Cardinality({q \in Since(r, MonthStart(req[r].day)) : ai_runs[q].day >= req[r].day})
           >= DailyLimit
    \/ SumFunctionOnSet(Cost, Since(r, MonthStart(req[r].day))) + Max({1, Projected(r)})
           > MonthlyCap

LEMMA RefusalIs ==
    RefusalIsJustified <=>
        \A r \in Requests : req[r].run.status = "budget_exceeded" => NoRoomFor(r)
BY DEF RefusalIsJustified, NoRoomFor, Since

LEMMA RefusalNext ==
    RefusalIsJustified' <=>
        \A r \in Requests : (req[r].run.status = "budget_exceeded")' => NoRoomFor(r)'
BY DEF RefusalIsJustified, NoRoomFor, Since

LEMMA MaxOfTwo == \A n \in Nat : Max({1, n}) \in Nat /\ n <= Max({1, n}) /\ 1 <= Max({1, n})
<1> SUFFICES ASSUME NEW n \in Nat
             PROVE  Max({1, n}) \in Nat /\ n <= Max({1, n}) /\ 1 <= Max({1, n})
  OBVIOUS
<1>1. IsFiniteSet({1, n})
  <2>1. {1, n} = {1} \cup {n} /\ IsFiniteSet({1})
    BY FS_Singleton
  <2> QED
    BY <2>1, FS_AddElement
<1>2. Max({1, n}) \in {1, n} /\ \A x \in {1, n} : x <= Max({1, n})
  BY <1>1, SetMax
<1> QED
  BY <1>2

LEMMA ProjectedIsNat ==
    ASSUME Inv, NEW r \in Requests
    PROVE  Projected(r) \in Nat
<1>1. CASE req[r].at = 0
  BY <1>1 DEF Projected
<1>2. CASE req[r].at # 0
  <2>1. Current(r) \in DOMAIN Pricing /\ req[r].max \in Nat
    BY <1>2, AtAwait DEF RequestOK, LoopOK, PreflightPasses
  <2>2. ProjectedCost(Current(r), req[r].max) \in Nat
    BY <2>1, ProjectionIsNat
  <2> QED
    BY <1>2, <2>2 DEF Projected
<1> QED
  BY <1>1, <1>2

\* Rows are only added to the ledger.
LEMMA LedgerGrows ==
    ASSUME Inv, NEW r \in Requests, GoesOn(r) \/ Refused(r) \/ Admitted(r) \/ Paid(r) \/ Stored(r),
           OthersAlone(r), NEW q \in Requests
    PROVE  ai_runs'[q] = ai_runs[q] \/ ai_runs[q] = NoRun
<1>1. CASE q # r
  BY <1>1 DEF OthersAlone
<1>2. CASE q = r
  <2>1. CASE Stored(r)
    BY <1>2, <2>1, AtAwait DEF Stored, At, RequestOK, RowOK
  <2> QED
    BY <1>2, <2>1 DEF GoesOn, Refused, Admitted, Paid
<1> QED
  BY <1>1, <1>2

\* What left no room leaves none later.
LEMMA RoomStaysTaken ==
    ASSUME Inv, Inv', NEW r \in Requests, NoRoomFor(r),
           \A q \in Requests : ai_runs'[q] = ai_runs[q] \/ ai_runs[q] = NoRun,
           req'[r].day = req[r].day, Projected(r)' = Projected(r)
    PROVE  NoRoomFor(r)'
<1> DEFINE month == MonthStart(req[r].day)
           old == Since(r, month)
           new == Since(r, month)'
           oldDay == {q \in old : ai_runs[q].day >= req[r].day}
           newDay == {q \in new : ai_runs'[q].day >= req[r].day}
<1>1. /\ old \subseteq new /\ oldDay \subseteq newDay /\ new \subseteq Requests
      /\ newDay \subseteq new
      /\ \A q \in old : ai_runs'[q] = ai_runs[q]
  BY DEF Since, Recorded
<1>2. \A q \in Requests : ai_runs[q].cost \in Nat /\ ai_runs'[q].cost \in Nat
  <2>1. Typed /\ Typed'
    <3>1. Inv => Typed
      BY Parts
    <3>2. Inv' => Typed'
      BY Parts, PTL
    <3> QED
      BY <3>1, <3>2
  <2> QED
    BY <2>1 DEF Typed, Run, NoRun
<1>3. /\ IsFiniteSet(old) /\ IsFiniteSet(new) /\ IsFiniteSet(oldDay) /\ IsFiniteSet(newDay)
  BY <1>1, Constants, FS_Subset
<1>4. Cardinality(oldDay) <= Cardinality(newDay)
      /\ Cardinality(oldDay) \in Nat /\ Cardinality(newDay) \in Nat
  BY <1>1, <1>3, FS_Subset, FS_CardinalityType
<1>5. /\ \A q \in old : Cost[q] \in Nat /\ Cost[q] <= Cost'[q]
      /\ \A q \in new : Cost'[q] \in Nat
  BY <1>1, <1>2 DEF Cost
<1> HIDE DEF old, new, oldDay, newDay, month
<1>6. SumFunctionOnSet(Cost, old) <= SumFunctionOnSet(Cost', new)
  BY <1>1, <1>3, <1>5, SumMonotone
<1>7. SumFunctionOnSet(Cost, old) \in Nat /\ SumFunctionOnSet(Cost', new) \in Nat
  BY <1>3, <1>5, SumRemove
<1>8. Projected(r) \in Nat /\ Max({1, Projected(r)}) \in Nat
  BY ProjectedIsNat, MaxOfTwo
<1>9. NoRoomFor(r) <=> \/ Cardinality(oldDay) >= DailyLimit
                       \/ SumFunctionOnSet(Cost, old) + Max({1, Projected(r)}) > MonthlyCap
  BY DEF NoRoomFor, old, oldDay, month
<1>10. NoRoomFor(r)' <=> \/ Cardinality(newDay) >= DailyLimit
                         \/ SumFunctionOnSet(Cost', new) + Max({1, Projected(r)}) > MonthlyCap
  BY DEF NoRoomFor, new, newDay, month
<1>11. DailyLimit \in Nat /\ MonthlyCap \in Nat
  BY BudgetAssumption
<1> QED
  BY <1>4, <1>6, <1>7, <1>8, <1>9, <1>10, <1>11

\* A request that has no row yet is refused on the rows of the others.
LEMMA RefusedOnLedger ==
    ASSUME Inv, NEW r \in Requests, req[r].step \notin {"save", "done"},
           DailyCount(req[r].day) >= DailyLimit \/ OverCap(r)
    PROVE  NoRoomFor(r)
<1> DEFINE day == req[r].day
           others == Since(r, MonthStart(day))
<1>1. ai_runs[r] = NoRun
  BY AtAwait DEF RequestOK, RowOK
<1>2. others = {q \in Recorded : ai_runs[q].day >= MonthStart(day)}
  BY <1>1 DEF Since, Recorded
<1>3. CASE DailyCount(day) >= DailyLimit
  <2>1. day \in Nat /\ MonthStart(day) \in Nat /\ MonthStart(day) <= day
    BY AtAwait, Months
  <2>2. \A q \in Recorded : ai_runs[q].day \in Nat
    BY AtAwait, Constants DEF Recorded, Run
  <2>3. {q \in others : ai_runs[q].day >= day} = {q \in Recorded : ai_runs[q].day >= day}
    BY <1>2, <2>1, <2>2
  <2> QED
    BY <1>3, <2>3 DEF NoRoomFor, DailyCount
<1>4. CASE OverCap(r)
  <2>1. MonthlySpent(day) = SumFunctionOnSet(Cost, others)
    BY <1>2 DEF MonthlySpent
  <2>2. MonthlySpent(day) >= MonthlyCap \/ MonthlySpent(day) + Projected(r) > MonthlyCap
    BY <1>4 DEF OverCap
  <2>3. SumFunctionOnSet(Cost, others) \in Nat
    <3>1. IsFiniteSet(others) /\ \A q \in others : Cost[q] \in Nat
      <4>1. \A q \in Requests : Cost[q] \in Nat
        BY AtAwait DEF Cost, Run, NoRun
      <4> QED
        BY <4>1, Constants, FS_Subset DEF Since, Recorded
    <3> HIDE DEF others
    <3> QED
      BY <3>1, SumRemove
  <2>4. /\ Projected(r) \in Nat /\ MonthlyCap \in Nat
        /\ Max({1, Projected(r)}) \in Nat /\ 1 <= Max({1, Projected(r)})
        /\ Projected(r) <= Max({1, Projected(r)})
    BY ProjectedIsNat, MaxOfTwo, BudgetAssumption
  <2> HIDE DEF others
  <2>5. SumFunctionOnSet(Cost, others) + Max({1, Projected(r)}) > MonthlyCap
    BY <2>1, <2>2, <2>3, <2>4
  <2> QED
    BY <2>5 DEF NoRoomFor, others
<1> QED
  BY <1>3, <1>4

LEMMA RefusalInvNext ==
    ASSUME Inv, RefusalIsJustified, [Next]_vars
    PROVE  RefusalIsJustified'
<1>1. Inv'
  BY NextInv
<1>2. CASE SavePolicy \/ Midnight \/ UNCHANGED vars
  <2>1. req' = req /\ ai_runs' = ai_runs
    BY <1>2 DEF SavePolicy, Midnight, vars
  <2> QED
    BY <2>1 DEF RefusalIsJustified, Recorded, Cost, Projected, Current
<1>3. ASSUME NEW r \in Requests, Execute(r), NEW q \in Requests,
             req'[q].run.status = "budget_exceeded"
      PROVE  NoRoomFor(q)'
  <2>1. /\ OthersAlone(r)
        /\ GoesOn(r) \/ Refused(r) \/ Admitted(r) \/ Paid(r) \/ Stored(r)
    BY <1>3, Alone, Kinds
  <2>2. \A p \in Requests : ai_runs'[p] = ai_runs[p] \/ ai_runs[p] = NoRun
    BY <2>1, LedgerGrows
  <2>3. ASSUME req'[q].at = req[q].at, req'[q].candidates = req[q].candidates,
               req'[q].max = req[q].max, req'[q].day = req[q].day, NoRoomFor(q)
        PROVE  NoRoomFor(q)'
    <3>1. Projected(q)' = Projected(q)
      BY <2>3 DEF Projected, Current
    <3> QED
      BY <1>1, <2>2, <2>3, <3>1, RoomStaysTaken
  <2>4. CASE q # r
    <3>1. req'[q] = req[q]
      BY <2>1, <2>4 DEF OthersAlone
    <3>2. NoRoomFor(q)
      BY <1>3, <3>1, RefusalIs
    <3> QED
      BY <2>3, <3>1, <3>2
  <2>5. CASE q = r /\ Stored(r)
    <3>1. req[r] \in Invocation
      BY AtAwait
    <3>2. /\ req'[r].run = req[r].run /\ req'[r].at = req[r].at /\ req'[r].max = req[r].max
          /\ req'[r].candidates = req[r].candidates /\ req'[r].day = req[r].day
      BY <2>5, <3>1 DEF Stored, Invocation
    <3>3. NoRoomFor(q)
      BY <1>3, <2>5, <3>2, RefusalIs
    <3> QED
      BY <2>3, <2>5, <3>2, <3>3
  <2>6. CASE q = r /\ Refused(r)
    <3>1. req[r] \in Invocation
      BY AtAwait
    <3>2. PICK s \in {"blocked_by_policy", "budget_exceeded"} :
              /\ req'[r] = [req[r] EXCEPT !.step = "save",
                                !.run = [status |-> s, cost |-> 0, day |-> today]]
              /\ s = "budget_exceeded" =>
                     DailyCount(req[r].day) >= DailyLimit \/ OverCap(r)
      BY <2>6 DEF Refused
    <3>3. /\ req'[r].run.status = s /\ req'[r].at = req[r].at /\ req'[r].max = req[r].max
          /\ req'[r].candidates = req[r].candidates /\ req'[r].day = req[r].day
      BY <3>1, <3>2 DEF Invocation
    <3>4. DailyCount(req[r].day) >= DailyLimit \/ OverCap(r)
      BY <1>3, <2>6, <3>2, <3>3
    <3>5. req[r].step \notin {"save", "done"}
      BY <2>6 DEF Refused
    <3>6. NoRoomFor(r)
      BY <3>4, <3>5, RefusedOnLedger
    <3> QED
      BY <2>3, <2>6, <3>3, <3>6
  <2>7. CASE q = r /\ (GoesOn(r) \/ Admitted(r))
    <3>1. req[r] \in Invocation /\ req[r].run = NoRun
      BY <2>7, AtAwait DEF GoesOn, Admitted, At, RequestOK, RowOK
    <3>2. req'[r].run = NoRun
      BY <2>7, <3>1 DEF GoesOn, Admitted, Invocation
    <3> QED
      BY <1>3, <2>7, <3>2 DEF NoRun
  <2>8. CASE q = r /\ Paid(r)
    <3>1. req[r] \in Invocation
      BY AtAwait
    <3>2. req'[r].run.status = "completed"
      BY <2>8, <3>1 DEF Paid, Invocation
    <3> QED
      BY <1>3, <2>8, <3>2
  <2> QED
    BY <2>1, <2>4, <2>5, <2>6, <2>7, <2>8
<1>4. CASE \E r \in Requests : Execute(r)
  BY <1>3, <1>4, RefusalNext
<1> QED
  BY <1>2, <1>4 DEF Next

\* A refusal for budget stays justified by the rows of the other requests:
\* checkBudget refuses on the ledger alone, and rows are only added to it.
THEOREM JustifiedRefusal == Spec => []RefusalIsJustified
<1>1. Init => RefusalIsJustified
  BY DEF Init, RefusalIsJustified, Idle, NoRun
<1>2. Inv /\ RefusalIsJustified /\ [Next]_vars => RefusalIsJustified'
  BY RefusalInvNext
<1> QED
  BY <1>1, <1>2, GateInvariance, PTL DEF Spec
=============================================================================

----------------------------- MODULE NanoProofs -----------------------------
(***************************************************************************)
(* Proofs about Nano, for every number of lines, line length, alphabet and *)
(* file size.  Reading a file into the buffer and writing the buffer out   *)
(* are loops, given in Nano as functions of the number of steps taken; the *)
(* lemmas here show by induction on that number what each loop has done so *)
(* far, and that reading undoes writing.  The editor's invariant is that   *)
(* the cursor, the lines and the modified flag fit the text on the disk.   *)
(***************************************************************************)
EXTENDS Nano, BasicProofs

\* f is the recursion that starts with a and goes on by F.
Solves(f, n, S, a, F) ==
    f \in [0 .. n -> S] /\ f[0] = a /\ \A i \in 1 .. n : f[i] = F[<<f[i - 1], i>>]
\* Every such recursion over 0 .. n has a solution.
LEMMA RecursionExists ==
    ASSUME NEW n \in Nat, NEW S, NEW a \in S, NEW F \in [S \X (1 .. n) -> S]
    PROVE  \E f : Solves(f, n, S, a, F)
<1> DEFINE Good(m, f) == f[0] = a /\ \A i \in 1 .. m : f[i] = F[<<f[i - 1], i>>]
           T == {m \in Nat : m <= n => \E f \in [0 .. m -> S] : Good(m, f)}
<1>1. 0 \in T
  <2>1. [i \in 0 .. 0 |-> a] \in [0 .. 0 -> S] /\ Good(0, [i \in 0 .. 0 |-> a])
    OBVIOUS
  <2> QED
    BY <2>1
<1>2. ASSUME NEW m \in T PROVE m + 1 \in T
  <2>1. CASE ~(m + 1 <= n)
    BY <2>1
  <2>2. CASE m + 1 <= n
    <3>1. m \in Nat /\ m <= n
      BY <2>2
    <3>2. PICK f \in [0 .. m -> S] : Good(m, f)
      BY <1>2, <3>1
    <3>3. <<f[m], m + 1>> \in S \X (1 .. n)
      BY <2>2, <3>1
    <3>4. PICK b \in S : b = F[<<f[m], m + 1>>]
      BY <3>3
    <3>5. PICK g : g = [i \in 0 .. (m + 1) |-> IF i = m + 1 THEN b ELSE f[i]]
      OBVIOUS
    <3>6. g \in [0 .. (m + 1) -> S]
      BY <3>1, <3>5
    <3>7. /\ g[m + 1] = b /\ \A i \in 0 .. m : g[i] = f[i]
      BY <3>1, <3>5
    <3>8. g[0] = a
      BY <3>1, <3>2, <3>7
    <3>9. ASSUME NEW i \in 1 .. (m + 1) PROVE g[i] = F[<<g[i - 1], i>>]
      <4>1. CASE i = m + 1
        <5>1. i - 1 = m /\ m \in 0 .. m
          BY <3>1, <4>1
        <5>2. g[i - 1] = f[m]
          BY <3>7, <5>1
        <5> QED
          BY <3>4, <3>7, <4>1, <5>2
      <4>2. CASE i # m + 1
        <5>1. i \in 1 .. m /\ i \in 0 .. m /\ i - 1 \in 0 .. m
          BY <3>1, <4>2
        <5>2. f[i] = F[<<f[i - 1], i>>]
          BY <3>2, <5>1
        <5>3. g[i] = f[i] /\ g[i - 1] = f[i - 1]
          BY <3>7, <5>1
        <5> QED
          BY <5>2, <5>3
      <4> QED
        BY <4>1, <4>2
    <3>10. Good(m + 1, g)
      BY <3>8, <3>9
    <3> QED
      BY <3>1, <3>6, <3>10
  <2> QED
    BY <2>1, <2>2
<1>3. T \in SUBSET Nat
  OBVIOUS
<1> HIDE DEF T
<1>4. T = Nat
  BY <1>1, <1>2, <1>3, InductionOnSet
<1>5. \E f \in [0 .. n -> S] : Good(n, f)
  BY <1>4 DEF T
<1> QED
  BY <1>5 DEF Solves

\* What is loaded after each character, as the code computes it step by step.
LoadState == [done : Seq(Seq(Chars)), cur : Seq(Chars)]

\* One character of the file.
LEMMA LoadStepType ==
    ASSUME NEW p \in LoadState, NEW c \in Chars \cup {NL}
    PROVE  LoadStep(p, c) \in LoadState
<1>1. p.done \in Seq(Seq(Chars)) /\ p.cur \in Seq(Chars) /\ <<>> \in Seq(Chars)
  BY DEF LoadState
<1>2. [done |-> Append(p.done, p.cur), cur |-> <<>>] \in LoadState
  <2>1. Append(p.done, p.cur) \in Seq(Seq(Chars))
    BY <1>1, AppendProperties
  <2> QED
    BY <1>1, <2>1 DEF LoadState
<1>3. ASSUME c # NL PROVE [p EXCEPT !.cur = Append(@, c)] \in LoadState
  <2>1. Append(p.cur, c) \in Seq(Chars)
    BY <1>1, <1>3, AppendProperties
  <2> QED
    BY <2>1 DEF LoadState
<1> QED
  BY <1>2, <1>3 DEF LoadStep

\* The states of the loop of buffer_load(), one for each character.
LEMMA LoadStatesIs ==
    ASSUME NEW raw \in Seq(Chars \cup {NL})
    PROVE  /\ LoadStates(raw) \in [0 .. Len(raw) -> LoadState]
           /\ LoadStates(raw)[0] = [done |-> <<>>, cur |-> <<>>]
           /\ \A i \in 1 .. Len(raw) :
                 LoadStates(raw)[i] = LoadStep(LoadStates(raw)[i - 1], raw[i])
<1> DEFINE Body(f) == [i \in 0 .. Len(raw) |->
               IF i = 0 THEN [done |-> <<>>, cur |-> <<>>] ELSE LoadStep(f[i - 1], raw[i])]
<1>1. PICK n \in Nat : n = Len(raw)
  OBVIOUS
<1>2. PICK a \in LoadState : a = [done |-> <<>>, cur |-> <<>>]
  <2>1. <<>> \in Seq(Chars) /\ <<>> \in Seq(Seq(Chars))
    BY EmptySeq
  <2> QED
    BY <2>1 DEF LoadState
<1>3. PICK F : F = [x \in LoadState \X (1 .. n) |-> LoadStep(x[1], raw[x[2]])]
  OBVIOUS
<1>4. F \in [LoadState \X (1 .. n) -> LoadState]
  <2>1. ASSUME NEW x \in LoadState \X (1 .. n) PROVE LoadStep(x[1], raw[x[2]]) \in LoadState
    <3>1. x[1] \in LoadState /\ raw[x[2]] \in Chars \cup {NL}
      BY <1>1
    <3> QED
      BY <3>1, LoadStepType
  <2> QED
    BY <1>3, <2>1
<1>a. PICK f : Solves(f, n, LoadState, a, F)
  BY <1>4, RecursionExists, Zenon
<1>5. f \in [0 .. n -> LoadState] /\ f[0] = a /\ \A i \in 1 .. n : f[i] = F[<<f[i - 1], i>>]
  BY <1>a DEF Solves
<1>6. \A i \in 1 .. n : f[i] = LoadStep(f[i - 1], raw[i])
  <2>1. ASSUME NEW i \in 1 .. n PROVE f[i] = LoadStep(f[i - 1], raw[i])
    <3>1. i - 1 \in 0 .. n
      OBVIOUS
    <3>2. <<f[i - 1], i>> \in LoadState \X (1 .. n)
      BY <1>5, <3>1
    <3> QED
      BY <1>3, <1>5, <3>2
  <2> QED
    BY <2>1
<1>7. f = Body(f)
  <2>1. \A i \in 0 .. n : f[i] = IF i = 0 THEN a ELSE LoadStep(f[i - 1], raw[i])
    BY <1>5, <1>6
  <2> QED
    BY <1>1, <1>2, <1>5, <2>1
<1> HIDE DEF Body
<1>8. LoadStates(raw) = CHOOSE g : g = Body(g)
  BY DEF LoadStates, Body
<1>9. PICK h : h = LoadStates(raw)
  OBVIOUS
<1>10. h = Body(h)
  BY <1>7, <1>8, <1>9
<1>11. /\ h[0] = a /\ \A i \in 1 .. n : h[i] = LoadStep(h[i - 1], raw[i])
       /\ h = [i \in 0 .. n |-> h[i]]
  BY <1>1, <1>2, <1>10 DEF Body
<1> DEFINE T == {m \in Nat : m <= n => h[m] \in LoadState}
<1>12. 0 \in T
  BY <1>2, <1>11
<1>13. ASSUME NEW m \in T PROVE m + 1 \in T
  <2> SUFFICES ASSUME m + 1 <= n PROVE h[m + 1] \in LoadState
    OBVIOUS
  <2>1. m + 1 \in 1 .. n /\ (m + 1) - 1 = m /\ m <= n
    OBVIOUS
  <2>2. h[m] \in LoadState /\ raw[m + 1] \in Chars \cup {NL}
    BY <1>1, <2>1
  <2>3. h[m + 1] = LoadStep(h[m], raw[m + 1])
    BY <1>11, <2>1
  <2> QED
    BY <2>2, <2>3, LoadStepType
<1>14. T \in SUBSET Nat
  OBVIOUS
<1> HIDE DEF T
<1>15. T = Nat
  BY <1>12, <1>13, <1>14, InductionOnSet
<1>16. h \in [0 .. n -> LoadState]
  BY <1>11, <1>15 DEF T
<1> QED
  BY <1>1, <1>2, <1>9, <1>11, <1>16

\* The grid: at least one line, and no line or number of lines beyond the arrays.
InGrid(ls) ==
    /\ ls \in Seq(Seq(Chars)) /\ Len(ls) \in 1 .. MaxLines
    /\ \A i \in 1 .. Len(ls) : Len(ls[i]) <= MaxLineLen

\* What buffer_load() has written so far is inside the grid.
Fitting(p) ==
    /\ p \in LoadState /\ Len(p.done) <= MaxLines /\ Len(p.cur) <= MaxLineLen
    /\ \A i \in 1 .. Len(p.done) : Len(p.done[i]) <= MaxLineLen
    /\ Len(p.done) = MaxLines => p.cur = <<>>

\* The lines read so far stay inside the buffer.
LEMMA LoadStepFits ==
    ASSUME NEW p, Fitting(p), NEW c \in Chars \cup {NL}
    PROVE  Fitting(LoadStep(p, c))
<1>1. /\ p \in LoadState /\ p.done \in Seq(Seq(Chars)) /\ p.cur \in Seq(Chars)
      /\ <<>> \in Seq(Chars) /\ Len(<<>>) = 0
  <2>1. p \in LoadState
    BY DEF Fitting
  <2> QED
    BY <2>1, EmptySeq DEF LoadState
<1>2. Len(p.done) <= MaxLines /\ Len(p.cur) <= MaxLineLen
  BY DEF Fitting
<1>3. MaxLines \in Nat /\ MaxLineLen \in Nat /\ Len(p.done) \in Nat /\ Len(p.cur) \in Nat
  BY <1>1, NanoAssumption
<1>4. LoadStep(p, c) \in LoadState
  BY <1>1, LoadStepType
<1>5. CASE Len(p.done) >= MaxLines
  BY <1>5 DEF LoadStep
<1>6. CASE ~(Len(p.done) >= MaxLines) /\ c = NL
  <2>1. PICK d : d = Append(p.done, p.cur)
    OBVIOUS
  <2>2. /\ d \in Seq(Seq(Chars)) /\ Len(d) = Len(p.done) + 1 /\ d[Len(p.done) + 1] = p.cur
        /\ \A i \in 1 .. Len(p.done) : d[i] = p.done[i]
    BY <1>1, <2>1, AppendProperties
  <2>3. LoadStep(p, c).done = d /\ LoadStep(p, c).cur = <<>>
    BY <1>6, <2>1 DEF LoadStep
  <2>4. Len(d) <= MaxLines
    BY <1>3, <1>6, <2>2
  <2>5. ASSUME NEW i \in 1 .. Len(d) PROVE Len(d[i]) <= MaxLineLen
    <3>1. i \in 1 .. Len(p.done) \/ i = Len(p.done) + 1
      BY <1>3, <2>2
    <3> QED
      BY <1>2, <2>2, <3>1 DEF Fitting
  <2> QED
    BY <1>1, <1>3, <1>4, <2>3, <2>4, <2>5 DEF Fitting
<1>7. CASE ~(Len(p.done) >= MaxLines) /\ c # NL /\ Len(p.cur) < MaxLineLen
  <2>1. PICK e : e = Append(p.cur, c)
    OBVIOUS
  <2>2. e \in Seq(Chars) /\ Len(e) = Len(p.cur) + 1
    BY <1>1, <1>7, <2>1, AppendProperties
  <2>3. LoadStep(p, c).done = p.done /\ LoadStep(p, c).cur = e
    BY <1>1, <1>7, <2>1 DEF LoadStep, LoadState
  <2>4. Len(e) <= MaxLineLen /\ Len(p.done) # MaxLines
    BY <1>3, <1>7, <2>2
  <2> QED
    BY <1>2, <1>4, <2>3, <2>4 DEF Fitting
<1>8. CASE ~(Len(p.done) >= MaxLines) /\ c # NL /\ ~(Len(p.cur) < MaxLineLen)
  BY <1>8 DEF LoadStep
<1> QED
  BY <1>5, <1>6, <1>7, <1>8

\* Whatever a file holds, the editor has it inside its grid.
LEMMA LoadedFits ==
    ASSUME NEW raw \in Seq(Chars \cup {NL})
    PROVE  InGrid(Loaded(raw))
<1>1. PICK n \in Nat : n = Len(raw)
  OBVIOUS
<1>2. PICK h : h = LoadStates(raw)
  OBVIOUS
<1>3. /\ h[0] = [done |-> <<>>, cur |-> <<>>]
      /\ \A i \in 1 .. n : h[i] = LoadStep(h[i - 1], raw[i])
  BY <1>1, <1>2, LoadStatesIs
<1> DEFINE T == {m \in Nat : m <= n => Fitting(h[m])}
<1>4. 0 \in T
  <2>1. h[0] \in LoadState
    BY <1>1, <1>2, LoadStatesIs
  <2>2. h[0].done = <<>> /\ h[0].cur = <<>> /\ Len(<<>>) = 0
    BY <1>3
  <2>3. MaxLines \in Nat /\ MaxLineLen \in Nat /\ 0 # MaxLines
    BY NanoAssumption
  <2>4. Fitting(h[0])
    BY <2>1, <2>2, <2>3 DEF Fitting
  <2> QED
    BY <2>4
<1>5. ASSUME NEW m \in T PROVE m + 1 \in T
  <2> SUFFICES ASSUME m + 1 <= n PROVE Fitting(h[m + 1])
    OBVIOUS
  <2>1. m + 1 \in 1 .. n /\ (m + 1) - 1 = m /\ m <= n
    OBVIOUS
  <2>2. Fitting(h[m]) /\ raw[m + 1] \in Chars \cup {NL}
    BY <1>1, <2>1
  <2>3. h[m + 1] = LoadStep(h[m], raw[m + 1])
    BY <1>3, <2>1
  <2> QED
    BY <2>2, <2>3, LoadStepFits
<1>6. T \in SUBSET Nat
  OBVIOUS
<1> HIDE DEF T
<1>7. T = Nat
  BY <1>4, <1>5, <1>6, InductionOnSet
<1>8. PICK p : p = h[n] /\ Fitting(p)
  BY <1>7 DEF T
<1>9. Loaded(raw) = IF p.cur # <<>> \/ p.done = <<>> THEN Append(p.done, p.cur) ELSE p.done
  BY <1>1, <1>2, <1>8 DEF Loaded
<1>10. /\ p.done \in Seq(Seq(Chars)) /\ p.cur \in Seq(Chars) /\ Len(p.done) \in Nat
       /\ Len(p.done) <= MaxLines /\ Len(p.cur) <= MaxLineLen
       /\ \A i \in 1 .. Len(p.done) : Len(p.done[i]) <= MaxLineLen
       /\ Len(p.done) = MaxLines => p.cur = <<>>
  BY <1>8 DEF Fitting, LoadState
<1>11. MaxLines \in Nat /\ MaxLines # 0
  BY NanoAssumption
<1>12. CASE p.cur # <<>> \/ p.done = <<>>
  <2>1. PICK d : d = Append(p.done, p.cur)
    OBVIOUS
  <2>2. /\ d \in Seq(Seq(Chars)) /\ Len(d) = Len(p.done) + 1 /\ d[Len(p.done) + 1] = p.cur
        /\ \A i \in 1 .. Len(p.done) : d[i] = p.done[i]
    BY <1>10, <2>1, AppendProperties
  <2>3. Len(p.done) # MaxLines
    <3>1. p.done = <<>> => Len(p.done) = 0
      OBVIOUS
    <3> QED
      BY <1>10, <1>11, <1>12, <3>1
  <2>4. Len(d) \in 1 .. MaxLines
    BY <1>10, <1>11, <2>2, <2>3
  <2>5. ASSUME NEW i \in 1 .. Len(d) PROVE Len(d[i]) <= MaxLineLen
    <3>1. i \in 1 .. Len(p.done) \/ i = Len(p.done) + 1
      BY <1>10, <2>2
    <3> QED
      BY <1>10, <2>2, <3>1
  <2> QED
    BY <1>9, <1>12, <2>1, <2>2, <2>4, <2>5 DEF InGrid
<1>13. CASE ~(p.cur # <<>> \/ p.done = <<>>)
  <2>1. Len(p.done) \in Nat \ {0}
    BY <1>10, <1>13, EmptySeq
  <2>2. Len(p.done) \in 1 .. MaxLines
    BY <1>10, <1>11, <2>1
  <2> QED
    BY <1>9, <1>10, <1>13, <2>2 DEF InGrid
<1> QED
  BY <1>12, <1>13
-----------------------------------------------------------------------------
(* buffer_save().                                                          *)

SaveState == [raw : Seq(Chars \cup {NL}), full : BOOLEAN]

\* One line of the buffer.
LEMMA SaveStepType ==
    ASSUME NEW p \in SaveState, NEW line \in Seq(Chars)
    PROVE  SaveStep(p, line) \in SaveState
<1>1. p.raw \in Seq(Chars \cup {NL}) /\ line \in Seq(Chars \cup {NL})
      /\ <<NL>> \in Seq(Chars \cup {NL})
  <2>1. line \in Seq(Chars \cup {NL})
    BY SeqMonotonic
  <2> QED
    BY <2>1 DEF SaveState
<1>2. PICK w \in Seq(Chars \cup {NL}) : w = p.raw \o line \o <<NL>>
  BY <1>1, ConcatProperties
<1>3. [p EXCEPT !.raw = w] \in SaveState /\ [p EXCEPT !.full = TRUE] \in SaveState
  BY DEF SaveState
<1> QED
  BY <1>2, <1>3 DEF SaveStep

\* The states of the loop of buffer_save(), one for each line.
LEMMA SaveStatesIs ==
    ASSUME NEW ls \in Seq(Seq(Chars))
    PROVE  /\ SaveStates(ls) \in [0 .. Len(ls) -> SaveState]
           /\ SaveStates(ls)[0] = [raw |-> <<>>, full |-> FALSE]
           /\ \A k \in 1 .. Len(ls) :
                 SaveStates(ls)[k] = SaveStep(SaveStates(ls)[k - 1], ls[k])
<1> DEFINE Body(f) == [k \in 0 .. Len(ls) |->
               IF k = 0 THEN [raw |-> <<>>, full |-> FALSE] ELSE SaveStep(f[k - 1], ls[k])]
<1>1. PICK n \in Nat : n = Len(ls)
  OBVIOUS
<1>2. PICK a \in SaveState : a = [raw |-> <<>>, full |-> FALSE]
  <2>1. <<>> \in Seq(Chars \cup {NL})
    BY EmptySeq
  <2> QED
    BY <2>1 DEF SaveState
<1>3. PICK F : F = [x \in SaveState \X (1 .. n) |-> SaveStep(x[1], ls[x[2]])]
  OBVIOUS
<1>4. F \in [SaveState \X (1 .. n) -> SaveState]
  <2>1. ASSUME NEW x \in SaveState \X (1 .. n) PROVE SaveStep(x[1], ls[x[2]]) \in SaveState
    <3>1. x[1] \in SaveState /\ ls[x[2]] \in Seq(Chars)
      BY <1>1
    <3> QED
      BY <3>1, SaveStepType
  <2> QED
    BY <1>3, <2>1
<1>5. PICK f : Solves(f, n, SaveState, a, F)
  BY <1>4, RecursionExists, Zenon
<1>6. f \in [0 .. n -> SaveState] /\ f[0] = a /\ \A k \in 1 .. n : f[k] = F[<<f[k - 1], k>>]
  BY <1>5 DEF Solves
<1>7. ASSUME NEW k \in 1 .. n PROVE f[k] = SaveStep(f[k - 1], ls[k])
  <2>1. k - 1 \in 0 .. n
    OBVIOUS
  <2>2. <<f[k - 1], k>> \in SaveState \X (1 .. n)
    BY <1>6, <2>1
  <2> QED
    BY <1>3, <1>6, <2>2
<1>8. f = Body(f)
  <2>1. \A k \in 0 .. n : f[k] = IF k = 0 THEN a ELSE SaveStep(f[k - 1], ls[k])
    BY <1>6, <1>7
  <2> QED
    BY <1>1, <1>2, <1>6, <2>1
<1> HIDE DEF Body
<1>9. PICK h : h = SaveStates(ls)
  OBVIOUS
<1>10. h = CHOOSE g : g = Body(g)
  BY <1>9 DEF SaveStates, Body
<1>11. h = Body(h)
  BY <1>8, <1>10
<1>12. /\ h[0] = a /\ \A k \in 1 .. n : h[k] = SaveStep(h[k - 1], ls[k])
       /\ h = [k \in 0 .. n |-> h[k]]
  <2>1. h = [k \in 0 .. n |-> IF k = 0 THEN a ELSE SaveStep(h[k - 1], ls[k])]
    BY <1>1, <1>2, <1>11, Zenon DEF Body
  <2>2. h[0] = a
    <3>1. 0 \in 0 .. n
      OBVIOUS
    <3> QED
      BY <2>1, <3>1
  <2>3. ASSUME NEW k \in 1 .. n PROVE h[k] = SaveStep(h[k - 1], ls[k])
    <3>1. k \in 0 .. n /\ k # 0
      OBVIOUS
    <3> QED
      BY <2>1, <3>1
  <2>4. h = [k \in 0 .. n |-> h[k]]
    BY <2>1
  <2> QED
    BY <2>2, <2>3, <2>4
<1> DEFINE T == {m \in Nat : m <= n => h[m] \in SaveState}
<1>13. 0 \in T
  BY <1>2, <1>12
<1>14. ASSUME NEW m \in T PROVE m + 1 \in T
  <2> SUFFICES ASSUME m + 1 <= n PROVE h[m + 1] \in SaveState
    OBVIOUS
  <2>1. m + 1 \in 1 .. n /\ (m + 1) - 1 = m /\ m <= n
    OBVIOUS
  <2>2. h[m] \in SaveState /\ ls[m + 1] \in Seq(Chars)
    BY <1>1, <2>1
  <2>3. h[m + 1] = SaveStep(h[m], ls[m + 1])
    BY <1>12, <2>1
  <2> QED
    BY <2>2, <2>3, SaveStepType
<1>15. T \in SUBSET Nat
  OBVIOUS
<1> HIDE DEF T
<1>16. T = Nat
  BY <1>13, <1>14, <1>15, InductionOnSet
<1>17. h \in [0 .. n -> SaveState]
  <2>1. \A k \in 0 .. n : h[k] \in SaveState
    BY <1>16 DEF T
  <2> QED
    BY <1>12, <2>1
<1> QED
  BY <1>1, <1>2, <1>9, <1>12, <1>17

\* Multiplication.
LEMMA Times ==
    ASSUME NEW k \in Nat, NEW m \in Nat, NEW w \in Nat
    PROVE  /\ (k + 1) * w = k * w + w /\ 0 * w = 0 /\ k * w \in Nat
           /\ k <= m => k * w <= m * w
<1>1. ASSUME k <= m PROVE k * w <= m * w
  <2>1. PICK d \in Nat : m = k + d
    <3>1. m - k \in Nat /\ m = k + (m - k)
      BY <1>1
    <3> QED
      BY <3>1
  <2>2. m * w = k * w + d * w /\ d * w >= 0
    BY <2>1
  <2> QED
    BY <2>2
<1> QED
  BY <1>1

\* The text of the first k lines is r[k].
Text(r, ls) ==
    /\ r \in [0 .. Len(ls) -> Seq(Chars \cup {NL})] /\ r[0] = <<>>
    /\ \A k \in 1 .. Len(ls) : r[k] = (r[k - 1] \o ls[k]) \o <<NL>>

\* A buffer inside the grid fits into the largest file: buffer_save() writes every line.
LEMMA SavesAll ==
    ASSUME NEW ls, InGrid(ls)
    PROVE  \E r : Text(r, ls) /\ r[Len(ls)] = Serialized(ls)
<1>1. /\ ls \in Seq(Seq(Chars)) /\ Len(ls) \in 1 .. MaxLines /\ Len(ls) \in Nat
      /\ \A k \in 1 .. Len(ls) : ls[k] \in Seq(Chars) /\ Len(ls[k]) <= MaxLineLen
  BY DEF InGrid
<1>2. PICK n \in Nat : n = Len(ls) /\ n <= MaxLines
  BY <1>1, NanoAssumption
<1>3. PICK h : h = SaveStates(ls)
  OBVIOUS
<1>4. /\ h \in [0 .. n -> SaveState] /\ h[0] = [raw |-> <<>>, full |-> FALSE]
      /\ \A k \in 1 .. n : h[k] = SaveStep(h[k - 1], ls[k])
  BY <1>1, <1>2, <1>3, SaveStatesIs
<1>5. PICK w \in Nat : w = MaxLineLen + 1 /\ MaxLines * w <= MaxFileSize
  BY NanoAssumption
<1>6. ASSUME NEW k \in 1 .. n, h[k - 1].full = FALSE, Len(h[k - 1].raw) <= (k - 1) * w
      PROVE  /\ h[k].full = FALSE /\ Len(h[k].raw) <= k * w
             /\ h[k].raw = (h[k - 1].raw \o ls[k]) \o <<NL>>
  <2>1. PICK j \in Nat : j = k - 1 /\ k = j + 1 /\ j \in 0 .. n
    OBVIOUS
  <2>2. PICK p \in SaveState : p = h[j]
    BY <1>4, <2>1
  <2>3. PICK line \in Seq(Chars) : line = ls[k] /\ Len(line) <= MaxLineLen
    BY <1>1, <1>2
  <2>4. /\ p.raw \in Seq(Chars \cup {NL}) /\ line \in Seq(Chars \cup {NL})
        /\ Len(p.raw) \in Nat /\ Len(line) \in Nat
        /\ <<NL>> \in Seq(Chars \cup {NL}) /\ Len(<<NL>>) = 1
    <3>1. line \in Seq(Chars \cup {NL})
      BY SeqMonotonic
    <3> QED
      BY <3>1 DEF SaveState
  <2>5. k * w = j * w + w /\ k * w <= MaxLines * w /\ j * w \in Nat /\ MaxLines * w \in Nat
    <3>1. k \in Nat /\ MaxLines \in Nat /\ k <= MaxLines
      BY <1>2, NanoAssumption
    <3>2. k * w <= MaxLines * w /\ MaxLines * w \in Nat
      BY <3>1, Times
    <3>3. (j + 1) * w = j * w + w /\ j * w \in Nat
      BY Times
    <3> QED
      BY <2>1, <3>2, <3>3
  <2>6. Len(p.raw) <= j * w
    BY <1>6, <2>1, <2>2
  <2>7. MaxFileSize \in Nat /\ MaxLineLen \in Nat
    BY NanoAssumption
  <2>8. Len(p.raw) + Len(line) + 1 <= k * w
    <3>1. PICK x \in Nat, y \in Nat : x = j * w /\ y = k * w
      BY <2>5
    <3>2. y = x + MaxLineLen + 1 /\ Len(p.raw) <= x
      BY <1>5, <2>5, <2>6, <2>7, <3>1
    <3>3. Len(p.raw) + Len(line) + 1 <= y
      <4>1. PICK b \in Nat, c \in Nat : b = Len(p.raw) /\ c = Len(line)
        BY <2>4
      <4>2. b <= x /\ c <= MaxLineLen
        BY <2>3, <3>2, <4>1
      <4>3. b + c + 1 <= y
        BY <2>7, <3>2, <4>2
      <4> QED
        BY <4>1, <4>3
    <3> QED
      BY <3>1, <3>3
  <2>9. ~(Len(p.raw) + Len(line) + 1 > MaxFileSize)
    <3>1. PICK x \in Nat, y \in Nat : x = MaxLines * w /\ y = k * w
      BY <2>5
    <3> QED
      BY <1>5, <2>4, <2>5, <2>7, <2>8, <3>1
  <2>10. PICK v \in Seq(Chars \cup {NL}) :
             v = (p.raw \o line) \o <<NL>> /\ Len(v) = Len(p.raw) + Len(line) + 1
    <3>1. PICK u \in Seq(Chars \cup {NL}) : u = p.raw \o line /\ Len(u) = Len(p.raw) + Len(line)
      BY <2>4, ConcatProperties
    <3>2. u \o <<NL>> \in Seq(Chars \cup {NL}) /\ Len(u \o <<NL>>) = Len(u) + 1
      BY <2>4, <3>1, ConcatProperties
    <3> QED
      BY <3>1, <3>2
  <2>11. h[k] = [p EXCEPT !.raw = v]
    <3>1. p.full = FALSE
      BY <1>6, <2>1, <2>2
    <3>2. h[k] = SaveStep(p, line)
      BY <1>4, <2>1, <2>2, <2>3
    <3> QED
      BY <2>9, <2>10, <3>1, <3>2 DEF SaveStep
  <2>12. h[k].raw = v /\ h[k].full = p.full
    BY <2>10, <2>11 DEF SaveState
  <2> QED
    BY <1>6, <2>1, <2>2, <2>3, <2>8, <2>10, <2>12
<1> DEFINE Ok(m) == h[m].full = FALSE /\ Len(h[m].raw) <= m * w
           T == {m \in Nat : m <= n => Ok(m)}
<1>7. 0 \in T
  <2>1. h[0].full = FALSE /\ h[0].raw = <<>> /\ 0 * w = 0 /\ Len(<<>>) = 0
    BY <1>4, Times
  <2>2. Ok(0)
    BY <2>1
  <2> HIDE DEF Ok
  <2> QED
    BY <2>2
<1>8. ASSUME NEW m \in T PROVE m + 1 \in T
  <2> HIDE DEF Ok
  <2> SUFFICES ASSUME m + 1 <= n PROVE Ok(m + 1)
    OBVIOUS
  <2>1. m + 1 \in 1 .. n /\ (m + 1) - 1 = m /\ m <= n
    OBVIOUS
  <2>2. Ok(m)
    BY <2>1
  <2>3. PICK k \in 1 .. n : k = m + 1 /\ k - 1 = m
    BY <2>1
  <2>4. h[k - 1].full = FALSE /\ Len(h[k - 1].raw) <= (k - 1) * w
    BY <2>2, <2>3 DEF Ok
  <2> QED
    BY <1>6, <2>3, <2>4 DEF Ok
<1>9. T \in SUBSET Nat
  OBVIOUS
<1> HIDE DEF T
<1>10. T = Nat
  BY <1>7, <1>8, <1>9, InductionOnSet
<1>11. PICK r : r = [k \in 0 .. n |-> h[k].raw]
  OBVIOUS
<1>12. r \in [0 .. n -> Seq(Chars \cup {NL})] /\ r[0] = <<>>
  BY <1>4, <1>11 DEF SaveState
<1>13. ASSUME NEW k \in 1 .. n PROVE r[k] = (r[k - 1] \o ls[k]) \o <<NL>>
  <2>1. k - 1 \in Nat /\ k - 1 <= n /\ k - 1 \in 0 .. n /\ k \in 0 .. n
    OBVIOUS
  <2>2. h[k - 1].full = FALSE /\ Len(h[k - 1].raw) <= (k - 1) * w
    BY <1>10, <2>1 DEF T
  <2>3. h[k].raw = (h[k - 1].raw \o ls[k]) \o <<NL>>
    BY <1>6, <2>2
  <2> QED
    BY <1>11, <2>1, <2>3
<1>14. r[n] = Serialized(ls)
  BY <1>2, <1>3, <1>11 DEF Serialized
<1>15. Text(r, ls)
  BY <1>2, <1>12, <1>13 DEF Text
<1> QED
  BY <1>2, <1>14, <1>15
-----------------------------------------------------------------------------
(* What buffer_save() writes is what buffer_load() reads back.             *)

\* The finished lines and the current one when all of raw has been read.
AfterAll(raw) == LoadStates(raw)[Len(raw)]

\* The state after the last character.
LEMMA AfterAllType ==
    ASSUME NEW raw \in Seq(Chars \cup {NL})
    PROVE  AfterAll(raw) \in LoadState
<1>1. Len(raw) \in 0 .. Len(raw)
  OBVIOUS
<1> QED
  BY <1>1, LoadStatesIs DEF AfterAll

\* One more character is one more step.
LEMMA OneMore ==
    ASSUME NEW raw \in Seq(Chars \cup {NL}), NEW c \in Chars \cup {NL}
    PROVE  AfterAll(raw \o <<c>>) = LoadStep(AfterAll(raw), c)
<1>1. PICK n \in Nat : n = Len(raw)
  OBVIOUS
<1>2. PICK e \in Seq(Chars \cup {NL}) : e = raw \o <<c>>
  <2>1. <<c>> \in Seq(Chars \cup {NL})
    OBVIOUS
  <2> QED
    BY <2>1, ConcatProperties
<1>3. Len(e) = n + 1 /\ e[n + 1] = c /\ \A i \in 1 .. n : e[i] = raw[i]
  <2>1. <<c>> \in Seq(Chars \cup {NL}) /\ Len(<<c>>) = 1 /\ <<c>>[1] = c
    OBVIOUS
  <2>2. /\ Len(e) = n + 1
        /\ \A i \in 1 .. (n + 1) : e[i] = IF i <= n THEN raw[i] ELSE <<c>>[i - n]
    BY <1>1, <1>2, <2>1, ConcatProperties
  <2>3. (n + 1) \in 1 .. (n + 1) /\ ~(n + 1 <= n) /\ (n + 1) - n = 1
    OBVIOUS
  <2>4. e[n + 1] = <<c>>[1]
    BY <2>2, <2>3
  <2> QED
    BY <2>1, <2>2, <2>4
<1>4. PICK h, g : h = LoadStates(raw) /\ g = LoadStates(e)
  OBVIOUS
<1>5. /\ h[0] = [done |-> <<>>, cur |-> <<>>]
      /\ \A i \in 1 .. n : h[i] = LoadStep(h[i - 1], raw[i])
  BY <1>1, <1>4, LoadStatesIs
<1>6. /\ g[0] = [done |-> <<>>, cur |-> <<>>]
      /\ \A i \in 1 .. (n + 1) : g[i] = LoadStep(g[i - 1], e[i])
  BY <1>3, <1>4, LoadStatesIs
<1> DEFINE T == {m \in Nat : m <= n => g[m] = h[m]}
<1>7. 0 \in T
  BY <1>5, <1>6
<1>8. ASSUME NEW m \in T PROVE m + 1 \in T
  <2> SUFFICES ASSUME m + 1 <= n PROVE g[m + 1] = h[m + 1]
    OBVIOUS
  <2>1. m + 1 \in 1 .. n /\ m + 1 \in 1 .. (n + 1) /\ (m + 1) - 1 = m /\ m <= n
    OBVIOUS
  <2>2. g[m + 1] = LoadStep(g[m], e[m + 1]) /\ h[m + 1] = LoadStep(h[m], raw[m + 1])
    BY <1>5, <1>6, <2>1
  <2> QED
    BY <1>3, <2>1, <2>2
<1>9. T \in SUBSET Nat
  OBVIOUS
<1> HIDE DEF T
<1>10. T = Nat
  BY <1>7, <1>8, <1>9, InductionOnSet
<1>11. g[n] = h[n]
  BY <1>10 DEF T
<1>12. g[n + 1] = LoadStep(g[n], c)
  <2>1. (n + 1) \in 1 .. (n + 1) /\ (n + 1) - 1 = n
    OBVIOUS
  <2> QED
    BY <1>3, <1>6, <2>1
<1>13. AfterAll(raw) = h[n]
  BY <1>1, <1>4 DEF AfterAll
<1>14. AfterAll(e) = g[n + 1]
  BY <1>3, <1>4 DEF AfterAll
<1> QED
  BY <1>2, <1>11, <1>12, <1>13, <1>14

\* The lines of d are finished and the current one holds cur.
HasRead(raw, d, cur) ==
    AfterAll(raw).done = d /\ AfterAll(raw).cur = cur

\* A line that fits is read character by character, up to its newline.
LEMMA ReadsLine ==
    ASSUME NEW raw \in Seq(Chars \cup {NL}), NEW d \in Seq(Seq(Chars)), Len(d) < MaxLines,
           NEW line \in Seq(Chars), Len(line) <= MaxLineLen, HasRead(raw, d, <<>>)
    PROVE  HasRead((raw \o line) \o <<NL>>, Append(d, line), <<>>)
<1>1. PICK n \in Nat : n = Len(line) /\ n <= MaxLineLen
  OBVIOUS
<1>2. ~(Len(d) >= MaxLines) /\ MaxLineLen \in Nat /\ line \in Seq(Chars \cup {NL})
  <2>1. MaxLines \in Nat /\ MaxLineLen \in Nat /\ Len(d) \in Nat
    BY NanoAssumption
  <2> QED
    BY <2>1, SeqMonotonic
<1> DEFINE Ok(j) == HasRead(raw \o SubSeq(line, 1, j), d, SubSeq(line, 1, j))
           T == {j \in Nat : j <= n => Ok(j)}
<1>3. 0 \in T
  <2>1. SubSeq(line, 1, 0) = <<>>
    <3>1. 0 \in Nat /\ 0 <= Len(line)
      OBVIOUS
    <3>2. SubSeq(line, 1, 0) \in Seq(Chars) /\ Len(SubSeq(line, 1, 0)) = 0
      BY <3>1, PrefixIs
    <3> QED
      BY <3>2, EmptySeq
  <2>2. raw \o <<>> = raw
    BY ConcatEmptySeq
  <2>3. Ok(0)
    BY <2>1, <2>2
  <2> HIDE DEF Ok
  <2> QED
    BY <2>3
<1>4. ASSUME NEW j \in T PROVE j + 1 \in T
  <2> HIDE DEF Ok
  <2> SUFFICES ASSUME j + 1 <= n PROVE Ok(j + 1)
    OBVIOUS
  <2>1. j \in Nat /\ j <= n /\ j < MaxLineLen /\ j + 1 \in 1 .. n
    BY <1>1, <1>2
  <2>2. Ok(j)
    BY <2>1
  <2>3. PICK a \in Seq(Chars) : a = SubSeq(line, 1, j) /\ Len(a) = j
    BY <1>1, <2>1, PrefixIs
  <2>4. PICK c \in Chars : c = line[j + 1]
    BY <1>1, <2>1
  <2>5. SubSeq(line, 1, j + 1) = Append(a, c)
    BY <1>1, <2>1, <2>3, <2>4, PrefixAppend
  <2>6. Append(a, c) = a \o <<c>>
    BY AppendIsConcat
  <2>7. a \in Seq(Chars \cup {NL}) /\ <<c>> \in Seq(Chars \cup {NL})
    BY SeqMonotonic
  <2>8. raw \o (a \o <<c>>) = (raw \o a) \o <<c>>
    BY <2>7, ConcatAssociative
  <2>9. PICK u \in Seq(Chars \cup {NL}) : u = raw \o a
    BY <2>7, ConcatProperties
  <2>10. AfterAll(u).done = d /\ AfterAll(u).cur = a
    BY <2>2, <2>3, <2>9 DEF Ok, HasRead
  <2>11. AfterAll(u \o <<c>>) = LoadStep(AfterAll(u), c)
    BY OneMore
  <2>12. AfterAll(u \o <<c>>).done = d /\ AfterAll(u \o <<c>>).cur = Append(a, c)
    <3>1. c # NL
      BY NanoAssumption
    <3>2. PICK q \in LoadState : q = AfterAll(u)
      BY AfterAllType
    <3>3. LoadStep(q, c) = [q EXCEPT !.cur = Append(q.cur, c)]
      BY <1>2, <2>1, <2>3, <2>10, <3>1, <3>2 DEF LoadStep
    <3>4. LoadStep(q, c).done = q.done /\ LoadStep(q, c).cur = Append(q.cur, c)
      BY <3>3 DEF LoadState
    <3> QED
      BY <2>10, <2>11, <3>2, <3>4
  <2>13. raw \o SubSeq(line, 1, j + 1) = u \o <<c>>
    BY <2>5, <2>6, <2>8, <2>9
  <2> QED
    BY <2>5, <2>12, <2>13 DEF Ok, HasRead
<1>5. T \in SUBSET Nat
  OBVIOUS
<1> HIDE DEF T
<1>6. T = Nat
  BY <1>3, <1>4, <1>5, InductionOnSet
<1>7. Ok(n)
  BY <1>6 DEF T
<1>8. SubSeq(line, 1, n) = line
  <2>1. /\ SubSeq(line, 1, n) \in Seq(Chars) /\ Len(SubSeq(line, 1, n)) = n
        /\ \A a \in 1 .. n : SubSeq(line, 1, n)[a] = line[a]
    BY <1>1, PrefixIs
  <2> QED
    BY <1>1, <2>1, SeqEqual
<1>9. PICK u \in Seq(Chars \cup {NL}) : u = raw \o line
  BY <1>2, ConcatProperties
<1>10. AfterAll(u).done = d /\ AfterAll(u).cur = line
  BY <1>7, <1>8, <1>9 DEF HasRead
<1>11. AfterAll(u \o <<NL>>) = LoadStep(AfterAll(u), NL)
  BY OneMore
<1>12. AfterAll(u \o <<NL>>) = [done |-> Append(d, line), cur |-> <<>>]
  BY <1>2, <1>10, <1>11 DEF LoadStep
<1>13. PICK v : v = AfterAll(u \o <<NL>>) /\ v.done = Append(d, line) /\ v.cur = <<>>
  BY <1>12
<1> QED
  BY <1>9, <1>13, Zenon DEF HasRead

\* The editor reads back the lines it saved, whatever they are.
LEMMA ReadsBack ==
    ASSUME NEW ls, InGrid(ls)
    PROVE  Loaded(Serialized(ls)) = ls /\ Serialized(ls) \in Seq(Chars \cup {NL})
<1>1. /\ ls \in Seq(Seq(Chars)) /\ Len(ls) \in 1 .. MaxLines
      /\ \A k \in 1 .. Len(ls) : ls[k] \in Seq(Chars) /\ Len(ls[k]) <= MaxLineLen
  BY DEF InGrid
<1>2. PICK n \in Nat : n = Len(ls) /\ n <= MaxLines /\ n >= 1
  BY <1>1, NanoAssumption
<1>3. PICK r : Text(r, ls) /\ r[Len(ls)] = Serialized(ls)
  BY SavesAll
<1>4. /\ r \in [0 .. n -> Seq(Chars \cup {NL})] /\ r[0] = <<>> /\ r[n] = Serialized(ls)
      /\ \A k \in 1 .. n : r[k] = (r[k - 1] \o ls[k]) \o <<NL>>
  BY <1>2, <1>3 DEF Text
<1> DEFINE Ok(k) == HasRead(r[k], SubSeq(ls, 1, k), <<>>)
           T == {k \in Nat : k <= n => Ok(k)}
<1>5. 0 \in T
  <2>1. SubSeq(ls, 1, 0) = <<>>
    <3>1. 0 \in Nat /\ 0 <= Len(ls)
      BY <1>2
    <3>2. SubSeq(ls, 1, 0) \in Seq(Seq(Chars)) /\ Len(SubSeq(ls, 1, 0)) = 0
      BY <1>1, <3>1, PrefixIs
    <3> QED
      BY <3>2, EmptySeq
  <2>2. <<>> \in Seq(Chars \cup {NL}) /\ Len(<<>>) = 0
    BY EmptySeq
  <2>3. AfterAll(<<>>) = [done |-> <<>>, cur |-> <<>>]
    BY <2>2, LoadStatesIs DEF AfterAll
  <2>4. Ok(0)
    BY <1>4, <2>1, <2>3 DEF HasRead
  <2> HIDE DEF Ok
  <2> QED
    BY <2>4
<1>6. ASSUME NEW k \in T PROVE k + 1 \in T
  <2> HIDE DEF Ok
  <2> SUFFICES ASSUME k + 1 <= n PROVE Ok(k + 1)
    OBVIOUS
  <2>1. k \in Nat /\ k <= n /\ k \in 0 .. n /\ k + 1 \in 1 .. n /\ (k + 1) - 1 = k /\ k < MaxLines
    <3>1. MaxLines \in Nat
      BY NanoAssumption
    <3> QED
      BY <1>2, <3>1
  <2>2. Ok(k)
    BY <2>1
  <2>3. PICK d \in Seq(Seq(Chars)) : d = SubSeq(ls, 1, k) /\ Len(d) = k
    BY <1>1, <1>2, <2>1, PrefixIs
  <2>4. PICK line \in Seq(Chars) : line = ls[k + 1] /\ Len(line) <= MaxLineLen
    BY <1>1, <1>2, <2>1
  <2>5. PICK raw \in Seq(Chars \cup {NL}) : raw = r[k]
    BY <1>4, <2>1
  <2>6. HasRead(raw, d, <<>>)
    BY <2>2, <2>3, <2>5 DEF Ok
  <2>7. Len(d) < MaxLines
    BY <2>1, <2>3
  <2>8. HasRead((raw \o line) \o <<NL>>, Append(d, line), <<>>)
    BY <2>4, <2>6, <2>7, ReadsLine
  <2>9. r[k + 1] = (raw \o line) \o <<NL>>
    BY <1>4, <2>1, <2>4, <2>5
  <2>10. SubSeq(ls, 1, k + 1) = Append(d, line)
    BY <1>1, <1>2, <2>1, <2>3, <2>4, PrefixAppend
  <2> QED
    BY <2>8, <2>9, <2>10 DEF Ok
<1>7. T \in SUBSET Nat
  OBVIOUS
<1> HIDE DEF T
<1>8. T = Nat
  BY <1>5, <1>6, <1>7, InductionOnSet
<1>9. HasRead(r[n], SubSeq(ls, 1, n), <<>>)
  BY <1>8 DEF T
<1>10. SubSeq(ls, 1, n) = ls
  <2>1. /\ SubSeq(ls, 1, n) \in Seq(Seq(Chars)) /\ Len(SubSeq(ls, 1, n)) = n
        /\ \A a \in 1 .. n : SubSeq(ls, 1, n)[a] = ls[a]
    BY <1>1, <1>2, PrefixIs
  <2> QED
    BY <1>1, <1>2, <2>1, SeqEqual
<1>11. AfterAll(r[n]).done = ls /\ AfterAll(r[n]).cur = <<>>
  BY <1>9, <1>10 DEF HasRead
<1>12. ls # <<>>
  BY <1>1, <1>2
<1>13. Loaded(r[n]) = ls
  BY <1>11, <1>12 DEF Loaded, AfterAll
<1> QED
  BY <1>4, <1>13
-----------------------------------------------------------------------------
(* The parts of a line and of the buffer.                                  *)

\* The first k elements.
LEMMA TakeIs ==
    ASSUME NEW S, NEW s \in Seq(S), NEW k \in Nat, k <= Len(s)
    PROVE  /\ Take(s, k) \in Seq(S) /\ Len(Take(s, k)) = k
           /\ \A a \in 1 .. k : Take(s, k)[a] = s[a]
<1> QED
  BY PrefixIs DEF Take

\* All but the first k.
LEMMA DropIs ==
    ASSUME NEW S, NEW s \in Seq(S), NEW k \in Nat, k <= Len(s)
    PROVE  /\ Drop(s, k) \in Seq(S) /\ Len(Drop(s, k)) = Len(s) - k
           /\ \A a \in 1 .. (Len(s) - k) : Drop(s, k)[a] = s[k + a]
<1>1. PICK d \in Nat : d = Len(s) - k /\ k + d = Len(s)
  <2>1. Len(s) - k \in Nat /\ k + (Len(s) - k) = Len(s)
    OBVIOUS
  <2> QED
    BY <2>1
<1>2. k + d <= Len(s)
  BY <1>1
<1>3. /\ SubSeq(s, k + 1, k + d) \in Seq(S) /\ Len(SubSeq(s, k + 1, k + d)) = d
      /\ \A a \in 1 .. d : SubSeq(s, k + 1, k + d)[a] = s[k + a]
  BY <1>2, StretchIs
<1> QED
  BY <1>1, <1>3 DEF Drop

\* A line is replaced by another one that fits.
Replaced(ls, i, text) == [ls EXCEPT ![i] = text]
\* One line is replaced.
LEMMA ReplacedFits ==
    ASSUME NEW ls, InGrid(ls), NEW i \in 1 .. Len(ls), NEW text \in Seq(Chars),
           Len(text) <= MaxLineLen
    PROVE  /\ InGrid(Replaced(ls, i, text)) /\ Len(Replaced(ls, i, text)) = Len(ls)
           /\ Replaced(ls, i, text)[i] = text
<1>1. PICK n \in Nat : n = Len(ls) /\ n \in 1 .. MaxLines
  BY DEF InGrid
<1>2. ls \in [1 .. n -> Seq(Chars)] /\ \A k \in 1 .. n : Len(ls[k]) <= MaxLineLen
  BY <1>1 DEF InGrid
<1>3. PICK new \in [1 .. n -> Seq(Chars)] :
          /\ new = [ls EXCEPT ![i] = text] /\ new[i] = text
          /\ \A k \in 1 .. n : k # i => new[k] = ls[k]
  <2>1. /\ [ls EXCEPT ![i] = text] \in [1 .. n -> Seq(Chars)]
        /\ [ls EXCEPT ![i] = text][i] = text
        /\ \A k \in 1 .. n : k # i => [ls EXCEPT ![i] = text][k] = ls[k]
    BY <1>1, <1>2
  <2> QED
    BY <2>1, Zenon
<1>4. new \in Seq(Seq(Chars)) /\ Len(new) = n
  OBVIOUS
<1>5. \A k \in 1 .. n : Len(new[k]) <= MaxLineLen
  BY <1>2, <1>3
<1>6. InGrid(new)
  BY <1>1, <1>4, <1>5 DEF InGrid
<1> QED
  BY <1>1, <1>3, <1>4, <1>6, Zenon DEF Replaced

\* The lines k + 1 to m are replaced by those of mid.
Spliced(ls, k, mid, m) == (Take(ls, k) \o mid) \o Drop(ls, m)
Fits(ls) == ls \in Seq(Seq(Chars)) /\ \A i \in 1 .. Len(ls) : Len(ls[i]) <= MaxLineLen

\* Lines after lines.
LEMMA JoinedFits ==
    ASSUME NEW s, NEW t, Fits(s), Fits(t)
    PROVE  Fits(s \o t) /\ Len(s \o t) = Len(s) + Len(t)
<1>1. s \in Seq(Seq(Chars)) /\ t \in Seq(Seq(Chars))
  BY DEF Fits
<1>2. PICK m \in Nat, n \in Nat : m = Len(s) /\ n = Len(t)
  BY <1>1
<1>3. PICK u \in Seq(Seq(Chars)) :
          /\ u = s \o t /\ Len(u) = m + n /\ \A i \in 1 .. m : u[i] = s[i]
          /\ \A i \in 1 .. n : u[m + i] = t[i]
  <2>1. /\ s \o t \in Seq(Seq(Chars)) /\ Len(s \o t) = Len(s) + Len(t)
        /\ \A i \in 1 .. Len(s) : (s \o t)[i] = s[i]
        /\ \A i \in 1 .. Len(t) : (s \o t)[Len(s) + i] = t[i]
    BY <1>1, JoinedIs
  <2> QED
    BY <1>2, <2>1, Zenon
<1>4. ASSUME NEW i \in 1 .. (m + n) PROVE Len(u[i]) <= MaxLineLen
  <2>1. CASE i \in 1 .. m
    BY <1>2, <1>3, <2>1 DEF Fits
  <2>2. CASE i \notin 1 .. m
    <3>1. PICK j \in 1 .. n : i = m + j
      <4>1. i - m \in 1 .. n /\ i = m + (i - m)
        BY <2>2
      <4> QED
        BY <4>1
    <3> QED
      BY <1>2, <1>3, <3>1 DEF Fits
  <2> QED
    BY <2>1, <2>2
<1>5. Fits(u)
  BY <1>3, <1>4 DEF Fits
<1> QED
  BY <1>2, <1>3, <1>5

\* The first lines.
LEMMA TakeFits ==
    ASSUME NEW ls, Fits(ls), NEW k \in Nat, k <= Len(ls)
    PROVE  Fits(Take(ls, k)) /\ Len(Take(ls, k)) = k
<1>1. ls \in Seq(Seq(Chars)) /\ Len(ls) \in Nat
  BY DEF Fits
<1>2. PICK a \in Seq(Seq(Chars)) :
          a = Take(ls, k) /\ Len(a) = k /\ \A i \in 1 .. k : a[i] = ls[i]
  BY <1>1, TakeIs
<1>3. ASSUME NEW i \in 1 .. k PROVE Len(a[i]) <= MaxLineLen
  <2>1. i \in 1 .. Len(ls)
    BY <1>1
  <2> QED
    BY <1>2, <2>1 DEF Fits
<1> QED
  BY <1>2, <1>3 DEF Fits

\* The last lines.
LEMMA DropFits ==
    ASSUME NEW ls, Fits(ls), NEW k \in Nat, k <= Len(ls)
    PROVE  Fits(Drop(ls, k)) /\ Len(Drop(ls, k)) = Len(ls) - k
<1>1. ls \in Seq(Seq(Chars)) /\ Len(ls) \in Nat
  BY DEF Fits
<1>2. PICK a \in Seq(Seq(Chars)) :
          a = Drop(ls, k) /\ Len(a) = Len(ls) - k /\ \A i \in 1 .. (Len(ls) - k) : a[i] = ls[k + i]
  <2>1. /\ Drop(ls, k) \in Seq(Seq(Chars)) /\ Len(Drop(ls, k)) = Len(ls) - k
        /\ \A i \in 1 .. (Len(ls) - k) : Drop(ls, k)[i] = ls[k + i]
    BY <1>1, DropIs
  <2> QED
    BY <2>1
<1>3. ASSUME NEW i \in 1 .. (Len(ls) - k) PROVE Len(a[i]) <= MaxLineLen
  <2>1. k + i \in 1 .. Len(ls)
    BY <1>1
  <2> QED
    BY <1>2, <2>1 DEF Fits
<1> QED
  BY <1>2, <1>3 DEF Fits

\* Some lines are replaced by others.
LEMMA SplicedFits ==
    ASSUME NEW ls, InGrid(ls), NEW k \in Nat, NEW m \in Nat, k <= Len(ls), m <= Len(ls),
           NEW mid, Fits(mid), k + Len(mid) + (Len(ls) - m) \in 1 .. MaxLines
    PROVE  /\ InGrid(Spliced(ls, k, mid, m))
           /\ Len(Spliced(ls, k, mid, m)) = k + Len(mid) + (Len(ls) - m)
           /\ \A i \in 1 .. Len(mid) : Spliced(ls, k, mid, m)[k + i] = mid[i]
<1>1. Fits(ls) /\ ls \in Seq(Seq(Chars)) /\ mid \in Seq(Seq(Chars))
  BY DEF InGrid, Fits
<1>2. PICK a : a = Take(ls, k) /\ Fits(a) /\ Len(a) = k
  BY <1>1, TakeFits
<1>3. PICK z : z = Drop(ls, m) /\ Fits(z) /\ Len(z) = Len(ls) - m
  BY <1>1, DropFits
<1>4. PICK y : y = a \o mid /\ Fits(y) /\ Len(y) = k + Len(mid)
  BY <1>2, JoinedFits
<1>5. PICK new : new = y \o z /\ Fits(new) /\ Len(new) = Len(y) + Len(z)
  BY <1>3, <1>4, JoinedFits
<1>6. new = Spliced(ls, k, mid, m)
  BY <1>2, <1>3, <1>4, <1>5 DEF Spliced
<1>7. Len(new) = k + Len(mid) + (Len(ls) - m)
  BY <1>3, <1>4, <1>5
<1>8. InGrid(new)
  BY <1>5, <1>7 DEF InGrid, Fits
<1>9. PICK b \in Nat : b = Len(mid)
  BY <1>1
<1>10. ASSUME NEW i \in 1 .. b PROVE new[k + i] = mid[i]
  <2>1. y[k + i] = mid[i]
    <3>1. a \in Seq(Seq(Chars))
      BY <1>2 DEF Fits
    <3>2. \A j \in 1 .. Len(mid) : y[Len(a) + j] = mid[j]
      BY <1>1, <1>4, <3>1, JoinedIs
    <3> QED
      BY <1>2, <1>9, <3>2
  <2>2. new[k + i] = y[k + i]
    <3>1. y \in Seq(Seq(Chars)) /\ z \in Seq(Seq(Chars))
      BY <1>3, <1>4 DEF Fits
    <3>2. \A j \in 1 .. Len(y) : new[j] = y[j]
      BY <1>5, <3>1, JoinedIs
    <3>3. k + i \in 1 .. (k + b)
      OBVIOUS
    <3> QED
      BY <1>4, <1>9, <3>2, <3>3
  <2> QED
    BY <2>1, <2>2
<1> QED
  BY <1>6, <1>7, <1>8, <1>9, <1>10
-----------------------------------------------------------------------------
(* The invariant of the editor.                                            *)

\* A cursor on line l, column c of the buffer ls is inside it.
Within(ls, l, c) == InGrid(ls) /\ l < Len(ls) /\ c <= Len(ls[l + 1])

\* What the invariant says of the editor while it is open.
LEMMA EditorState ==
    ASSUME NanoInv, active
    PROVE  /\ Within(lines, cursor_line, cursor_col)
           /\ lines \in Seq(Seq(Chars)) /\ Len(lines) \in 1 .. MaxLines
           /\ cursor_line \in Nat /\ cursor_col \in Nat /\ view_top \in Nat
           /\ \A i \in Nat : i < Len(lines) =>
                 /\ Line(i) \in Seq(Chars) /\ Len(Line(i)) \in Nat
                 /\ Len(Line(i)) <= MaxLineLen /\ Line(i) = lines[i + 1]
           /\ Current = Line(cursor_line) /\ cursor_col <= Len(Current)
           /\ cursor_line < Len(lines)
<1>1. NanoTypeOK /\ CursorInside
  BY DEF NanoInv
<1>2. lines \in Seq(Seq(Chars)) /\ cursor_line \in Nat /\ cursor_col \in Nat /\ view_top \in Nat
  BY <1>1 DEF NanoTypeOK
<1>3. /\ Len(lines) \in 1 .. MaxLines /\ \A i \in 1 .. Len(lines) : Len(lines[i]) <= MaxLineLen
      /\ cursor_line < Len(lines) /\ cursor_col <= Len(Current)
  BY <1>1 DEF CursorInside
<1>4. ASSUME NEW i \in Nat, i < Len(lines)
      PROVE  /\ Line(i) \in Seq(Chars) /\ Len(Line(i)) \in Nat
             /\ Len(Line(i)) <= MaxLineLen /\ Line(i) = lines[i + 1]
  <2>1. i + 1 \in 1 .. Len(lines)
    BY <1>2, <1>4
  <2> QED
    BY <1>2, <1>3, <2>1 DEF Line
<1>5. Current = Line(cursor_line) /\ Current = lines[cursor_line + 1]
  BY DEF Current, Line
<1>6. Within(lines, cursor_line, cursor_col)
  BY <1>2, <1>3, <1>5 DEF Within, InGrid
<1> QED
  BY <1>2, <1>3, <1>4, <1>5, <1>6

\* redraw() scrolls the window to the cursor.
LEMMA Scrolls ==
    ASSUME NanoInv, NEW l \in Nat, view_top' = ScrollTo(l)
    PROVE  view_top' \in Nat /\ view_top' <= l /\ l < view_top' + VisibleRows
<1>1. view_top \in Nat /\ VisibleRows \in Nat /\ VisibleRows # 0
  BY NanoAssumption DEF NanoInv, NanoTypeOK
<1> QED
  BY <1>1 DEF ScrollTo

\* An edit leaves the buffer in the grid and the cursor inside it.
LEMMA EditKeeps ==
    ASSUME NanoInv, active, NEW new, NEW l \in Nat, NEW c \in Nat,
           Edit(new), MoveTo(l, c), Within(new, l, c)
    PROVE  NanoInv'
<1>1. /\ lines' = new /\ cursor_line' = l /\ cursor_col' = c /\ dirty' = TRUE
      /\ active' = active /\ name' = name /\ lost' = lost /\ prompt_active' = prompt_active
      /\ prompt_length' = prompt_length /\ prompt_cursor' = prompt_cursor
      /\ view_top' = ScrollTo(l) /\ disk' = IF disk = Absent THEN Absent ELSE Some
  BY DEF Edit, MoveTo, prompt
<1>2. view_top' \in Nat /\ view_top' <= l /\ l < view_top' + VisibleRows
  BY <1>1, Scrolls
<1>3. new \in Seq(Seq(Chars)) /\ Len(new) \in 1 .. MaxLines
      /\ \A i \in 1 .. Len(new) : Len(new[i]) <= MaxLineLen
  BY DEF Within, InGrid
<1>4. NanoTypeOK'
  BY <1>1, <1>2, <1>3 DEF NanoInv, NanoTypeOK
<1>5. CursorInside'
  <2>1. prompt_cursor <= prompt_length
    BY DEF NanoInv, CursorInside
  <2> QED
    BY <1>1, <1>2, <1>3, <2>1 DEF Within, CursorInside, Current, Line
<1>6. CleanIsOnDisk'
  BY <1>1 DEF CleanIsOnDisk
<1> QED
  BY <1>4, <1>5, <1>6 DEF NanoInv

\* So does a cursor key.
LEMMA MoveKeeps ==
    ASSUME NanoInv, active, NEW l \in Nat, NEW c \in Nat,
           Moves(l, c), Within(lines, l, c)
    PROVE  NanoInv'
<1>1. /\ lines' = lines /\ cursor_line' = l /\ cursor_col' = c /\ dirty' = dirty
      /\ active' = active /\ name' = name /\ lost' = lost /\ prompt_active' = prompt_active
      /\ prompt_length' = prompt_length /\ prompt_cursor' = prompt_cursor
      /\ view_top' = ScrollTo(l) /\ disk' = disk
  BY DEF Moves, MoveTo, prompt
<1>2. view_top' \in Nat /\ view_top' <= l /\ l < view_top' + VisibleRows
  BY <1>1, Scrolls
<1>3. NanoTypeOK'
  BY <1>1, <1>2 DEF NanoInv, NanoTypeOK
<1>4. CursorInside'
  <2>1. /\ Len(lines) \in 1 .. MaxLines /\ \A i \in 1 .. Len(lines) : Len(lines[i]) <= MaxLineLen
        /\ prompt_cursor <= prompt_length
    BY DEF NanoInv, CursorInside
  <2> QED
    BY <1>1, <1>2, <2>1 DEF Within, CursorInside, Current, Line
<1>5. CleanIsOnDisk'
  BY <1>1 DEF NanoInv, CleanIsOnDisk
<1> QED
  BY <1>3, <1>4, <1>5 DEF NanoInv

\* The current line is replaced by one that fits.
LEMMA LineEditKeeps ==
    ASSUME NanoInv, active, NEW text \in Seq(Chars), Len(text) <= MaxLineLen,
           NEW c \in Nat, c <= Len(text), Edit(ReplaceLine(text)), MoveTo(cursor_line, c)
    PROVE  NanoInv'
<1>1. PICK l \in Nat : l = cursor_line
  BY EditorState
<1>2. PICK ls : ls = lines /\ InGrid(ls) /\ l < Len(ls) /\ Len(ls) \in Nat
  BY <1>1, EditorState DEF Within
<1>3. l + 1 \in 1 .. Len(ls)
  BY <1>2
<1>4. PICK new : new = [ls EXCEPT ![l + 1] = text]
  OBVIOUS
<1>5. InGrid(new) /\ Len(new) = Len(ls) /\ new[l + 1] = text
  <2>1. PICK i \in 1 .. Len(ls) : i = l + 1
    BY <1>3
  <2>2. /\ InGrid(Replaced(ls, i, text)) /\ Len(Replaced(ls, i, text)) = Len(ls)
        /\ Replaced(ls, i, text)[i] = text
    BY <1>2, ReplacedFits
  <2> QED
    BY <1>4, <2>1, <2>2, Zenon DEF Replaced
<1>6. Within(new, l, c)
  BY <1>2, <1>5 DEF Within
<1>7. Edit(new)
  BY <1>1, <1>2, <1>4 DEF ReplaceLine
<1>8. MoveTo(l, c)
  BY <1>1
<1> QED
  BY <1>6, <1>7, <1>8, EditKeeps

\* Two parts of a line joined.
LEMMA LinesJoined ==
    ASSUME NEW s \in Seq(Chars), NEW t \in Seq(Chars)
    PROVE  s \o t \in Seq(Chars) /\ Len(s \o t) = Len(s) + Len(t)
<1> QED
  BY JoinedIs

\* A character is typed.
LEMMA CharacterKeeps ==
    ASSUME NanoInv, NEW c \in Chars, nano_keyboard_character(c)
    PROVE  NanoInv'
<1>1. active /\ Len(Current) < MaxLineLen /\ MaxLineLen \in Nat
  BY NanoAssumption DEF nano_keyboard_character, Editing
<1>2. PICK s \in Seq(Chars), k \in Nat : s = Current /\ k = cursor_col /\ k <= Len(s)
  BY <1>1, EditorState
<1>3. PICK a \in Seq(Chars) : a = Take(s, k) /\ Len(a) = k
  BY <1>2, TakeIs
<1>4. PICK b \in Seq(Chars) : b = Drop(s, k) /\ Len(b) = Len(s) - k
  BY <1>2, DropIs
<1>5. <<c>> \in Seq(Chars) /\ Len(<<c>>) = 1
  OBVIOUS
<1>6. PICK d \in Seq(Chars) : d = a \o <<c>> /\ Len(d) = k + 1
  <2>1. a \o <<c>> \in Seq(Chars) /\ Len(a \o <<c>>) = Len(a) + Len(<<c>>)
    BY <1>5, LinesJoined
  <2> QED
    BY <1>3, <1>5, <2>1
<1>7. PICK text \in Seq(Chars) : text = d \o b /\ Len(text) = Len(s) + 1
  <2>1. d \o b \in Seq(Chars) /\ Len(d \o b) = Len(d) + Len(b)
    BY LinesJoined
  <2>2. Len(d) + Len(b) = Len(s) + 1
    <3>1. PICK n \in Nat : n = Len(s)
      OBVIOUS
    <3>2. Len(d) = k + 1 /\ Len(b) = n - k
      BY <1>4, <1>6, <3>1, Zenon
    <3> QED
      BY <3>1, <3>2
  <2> QED
    BY <2>1, <2>2
<1>8. Edit(ReplaceLine(text)) /\ MoveTo(cursor_line, k + 1)
  BY <1>2, <1>3, <1>4, <1>6, <1>7 DEF nano_keyboard_character
<1>9. k + 1 \in Nat /\ k + 1 <= Len(text) /\ Len(text) <= MaxLineLen
  BY <1>1, <1>2, <1>7
<1> QED
  BY <1>1, <1>8, <1>9, LineEditKeeps

\* A character is taken out of the line.
LEMMA CutKeeps ==
    ASSUME NanoInv, active, NEW s \in Seq(Chars), s = Current, NEW k \in Nat, k < Len(s),
           NEW c \in Nat, c <= k, Edit(ReplaceLine(Take(s, k) \o Drop(s, k + 1))),
           MoveTo(cursor_line, c)
    PROVE  NanoInv'
<1>1. Len(s) <= MaxLineLen /\ MaxLineLen \in Nat /\ Len(s) \in Nat
  BY EditorState, NanoAssumption
<1>2. k + 1 \in Nat /\ k + 1 <= Len(s) /\ k <= Len(s)
  BY <1>1
<1>3. PICK a \in Seq(Chars) : a = Take(s, k) /\ Len(a) = k
  BY <1>2, TakeIs
<1>4. PICK b \in Seq(Chars) : b = Drop(s, k + 1) /\ Len(b) = Len(s) - (k + 1)
  BY <1>2, DropIs
<1>5. PICK text \in Seq(Chars) : text = a \o b /\ Len(text) = Len(s) - 1
  <2>1. a \o b \in Seq(Chars) /\ Len(a \o b) = Len(a) + Len(b)
    BY LinesJoined
  <2>2. Len(a) + Len(b) = Len(s) - 1
    BY <1>1, <1>3, <1>4
  <2> QED
    BY <2>1, <2>2
<1>6. Edit(ReplaceLine(text))
  BY <1>3, <1>4, <1>5
<1>7. c <= Len(text) /\ Len(text) <= MaxLineLen
  BY <1>1, <1>2, <1>5
<1> QED
  BY <1>6, <1>7, LineEditKeeps

\* Backspace inside a line.
LEMMA BackspaceInLineKeeps ==
    ASSUME NanoInv, BackspaceInLine
    PROVE  NanoInv'
<1>1. active
  BY DEF BackspaceInLine, Editing
<1>2. PICK s \in Seq(Chars), n \in Nat : s = Current /\ n = cursor_col /\ n <= Len(s) /\ n > 0
  BY <1>1, EditorState DEF BackspaceInLine
<1>3. PICK k \in Nat : k = n - 1 /\ n = k + 1 /\ k < Len(s) /\ k <= k
  <2>1. n - 1 \in Nat /\ n = (n - 1) + 1 /\ n - 1 < Len(s)
    BY <1>2
  <2> QED
    BY <2>1
<1>4. Edit(ReplaceLine(Take(s, k) \o Drop(s, k + 1))) /\ MoveTo(cursor_line, k)
  BY <1>2, <1>3 DEF BackspaceInLine
<1> QED
  BY <1>1, <1>2, <1>3, <1>4, CutKeeps

\* Delete inside a line.
LEMMA DeleteInLineKeeps ==
    ASSUME NanoInv, DeleteInLine
    PROVE  NanoInv'
<1>1. active
  BY DEF DeleteInLine, Editing
<1>2. PICK s \in Seq(Chars), k \in Nat : s = Current /\ k = cursor_col /\ k < Len(s) /\ k <= k
  BY <1>1, EditorState DEF DeleteInLine
<1>3. Edit(ReplaceLine(Take(s, k) \o Drop(s, k + 1))) /\ MoveTo(cursor_line, k)
  BY <1>2 DEF DeleteInLine
<1> QED
  BY <1>1, <1>2, <1>3, CutKeeps

\* Enter.
LEMMA EnterSplitsKeeps ==
    ASSUME NanoInv, EnterSplits
    PROVE  NanoInv'
<1>1. active /\ Len(lines) < MaxLines /\ MaxLines \in Nat /\ MaxLineLen \in Nat
  BY NanoAssumption DEF EnterSplits, Editing
<1>a. PICK ls : ls = lines
  OBVIOUS
<1>b. PICK s : s = Current
  OBVIOUS
<1>c. PICK l : l = cursor_line
  OBVIOUS
<1>d. PICK k : k = cursor_col
  OBVIOUS
<1>2. /\ l \in Nat /\ s \in Seq(Chars) /\ k \in Nat
      /\ InGrid(ls) /\ l < Len(ls) /\ Len(ls) \in Nat /\ Len(ls) < MaxLines
      /\ k <= Len(s) /\ Len(s) <= MaxLineLen
  <2>1. /\ InGrid(lines) /\ cursor_line < Len(lines) /\ cursor_line \in Nat
        /\ cursor_col \in Nat /\ cursor_col <= Len(Current) /\ lines \in Seq(Seq(Chars))
    BY <1>1, EditorState DEF Within
  <2>2. Current \in Seq(Chars) /\ Len(Current) <= MaxLineLen /\ Len(lines) \in Nat
    BY <1>1, <2>1, EditorState
  <2> QED
    BY <1>1, <1>a, <1>b, <1>c, <1>d, <2>1, <2>2
<1>3. PICK a \in Seq(Chars) : a = Take(s, k) /\ Len(a) = k
  BY <1>2, TakeIs
<1>4. PICK b \in Seq(Chars) : b = Drop(s, k) /\ Len(b) = Len(s) - k
  BY <1>2, DropIs
<1>5. PICK mid : mid = <<a, b>>
  OBVIOUS
<1>6. mid \in Seq(Seq(Chars)) /\ Len(mid) = 2 /\ mid[1] = a /\ mid[2] = b
  BY <1>5
<1>7. Len(a) <= MaxLineLen /\ Len(b) <= MaxLineLen
  BY <1>1, <1>2, <1>3, <1>4
<1>8. Fits(mid)
  <2>1. ASSUME NEW i \in 1 .. 2 PROVE Len(mid[i]) <= MaxLineLen
    <3>1. i = 1 \/ i = 2
      OBVIOUS
    <3> QED
      BY <1>6, <1>7, <3>1
  <2> QED
    BY <1>6, <2>1 DEF Fits
<1>9. PICK m \in Nat : m = l + 1 /\ m <= Len(ls) /\ l <= Len(ls)
  BY <1>2
<1>10. l + Len(mid) + (Len(ls) - m) = Len(ls) + 1 /\ Len(ls) + 1 \in 1 .. MaxLines
  BY <1>1, <1>2, <1>6, <1>9
<1>11. PICK new : new = Spliced(ls, l, mid, m)
  OBVIOUS
<1>12. InGrid(new) /\ Len(new) = Len(ls) + 1 /\ new[l + 2] = b
  <2>1. l + Len(mid) + (Len(ls) - m) \in 1 .. MaxLines
    BY <1>10
  <2>2. /\ InGrid(Spliced(ls, l, mid, m))
        /\ Len(Spliced(ls, l, mid, m)) = l + Len(mid) + (Len(ls) - m)
        /\ \A i \in 1 .. Len(mid) : Spliced(ls, l, mid, m)[l + i] = mid[i]
    BY <1>2, <1>8, <1>9, <2>1, SplicedFits
  <2>3. 2 \in 1 .. Len(mid)
    BY <1>6
  <2> QED
    BY <1>6, <1>10, <1>11, <2>2, <2>3
<1>13. Within(new, l + 1, 0)
  <2>1. (l + 1) + 1 = l + 2 /\ l + 1 < Len(ls) + 1 /\ 0 <= Len(b)
    BY <1>2
  <2> QED
    BY <1>12, <2>1 DEF Within
<1>14. Edit(new) /\ MoveTo(l + 1, 0)
  BY <1>a, <1>b, <1>c, <1>d, <1>3, <1>4, <1>5, <1>9, <1>11 DEF EnterSplits, Spliced
<1>15. l + 1 \in Nat /\ 0 \in Nat
  BY <1>2
<1> QED
  BY <1>1, <1>13, <1>14, <1>15, EditKeeps

\* Two lines that fit into one are joined, and the cursor is where they meet.
LEMMA MergeKeeps ==
    ASSUME NanoInv, active, NEW l \in Nat, l + 1 < Len(lines),
           Len(Line(l)) + Len(Line(l + 1)) <= MaxLineLen,
           Edit(Merged(l)), MoveTo(l, Len(Line(l)))
    PROVE  NanoInv'
<1>1. PICK ls :
          ls = lines /\ InGrid(ls) /\ Len(ls) \in Nat /\ l + 1 < Len(ls) /\ Len(ls) <= MaxLines
  BY EditorState DEF Within, InGrid
<1>2. PICK s \in Seq(Chars), t \in Seq(Chars) :
          s = Line(l) /\ t = Line(l + 1) /\ Len(s) + Len(t) <= MaxLineLen
  <2>1. l < Len(lines) /\ l + 1 \in Nat
    BY <1>1
  <2> QED
    BY <2>1, EditorState
<1>3. PICK u \in Seq(Chars) : u = s \o t /\ Len(u) = Len(s) + Len(t)
  BY LinesJoined
<1>4. PICK mid : mid = <<u>>
  OBVIOUS
<1>5. mid \in Seq(Seq(Chars)) /\ Len(mid) = 1 /\ mid[1] = u
  BY <1>4
<1>6. Fits(mid)
  <2>1. ASSUME NEW i \in 1 .. 1 PROVE Len(mid[i]) <= MaxLineLen
    <3>1. i = 1
      OBVIOUS
    <3> QED
      BY <1>2, <1>3, <1>5, <3>1
  <2> QED
    BY <1>5, <2>1 DEF Fits
<1>7. PICK m \in Nat : m = l + 2 /\ m <= Len(ls) /\ l <= Len(ls)
  BY <1>1
<1>8. l + Len(mid) + (Len(ls) - m) = Len(ls) - 1 /\ Len(ls) - 1 \in 1 .. MaxLines
  <2>1. MaxLines \in Nat
    BY NanoAssumption
  <2> QED
    BY <1>1, <1>5, <1>7, <2>1
<1>9. PICK new : new = Spliced(ls, l, mid, m)
  OBVIOUS
<1>10. InGrid(new) /\ Len(new) = Len(ls) - 1 /\ new[l + 1] = u
  <2>1. l + Len(mid) + (Len(ls) - m) \in 1 .. MaxLines
    BY <1>8
  <2>2. /\ InGrid(Spliced(ls, l, mid, m))
        /\ Len(Spliced(ls, l, mid, m)) = l + Len(mid) + (Len(ls) - m)
        /\ \A i \in 1 .. Len(mid) : Spliced(ls, l, mid, m)[l + i] = mid[i]
    BY <1>1, <1>6, <1>7, <2>1, SplicedFits
  <2>3. 1 \in 1 .. Len(mid)
    BY <1>5
  <2> QED
    BY <1>5, <1>8, <1>9, <2>2, <2>3
<1>11. PICK c \in Nat : c = Len(s) /\ c <= Len(u)
  BY <1>3
<1>12. Within(new, l, c)
  <2>1. l < Len(ls) - 1
    BY <1>1
  <2> QED
    BY <1>10, <1>11, <2>1 DEF Within
<1>13. Edit(new) /\ MoveTo(l, c)
  BY <1>1, <1>2, <1>3, <1>4, <1>7, <1>9, <1>11 DEF Merged, Spliced
<1> QED
  BY <1>12, <1>13, EditKeeps

\* Backspace at the beginning of a line.
LEMMA BackspaceMergesKeeps ==
    ASSUME NanoInv, BackspaceMerges
    PROVE  NanoInv'
<1>1. active
  BY DEF BackspaceMerges, Editing
<1>2. PICK n \in Nat : n = cursor_line /\ n > 0 /\ n < Len(lines)
  BY <1>1, EditorState DEF BackspaceMerges
<1>3. PICK l \in Nat : l = n - 1 /\ l + 1 = n
  <2>1. n - 1 \in Nat /\ (n - 1) + 1 = n
    BY <1>2
  <2> QED
    BY <2>1
<1>4. l + 1 < Len(lines) /\ Current = Line(l + 1)
  BY <1>2, <1>3 DEF Current
<1>5. /\ Len(Line(l)) + Len(Line(l + 1)) <= MaxLineLen
      /\ Edit(Merged(l)) /\ MoveTo(l, Len(Line(l)))
  BY <1>2, <1>3, <1>4 DEF BackspaceMerges
<1> QED
  BY <1>1, <1>4, <1>5, MergeKeeps

\* Delete at the end of a line.
LEMMA DeleteMergesKeeps ==
    ASSUME NanoInv, DeleteMerges
    PROVE  NanoInv'
<1>1. active
  BY DEF DeleteMerges, Editing
<1>2. PICK l \in Nat : l = cursor_line
  BY <1>1, EditorState
<1>3. l + 1 < Len(lines) /\ Current = Line(l) /\ cursor_col = Len(Line(l))
  <2>1. Current = Line(l)
    BY <1>2 DEF Current
  <2>2. cursor_col <= Len(Current) /\ cursor_col >= Len(Current) /\ cursor_col \in Nat
        /\ Len(Current) \in Nat
    BY <1>1, EditorState DEF DeleteMerges
  <2>3. cursor_col = Len(Current)
    BY <2>2
  <2> QED
    BY <1>2, <2>1, <2>3 DEF DeleteMerges
<1>4. /\ Len(Line(l)) + Len(Line(l + 1)) <= MaxLineLen
      /\ Edit(Merged(l)) /\ MoveTo(l, Len(Line(l)))
  BY <1>2, <1>3 DEF DeleteMerges
<1> QED
  BY <1>1, <1>3, <1>4, MergeKeeps

\* The cursor keys.
LEMMA CursorKeysKeep ==
    ASSUME NanoInv,
           \/ nano_keyboard_left \/ nano_keyboard_right \/ nano_keyboard_up
           \/ nano_keyboard_down \/ nano_keyboard_home \/ nano_keyboard_end
    PROVE  NanoInv'
<1>1. active
  BY DEF nano_keyboard_left, nano_keyboard_right, nano_keyboard_up, nano_keyboard_down,
         nano_keyboard_home, nano_keyboard_end, Editing
<1>2. PICK n \in Nat, k \in Nat, len \in Nat :
          n = cursor_line /\ k = cursor_col /\ len = Len(lines) /\ n < len
  <2>1. cursor_line \in Nat /\ cursor_col \in Nat /\ Len(lines) \in Nat
        /\ cursor_line < Len(lines)
    BY <1>1, EditorState
  <2> QED
    BY <2>1
<1>3. Current = Line(n) /\ Len(Current) \in Nat /\ k <= Len(Current)
  BY <1>1, <1>2, EditorState
<1>4. ASSUME NEW l \in Nat, NEW c \in Nat, l < len, c <= Len(Line(l)), Moves(l, c)
      PROVE  NanoInv'
  <2>1. Within(lines, l, c)
    BY <1>1, <1>2, <1>4, EditorState DEF Within
  <2> QED
    BY <1>1, <1>4, <2>1, MoveKeeps
<1>5. ASSUME nano_keyboard_left PROVE NanoInv'
  <2>1. CASE k > 0 /\ Moves(n, k - 1)
    <3>1. k - 1 \in Nat /\ k - 1 <= Len(Line(n))
      BY <1>3, <2>1
    <3> QED
      BY <1>2, <1>4, <2>1, <3>1
  <2>2. CASE k = 0 /\ n > 0 /\ Moves(n - 1, Len(Line(n - 1)))
    <3>1. n - 1 \in Nat /\ n - 1 < len
      BY <1>2, <2>2
    <3>2. Len(Line(n - 1)) \in Nat /\ Len(Line(n - 1)) <= Len(Line(n - 1))
      BY <1>1, <1>2, <3>1, EditorState
    <3> QED
      BY <1>4, <2>2, <3>1, <3>2
  <2> QED
    BY <1>2, <1>5, <2>1, <2>2 DEF nano_keyboard_left
<1>6. ASSUME nano_keyboard_right PROVE NanoInv'
  <2>1. CASE k < Len(Current) /\ Moves(n, k + 1)
    <3>1. k + 1 \in Nat /\ k + 1 <= Len(Line(n))
      BY <1>3, <2>1
    <3> QED
      BY <1>2, <1>4, <2>1, <3>1
  <2>2. CASE n + 1 < len /\ Moves(n + 1, 0)
    <3>1. n + 1 \in Nat /\ 0 \in Nat
      OBVIOUS
    <3>2. 0 <= Len(Line(n + 1))
      BY <1>1, <1>2, <2>2, <3>1, EditorState
    <3> QED
      BY <1>4, <2>2, <3>1, <3>2
  <2> QED
    BY <1>2, <1>6, <2>1, <2>2 DEF nano_keyboard_right
<1>7. ASSUME nano_keyboard_up PROVE NanoInv'
  <2>1. n > 0 /\ n - 1 \in Nat /\ n - 1 < len
    BY <1>2, <1>7 DEF nano_keyboard_up
  <2>2. PICK c \in Nat : c = Min2(k, Len(Line(n - 1))) /\ c <= Len(Line(n - 1))
    <3>1. Len(Line(n - 1)) \in Nat
      BY <1>1, <1>2, <2>1, EditorState
    <3> QED
      BY <3>1 DEF Min2
  <2>3. Moves(n - 1, c)
    BY <1>2, <1>7, <2>2 DEF nano_keyboard_up
  <2> QED
    BY <1>4, <2>1, <2>2, <2>3
<1>8. ASSUME nano_keyboard_down PROVE NanoInv'
  <2>1. n + 1 \in Nat /\ n + 1 < len
    BY <1>2, <1>8 DEF nano_keyboard_down
  <2>2. PICK c \in Nat : c = Min2(k, Len(Line(n + 1))) /\ c <= Len(Line(n + 1))
    <3>1. Len(Line(n + 1)) \in Nat
      BY <1>1, <1>2, <2>1, EditorState
    <3> QED
      BY <3>1 DEF Min2
  <2>3. Moves(n + 1, c)
    BY <1>2, <1>8, <2>2 DEF nano_keyboard_down
  <2> QED
    BY <1>4, <2>1, <2>2, <2>3
<1>9. ASSUME nano_keyboard_home PROVE NanoInv'
  <2>1. Moves(n, 0) /\ 0 \in Nat /\ 0 <= Len(Line(n))
    BY <1>2, <1>3, <1>9 DEF nano_keyboard_home
  <2> QED
    BY <1>2, <1>4, <2>1
<1>10. ASSUME nano_keyboard_end PROVE NanoInv'
  <2>1. PICK c \in Nat : c = Len(Line(n)) /\ c <= Len(Line(n))
    BY <1>3
  <2>2. Moves(n, c)
    BY <1>2, <1>3, <1>10, <2>1 DEF nano_keyboard_end
  <2> QED
    BY <1>2, <1>4, <2>1, <2>2
<1> QED
  BY <1>5, <1>6, <1>7, <1>8, <1>9, <1>10

\* What does not touch the buffer or the file.
LEMMA PromptKeeps ==
    ASSUME NanoInv, active, UNCHANGED <<lines, cursor, dirty, name, disk, lost>>,
           active' \in BOOLEAN, prompt_active' \in BOOLEAN,
           prompt_length' \in Nat, prompt_cursor' \in Nat, prompt_cursor' <= prompt_length'
    PROVE  NanoInv'
<1>1. /\ lines' = lines /\ dirty' = dirty /\ name' = name /\ disk' = disk /\ lost' = lost
      /\ cursor_line' = cursor_line /\ cursor_col' = cursor_col /\ view_top' = view_top
  BY DEF cursor
<1>2. NanoTypeOK'
  BY <1>1 DEF NanoInv, NanoTypeOK
<1>3. CursorInside'
  <2>1. /\ Len(lines) \in 1 .. MaxLines
        /\ \A i \in 1 .. Len(lines) : Len(lines[i]) <= MaxLineLen
        /\ cursor_line < Len(lines) /\ cursor_col <= Len(lines[cursor_line + 1])
        /\ view_top <= cursor_line /\ cursor_line < view_top + VisibleRows
    BY DEF NanoInv, CursorInside, Current, Line
  <2> QED
    BY <1>1, <2>1 DEF CursorInside, Current, Line
<1>4. CleanIsOnDisk'
  BY <1>1 DEF NanoInv, CleanIsOnDisk
<1> QED
  BY <1>2, <1>3, <1>4 DEF NanoInv

\* Ctrl+O, Ctrl+X and the question they ask.
LEMMA PromptStepsKeep ==
    ASSUME NanoInv, CtrlO \/ CtrlX \/ PromptKeys
    PROVE  NanoInv'
<1>1. active /\ UNCHANGED <<lines, cursor, dirty, name, disk, lost>>
  BY DEF CtrlO, CtrlX, PromptKeys, PromptTo, Editing, Prompting
<1>2. PICK n \in Nat, len \in Nat, cur \in Nat :
          n = name /\ len = prompt_length /\ cur = prompt_cursor /\ cur <= len
  <2>1. name \in Nat /\ prompt_length \in Nat /\ prompt_cursor \in Nat
        /\ prompt_cursor <= prompt_length
    BY <1>1 DEF NanoInv, NanoTypeOK, CursorInside
  <2> QED
    BY <2>1
<1>3. active \in BOOLEAN /\ prompt_active \in BOOLEAN
  BY DEF NanoInv, NanoTypeOK
<1>4. active' \in BOOLEAN /\ prompt_active' \in BOOLEAN
  BY <1>3 DEF CtrlO, CtrlX, PromptKeys, PromptTo
<1>5. prompt_length' \in Nat /\ prompt_cursor' \in Nat /\ prompt_cursor' <= prompt_length'
  <2>1. CASE CtrlO
    BY <1>2, <2>1 DEF CtrlO
  <2>2. CASE CtrlX
    BY <1>2, <2>2 DEF CtrlX
  <2>3. CASE PromptKeys
    <3>1. \/ cur > 0 /\ prompt_length' = len - 1 /\ prompt_cursor' = cur - 1
          \/ cur > 0 /\ prompt_length' = len /\ prompt_cursor' = cur - 1
          \/ cur < len /\ prompt_length' = len /\ prompt_cursor' = cur + 1
          \/ prompt_length' = len /\ prompt_cursor' = 0
          \/ prompt_length' = len /\ prompt_cursor' = len
      BY <1>2, <2>3 DEF PromptKeys, PromptTo
    <3> QED
      BY <1>2, <3>1
  <2> QED
    BY <2>1, <2>2, <2>3
<1> QED
  BY <1>1, <1>4, <1>5, PromptKeeps

\* A save that succeeds leaves the buffer in the file; one that fails leaves dirty set,
\* or is known to have failed.
LEMMA EnterSavesKeeps ==
    ASSUME NanoInv, EnterSaves
    PROVE  NanoInv'
<1>1. /\ active /\ lines' = lines /\ active' = active /\ prompt_active' = FALSE
      /\ prompt_length' = prompt_length /\ prompt_cursor' = prompt_cursor
      /\ cursor_line' = cursor_line /\ cursor_col' = cursor_col /\ view_top' = view_top
  BY DEF EnterSaves, Prompting, cursor
<1>2. PICK old : /\ old \in (IF name' = name THEN {disk} ELSE {Absent, Some})
                 /\ SaveOk \/ SaveFails(old)
  BY DEF EnterSaves
<1>3. PICK ls : ls = lines /\ InGrid(ls)
  BY <1>1, EditorState DEF Within
<1>4. PICK raw \in Seq(Chars \cup {NL}) : raw = Serialized(ls) /\ Loaded(raw) = ls
  BY <1>3, ReadsBack
<1>5. old \in Seq(Chars \cup {NL}) \cup {Absent, Some}
  BY <1>2 DEF NanoInv, NanoTypeOK
<1>6. disk' \in Seq(Chars \cup {NL}) \cup {Absent, Some}
  <2>1. <<>> \in Seq(Chars \cup {NL})
    BY EmptySeq
  <2>2. CASE SaveOk
    BY <1>3, <1>4, <2>2 DEF SaveOk
  <2>3. CASE SaveFails(old)
    BY <1>5, <2>1, <2>3 DEF SaveFails, FailedFile
  <2> QED
    BY <1>2, <2>2, <2>3
<1>7. dirty' \in BOOLEAN /\ lost' \in BOOLEAN
  <2>1. dirty \in BOOLEAN /\ lost \in BOOLEAN
    BY DEF NanoInv, NanoTypeOK
  <2> QED
    BY <1>2, <2>1 DEF SaveOk, SaveFails
<1>8. name' \in Nat
  <2>1. name \in Nat /\ prompt_length \in Nat
    BY DEF NanoInv, NanoTypeOK
  <2>2. name' = IF prompt_length > 0 THEN prompt_length ELSE name
    BY DEF EnterSaves
  <2> QED
    BY <2>1, <2>2
<1>9. NanoTypeOK'
  <2>1. /\ lines \in Seq(Seq(Chars)) /\ cursor_line \in Nat /\ cursor_col \in Nat
        /\ view_top \in Nat /\ prompt_length \in Nat /\ prompt_cursor \in Nat
        /\ active \in BOOLEAN
    BY DEF NanoInv, NanoTypeOK
  <2> QED
    BY <1>1, <1>6, <1>7, <1>8, <2>1 DEF NanoTypeOK
<1>10. CursorInside'
  BY <1>1 DEF NanoInv, CursorInside, Current, Line
<1>11. CleanIsOnDisk'
  <2>1. CASE SaveOk
    <3>1. disk' = raw /\ lines' = ls
      BY <1>1, <1>3, <1>4, <2>1 DEF SaveOk
    <3>2. raw # Some /\ raw # Absent
      BY NanoAssumption
    <3> QED
      BY <1>4, <3>1, <3>2 DEF CleanIsOnDisk, Buffer
  <2>2. CASE SaveFails(old)
    BY <2>2 DEF SaveFails, CleanIsOnDisk
  <2> QED
    BY <1>2, <2>1, <2>2
<1> QED
  BY <1>9, <1>10, <1>11 DEF NanoInv

\* The buffer of a file that does not exist.
LEMMA EmptyBuffer ==
    InGrid(<<<<>>>>) /\ Len(<<<<>>>>) = 1
<1>1. PICK e : e = <<>>
  OBVIOUS
<1>2. e \in Seq(Chars) /\ Len(e) = 0
  BY <1>1, EmptySeq
<1>3. PICK ls : ls = <<e>>
  OBVIOUS
<1>4. ls \in Seq(Seq(Chars)) /\ Len(ls) = 1 /\ ls[1] = e
  BY <1>2, <1>3
<1>5. MaxLines \in Nat /\ MaxLines # 0 /\ MaxLineLen \in Nat
  BY NanoAssumption
<1>6. ASSUME NEW i \in 1 .. 1 PROVE Len(ls[i]) <= MaxLineLen
  <2>1. i = 1
    OBVIOUS
  <2> QED
    BY <1>2, <1>4, <1>5, <2>1
<1>7. InGrid(ls)
  BY <1>4, <1>5, <1>6 DEF InGrid
<1> QED
  BY <1>1, <1>3, <1>4, <1>7

\* The editor opens a file.
LEMMA OpenKeeps ==
    ASSUME NanoInv, NEW file \in Texts \cup {Absent}, NEW raw \in Reads(file), nano_open(file, raw)
    PROVE  NanoInv'
<1>1. PICK ls : ls = Buffer(raw)
  OBVIOUS
<1>2. file = Absent \/ file \in Seq(Chars \cup {NL})
  BY NanoAssumption
<1>3. file # Some
  BY <1>2, NanoAssumption
<1>4. InGrid(ls)
  <2>1. raw = Absent \/ raw \in Seq(Chars \cup {NL})
    <3>1. CASE raw \in {file, Absent}
      BY <1>2, <3>1
    <3>2. ASSUME raw \notin {file, Absent} PROVE raw \in Seq(Chars \cup {NL})
      <4>1. file # Absent /\ \E k \in 0 .. Len(file) : raw = Take(file, k)
        BY <3>2 DEF Reads
      <4>2. PICK k \in 0 .. Len(file) : raw = Take(file, k)
        BY <4>1
      <4>3. PICK S : S = Chars \cup {NL}
        OBVIOUS
      <4>4. file \in Seq(S) /\ k \in Nat /\ k <= Len(file)
        BY <1>2, <4>1, <4>3
      <4> QED
        BY <4>2, <4>3, <4>4, TakeIs
    <3> QED
      BY <3>1, <3>2
  <2> QED
    BY <1>1, <2>1, EmptyBuffer, LoadedFits DEF Buffer
<1>5. /\ ls \in Seq(Seq(Chars)) /\ Len(ls) \in 1 .. MaxLines
      /\ \A i \in 1 .. Len(ls) : Len(ls[i]) <= MaxLineLen
  BY <1>4 DEF InGrid
<1>6. /\ lines' = ls /\ cursor_line' = 0 /\ cursor_col' = 0 /\ view_top' = 0
      /\ dirty' = FALSE /\ active' = TRUE /\ prompt_active' = FALSE /\ prompt_length' = 0
      /\ prompt_cursor' = 0 /\ name' = NameLen /\ disk' = file /\ lost' = (raw # file)
  BY <1>1 DEF nano_open
<1>7. NameLen \in Nat /\ VisibleRows \in Nat /\ VisibleRows # 0 /\ MaxLines \in Nat
  BY NanoAssumption
<1>8. NanoTypeOK'
  BY <1>2, <1>5, <1>6, <1>7 DEF NanoTypeOK
<1>9. CursorInside'
  <2>1. 0 < Len(ls) /\ 0 + 1 = 1 /\ 1 \in 1 .. Len(ls)
    BY <1>5, <1>7
  <2>2. ls[1] \in Seq(Chars) /\ 0 <= Len(ls[1])
    BY <1>5, <2>1
  <2>3. 0 < 0 + VisibleRows /\ 0 <= 0
    BY <1>7
  <2> QED
    BY <1>5, <1>6, <2>1, <2>2, <2>3 DEF CursorInside, Current, Line
<1>10. CleanIsOnDisk'
  BY <1>1, <1>3, <1>6 DEF CleanIsOnDisk
<1> QED
  BY <1>8, <1>9, <1>10 DEF NanoInv

\* The invariant of the editor holds in every reachable state.
THEOREM EditorSound == Spec => []NanoInv
<1>1. Init => NanoInv
  <2> SUFFICES ASSUME Init PROVE NanoInv
    OBVIOUS
  <2>1. <<>> \in Seq(Seq(Chars)) /\ NameLen \in Nat
    BY EmptySeq, NanoAssumption
  <2>2. NanoTypeOK
    BY <2>1 DEF Init, NanoTypeOK
  <2>3. CursorInside /\ CleanIsOnDisk
    BY DEF Init, CursorInside, CleanIsOnDisk
  <2> QED
    BY <2>2, <2>3 DEF NanoInv
<1>2. NanoInv /\ [Next]_vars => NanoInv'
  <2> SUFFICES ASSUME NanoInv, [Next]_vars PROVE NanoInv'
    OBVIOUS
  <2>1. ASSUME NEW file \in Texts \cup {Absent}, NEW raw \in Reads(file), nano_open(file, raw)
        PROVE  NanoInv'
    BY <2>1, OpenKeeps
  <2>2. ASSUME NEW c \in Chars, nano_keyboard_character(c) PROVE NanoInv'
    BY <2>2, CharacterKeeps
  <2>3. CASE nano_keyboard_enter
    BY <2>3, EnterSplitsKeeps, EnterSavesKeeps DEF nano_keyboard_enter
  <2>4. CASE nano_keyboard_backspace
    BY <2>4, BackspaceInLineKeeps, BackspaceMergesKeeps DEF nano_keyboard_backspace
  <2>5. CASE nano_keyboard_delete
    BY <2>5, DeleteInLineKeeps, DeleteMergesKeeps DEF nano_keyboard_delete
  <2>6. CASE \/ nano_keyboard_left \/ nano_keyboard_right \/ nano_keyboard_up
             \/ nano_keyboard_down \/ nano_keyboard_home \/ nano_keyboard_end
    BY <2>6, CursorKeysKeep
  <2>7. CASE nano_keyboard_ctrl \/ PromptKeys
    BY <2>7, PromptStepsKeep DEF nano_keyboard_ctrl
  <2>8. CASE UNCHANGED vars
    <3>1. /\ lines' = lines /\ dirty' = dirty /\ active' = active /\ name' = name
          /\ disk' = disk /\ lost' = lost /\ prompt_active' = prompt_active
          /\ prompt_length' = prompt_length /\ prompt_cursor' = prompt_cursor
          /\ cursor_line' = cursor_line /\ cursor_col' = cursor_col /\ view_top' = view_top
      BY <2>8 DEF vars, cursor, prompt
    <3>2. NanoTypeOK'
      BY <3>1 DEF NanoInv, NanoTypeOK
    <3>3. CursorInside'
      BY <3>1 DEF NanoInv, CursorInside, Current, Line
    <3>4. CleanIsOnDisk'
      BY <3>1 DEF NanoInv, CleanIsOnDisk
    <3> QED
      BY <3>2, <3>3, <3>4 DEF NanoInv
  <2> QED
    BY <2>1, <2>2, <2>3, <2>4, <2>5, <2>6, <2>7, <2>8 DEF Next
<1> QED
  BY <1>1, <1>2, PTL DEF Spec

\* Every access of nano.c to lines[][] and to the screen is inside it, for every
\* grid, window and file.
THEOREM EditorStaysInside == Spec => []CursorInside
<1>1. NanoInv => CursorInside
  BY DEF NanoInv
<1> QED
  BY <1>1, EditorSound, PTL

\* What buffer_save() writes, buffer_load() reads back as the same lines.
THEOREM SavedBuffersComeBack == Spec => []RoundTrip
<1>1. NanoInv => RoundTrip
  <2> SUFFICES ASSUME NanoInv, active PROVE Loaded(Serialized(lines)) = lines
    BY DEF RoundTrip
  <2>1. PICK ls : ls = lines /\ InGrid(ls)
    BY EditorState DEF Within
  <2> QED
    BY <2>1, ReadsBack
<1> QED
  BY <1>1, EditorSound, PTL

\* A buffer shown without the mark of changes is in the file the title bar names:
\* no failed save clears the mark.  Excepted are files that buffer_load() could
\* not read whole and failed saves of a buffer that had no changes.
THEOREM CleanBufferIsSaved == Spec => []CleanIsOnDisk
<1>1. NanoInv => CleanIsOnDisk
  BY DEF NanoInv
<1> QED
  BY <1>1, EditorSound, PTL
-----------------------------------------------------------------------------
(* The text as one string.                                                 *)

FlatStep(t, line) == (t \o line) \o <<NL>>

\* One line more.
LEMMA FlatStepType ==
    ASSUME NEW t \in Seq(Chars \cup {NL}), NEW line \in Seq(Chars)
    PROVE  FlatStep(t, line) \in Seq(Chars \cup {NL})
<1>1. line \in Seq(Chars \cup {NL}) /\ <<NL>> \in Seq(Chars \cup {NL})
  <2>1. line \in Seq(Chars \cup {NL})
    BY SeqMonotonic
  <2>2. <<NL>> \in Seq(Chars \cup {NL})
    OBVIOUS
  <2> QED
    BY <2>1, <2>2
<1>2. t \o line \in Seq(Chars \cup {NL})
  BY <1>1, ConcatProperties
<1> QED
  BY <1>1, <1>2, ConcatProperties DEF FlatStep

\* The text of the lines is the last of a sequence of texts, each one line longer.
LEMMA FlatIs ==
    ASSUME NEW ls \in Seq(Seq(Chars))
    PROVE  \E r : Text(r, ls) /\ r[Len(ls)] = Flat(ls)
<1> DEFINE Body(f) == [k \in 0 .. Len(ls) |->
               IF k = 0 THEN <<>> ELSE f[k - 1] \o ls[k] \o <<NL>>]
           Out == Seq(Chars \cup {NL})
<1>1. PICK n \in Nat : n = Len(ls)
  OBVIOUS
<1>2. PICK a \in Out : a = <<>>
  BY EmptySeq
<1> HIDE DEF Out
<1>3. PICK F : F = [x \in Out \X (1 .. n) |-> FlatStep(x[1], ls[x[2]])]
  OBVIOUS
<1>4. F \in [Out \X (1 .. n) -> Out]
  <2>1. ASSUME NEW x \in Out \X (1 .. n) PROVE FlatStep(x[1], ls[x[2]]) \in Out
    <3>1. x[1] \in Out /\ ls[x[2]] \in Seq(Chars)
      BY <1>1
    <3> QED
      BY <3>1, FlatStepType DEF Out
  <2> QED
    BY <1>3, <2>1
<1>5. PICK f : Solves(f, n, Out, a, F)
  BY <1>4, RecursionExists, Zenon
<1>6. f \in [0 .. n -> Out] /\ f[0] = a /\ \A k \in 1 .. n : f[k] = F[<<f[k - 1], k>>]
  BY <1>5 DEF Solves
<1>7. ASSUME NEW k \in 1 .. n PROVE f[k] = FlatStep(f[k - 1], ls[k])
  <2>1. k - 1 \in 0 .. n
    OBVIOUS
  <2>2. <<f[k - 1], k>> \in Out \X (1 .. n)
    BY <1>6, <2>1
  <2> QED
    BY <1>3, <1>6, <2>2
<1>8. f = Body(f)
  <2>1. \A k \in 0 .. n : f[k] = IF k = 0 THEN a ELSE FlatStep(f[k - 1], ls[k])
    BY <1>6, <1>7
  <2>2. f = [k \in 0 .. n |-> IF k = 0 THEN a ELSE FlatStep(f[k - 1], ls[k])]
    BY <1>6, <2>1
  <2> QED
    BY <1>1, <1>2, <2>2, Zenon DEF FlatStep
<1> HIDE DEF Body
<1>9. PICK h : h = CHOOSE g : g = Body(g)
  OBVIOUS
<1>10. h = Body(h)
  BY <1>8, <1>9
<1>11. h[Len(ls)] = Flat(ls)
  BY <1>9 DEF Flat, Body
<1>12. h = [k \in 0 .. n |-> IF k = 0 THEN a ELSE FlatStep(h[k - 1], ls[k])]
  BY <1>1, <1>2, <1>10, Zenon DEF Body, FlatStep
<1>13. h[0] = a
  <2>1. 0 \in 0 .. n
    OBVIOUS
  <2> QED
    BY <1>12, <2>1
<1>14. ASSUME NEW k \in 1 .. n PROVE h[k] = FlatStep(h[k - 1], ls[k])
  <2>1. k \in 0 .. n /\ k # 0
    OBVIOUS
  <2> QED
    BY <1>12, <2>1
<1> DEFINE T == {m \in Nat : m <= n => h[m] \in Out}
<1>15. 0 \in T
  BY <1>13
<1>16. ASSUME NEW m \in T PROVE m + 1 \in T
  <2> SUFFICES ASSUME m + 1 <= n PROVE h[m + 1] \in Out
    OBVIOUS
  <2>1. m + 1 \in 1 .. n /\ (m + 1) - 1 = m /\ m <= n
    OBVIOUS
  <2>2. h[m] \in Out /\ ls[m + 1] \in Seq(Chars)
    BY <1>1, <2>1
  <2>3. h[m + 1] = FlatStep(h[m], ls[m + 1])
    BY <1>14, <2>1
  <2> QED
    BY <2>2, <2>3, FlatStepType DEF Out
<1>17. T \in SUBSET Nat
  OBVIOUS
<1> HIDE DEF T
<1>18. T = Nat
  BY <1>15, <1>16, <1>17, InductionOnSet
<1>19. h \in [0 .. n -> Out]
  <2>1. \A k \in 0 .. n : h[k] \in Out
    BY <1>18 DEF T
  <2>2. h = [k \in 0 .. n |-> h[k]]
    BY <1>12
  <2> QED
    BY <2>1, <2>2
<1>20. Text(h, ls)
  BY <1>1, <1>2, <1>13, <1>14, <1>19 DEF Text, FlatStep, Out
<1> QED
  BY <1>11, <1>20

\* The text of a longer buffer starts with the text of the shorter one.
LEMMA FlatAppend ==
    ASSUME NEW ls \in Seq(Seq(Chars)), NEW line \in Seq(Chars)
    PROVE  Flat(Append(ls, line)) = FlatStep(Flat(ls), line) /\ Flat(ls) \in Seq(Chars \cup {NL})
<1>1. PICK n \in Nat : n = Len(ls)
  OBVIOUS
<1>2. PICK e \in Seq(Seq(Chars)) : e = Append(ls, line)
  BY AppendProperties
<1>3. Len(e) = n + 1 /\ e[n + 1] = line /\ \A i \in 1 .. n : e[i] = ls[i]
  BY <1>1, <1>2, AppendProperties
<1>4. PICK r : Text(r, ls) /\ r[Len(ls)] = Flat(ls)
  BY FlatIs
<1>5. PICK q : Text(q, e) /\ q[Len(e)] = Flat(e)
  BY FlatIs
<1>6. /\ r \in [0 .. n -> Seq(Chars \cup {NL})] /\ r[0] = <<>> /\ r[n] = Flat(ls)
      /\ \A k \in 1 .. n : r[k] = FlatStep(r[k - 1], ls[k])
  BY <1>1, <1>4 DEF Text, FlatStep
<1>7. /\ q[0] = <<>> /\ q[n + 1] = Flat(e)
      /\ \A k \in 1 .. (n + 1) : q[k] = FlatStep(q[k - 1], e[k])
  BY <1>3, <1>5 DEF Text, FlatStep
<1> DEFINE T == {m \in Nat : m <= n => q[m] = r[m]}
<1>8. 0 \in T
  BY <1>6, <1>7
<1>9. ASSUME NEW m \in T PROVE m + 1 \in T
  <2> SUFFICES ASSUME m + 1 <= n PROVE q[m + 1] = r[m + 1]
    OBVIOUS
  <2>1. m + 1 \in 1 .. n /\ m + 1 \in 1 .. (n + 1) /\ (m + 1) - 1 = m /\ m <= n
    OBVIOUS
  <2>2. q[m + 1] = FlatStep(q[m], e[m + 1]) /\ r[m + 1] = FlatStep(r[m], ls[m + 1])
    BY <1>6, <1>7, <2>1
  <2> QED
    BY <1>3, <2>1, <2>2
<1>10. T \in SUBSET Nat
  OBVIOUS
<1> HIDE DEF T
<1>11. T = Nat
  BY <1>8, <1>9, <1>10, InductionOnSet
<1>12. q[n] = Flat(ls)
  <2>1. n \in T /\ n <= n
    BY <1>11
  <2>2. q[n] = r[n]
    BY <2>1 DEF T
  <2> QED
    BY <1>6, <2>2
<1>13. q[n + 1] = FlatStep(q[n], line)
  <2>1. (n + 1) \in 1 .. (n + 1) /\ (n + 1) - 1 = n
    OBVIOUS
  <2> QED
    BY <1>3, <1>7, <2>1
<1>14. Flat(ls) \in Seq(Chars \cup {NL})
  <2>1. n \in 0 .. n
    OBVIOUS
  <2> QED
    BY <1>6, <2>1
<1> QED
  BY <1>2, <1>7, <1>12, <1>13, <1>14

\* No line, no text.
LEMMA FlatEmpty ==
    Flat(<<>>) = <<>>
<1>1. PICK e \in Seq(Seq(Chars)) : e = <<>> /\ Len(e) = 0
  BY EmptySeq
<1>2. PICK r : Text(r, e) /\ r[Len(e)] = Flat(e)
  BY FlatIs
<1> QED
  BY <1>1, <1>2 DEF Text

\* An element behind the second of two sequences.
LEMMA AppendJoined ==
    ASSUME NEW S, NEW a \in Seq(S), NEW c \in Seq(S), NEW x \in S
    PROVE  a \o Append(c, x) = Append(a \o c, x)
<1>1. PICK u \in Seq(S) : u = a \o c
  BY ConcatProperties
<1>2. Append(c, x) = c \o <<x>> /\ Append(u, x) = u \o <<x>>
  BY AppendIsConcat
<1>3. <<x>> \in Seq(S)
  OBVIOUS
<1>4. (a \o c) \o <<x>> = a \o (c \o <<x>>)
  BY <1>3, ConcatAssociative
<1> QED
  BY <1>1, <1>2, <1>4

\* One line more, behind two texts.
LEMMA FlatStepJoined ==
    ASSUME NEW p \in Seq(Chars \cup {NL}), NEW q \in Seq(Chars \cup {NL}), NEW x \in Seq(Chars)
    PROVE  FlatStep(p \o q, x) = p \o FlatStep(q, x)
<1>1. x \in Seq(Chars \cup {NL})
  BY SeqMonotonic
<1>2. <<NL>> \in Seq(Chars \cup {NL})
  OBVIOUS
<1>3. (p \o q) \o x = p \o (q \o x)
  BY <1>1, ConcatAssociative
<1>4. PICK w \in Seq(Chars \cup {NL}) : w = q \o x
  BY <1>1, ConcatProperties
<1>5. (p \o w) \o <<NL>> = p \o (w \o <<NL>>)
  BY <1>2, ConcatAssociative
<1> QED
  BY <1>3, <1>4, <1>5 DEF FlatStep

\* The text of two buffers one behind the other.
LEMMA FlatJoined ==
    ASSUME NEW a \in Seq(Seq(Chars)), NEW b \in Seq(Seq(Chars))
    PROVE  Flat(a \o b) = Flat(a) \o Flat(b)
<1>1. PICK n \in Nat : n = Len(b)
  OBVIOUS
<1>2. PICK line \in Seq(Chars) : line = <<>>
  BY EmptySeq
<1>3. ASSUME NEW c \in Seq(Seq(Chars)) PROVE Flat(c) \in Seq(Chars \cup {NL})
  BY <1>2, FlatAppend
<1> DEFINE Ok(j) == Flat(a \o SubSeq(b, 1, j)) = Flat(a) \o Flat(SubSeq(b, 1, j))
           T == {j \in Nat : j <= n => Ok(j)}
<1>4. 0 \in T
  <2>1. SubSeq(b, 1, 0) = <<>>
    <3>1. 0 \in Nat /\ 0 <= Len(b)
      OBVIOUS
    <3>2. SubSeq(b, 1, 0) \in Seq(Seq(Chars)) /\ Len(SubSeq(b, 1, 0)) = 0
      BY <3>1, PrefixIs
    <3> QED
      BY <3>2, EmptySeq
  <2>2. a \o <<>> = a
    BY ConcatEmptySeq
  <2>3. Flat(a) \o <<>> = Flat(a)
    BY <1>3, ConcatEmptySeq
  <2>4. Ok(0)
    BY <2>1, <2>2, <2>3, FlatEmpty
  <2> HIDE DEF Ok
  <2> QED
    BY <2>4
<1>5. ASSUME NEW j \in T PROVE j + 1 \in T
  <2> HIDE DEF Ok
  <2> SUFFICES ASSUME j + 1 <= n PROVE Ok(j + 1)
    OBVIOUS
  <2>1. j \in Nat /\ j <= n /\ j + 1 \in 1 .. n
    BY <1>1
  <2>2. Ok(j)
    BY <2>1
  <2>3. PICK c \in Seq(Seq(Chars)) : c = SubSeq(b, 1, j)
    BY <1>1, <2>1, PrefixIs
  <2>4. PICK x \in Seq(Chars) : x = b[j + 1]
    BY <1>1, <2>1
  <2>5. SubSeq(b, 1, j + 1) = Append(c, x)
    BY <1>1, <2>1, <2>3, <2>4, PrefixAppend
  <2>6. Flat(Append(c, x)) = FlatStep(Flat(c), x)
    BY FlatAppend
  <2>7. PICK u \in Seq(Seq(Chars)) : u = a \o c
    BY ConcatProperties
  <2>8. a \o Append(c, x) = Append(u, x)
    BY <2>7, AppendJoined
  <2>9. Flat(Append(u, x)) = FlatStep(Flat(u), x)
    BY FlatAppend
  <2>10. Flat(u) = Flat(a) \o Flat(c)
    BY <2>2, <2>3, <2>7 DEF Ok
  <2>11. FlatStep(Flat(a) \o Flat(c), x) = Flat(a) \o FlatStep(Flat(c), x)
    BY <1>3, FlatStepJoined
  <2>12. Flat(a \o SubSeq(b, 1, j + 1)) = Flat(a) \o Flat(SubSeq(b, 1, j + 1))
    BY <2>5, <2>6, <2>8, <2>9, <2>10, <2>11
  <2> QED
    BY <2>12 DEF Ok
<1>6. T \in SUBSET Nat
  OBVIOUS
<1> HIDE DEF T
<1>7. T = Nat
  BY <1>4, <1>5, <1>6, InductionOnSet
<1>8. Ok(n)
  <2>1. n \in T /\ n <= n
    BY <1>7
  <2> HIDE DEF Ok
  <2> QED
    BY <2>1 DEF T
<1>9. SubSeq(b, 1, n) = b
  <2>1. /\ SubSeq(b, 1, n) \in Seq(Seq(Chars)) /\ Len(SubSeq(b, 1, n)) = n
        /\ \A i \in 1 .. n : SubSeq(b, 1, n)[i] = b[i]
    BY <1>1, PrefixIs
  <2> QED
    BY <1>1, <2>1, SeqEqual
<1> QED
  BY <1>8, <1>9

\* The text of a single line.
LEMMA FlatOfOne ==
    ASSUME NEW line \in Seq(Chars)
    PROVE  Flat(<<line>>) = line \o <<NL>>
<1>1. PICK e \in Seq(Seq(Chars)) : e = <<>>
  BY EmptySeq
<1>2. Append(e, line) = <<line>>
  BY <1>1
<1>3. Flat(Append(e, line)) = FlatStep(Flat(e), line)
  BY FlatAppend
<1>4. <<>> \o line = line
  BY ConcatEmptySeq
<1> QED
  BY <1>1, <1>2, <1>3, <1>4, FlatEmpty DEF FlatStep
-----------------------------------------------------------------------------
(* A key and the text.                                                     *)

\* A sequence is its two parts.
LEMMA SplitAt ==
    ASSUME NEW S, NEW s \in Seq(S), NEW k \in Nat, k <= Len(s)
    PROVE  s = Take(s, k) \o Drop(s, k)
<1>1. PICK n \in Nat : n = Len(s)
  OBVIOUS
<1>2. PICK a \in Seq(S) : a = Take(s, k) /\ Len(a) = k /\ \A i \in 1 .. k : a[i] = s[i]
  <2>1. /\ Take(s, k) \in Seq(S) /\ Len(Take(s, k)) = k
        /\ \A i \in 1 .. k : Take(s, k)[i] = s[i]
    BY TakeIs
  <2> QED
    BY <2>1, Zenon
<1>3. PICK b \in Seq(S) :
          b = Drop(s, k) /\ Len(b) = n - k /\ \A i \in 1 .. (n - k) : b[i] = s[k + i]
  <2>1. /\ Drop(s, k) \in Seq(S) /\ Len(Drop(s, k)) = n - k
        /\ \A i \in 1 .. (n - k) : Drop(s, k)[i] = s[k + i]
    BY <1>1, DropIs
  <2> QED
    BY <2>1
<1>4. PICK u \in Seq(S) :
          /\ u = a \o b /\ Len(u) = Len(a) + Len(b)
          /\ \A i \in 1 .. Len(a) : u[i] = a[i]
          /\ \A i \in 1 .. Len(b) : u[Len(a) + i] = b[i]
  <2>1. /\ a \o b \in Seq(S) /\ Len(a \o b) = Len(a) + Len(b)
        /\ \A i \in 1 .. Len(a) : (a \o b)[i] = a[i]
        /\ \A i \in 1 .. Len(b) : (a \o b)[Len(a) + i] = b[i]
    BY JoinedIs
  <2> QED
    BY <2>1, Zenon
<1>5. Len(u) = n
  BY <1>1, <1>2, <1>3, <1>4
<1>6. ASSUME NEW i \in 1 .. n PROVE u[i] = s[i]
  <2>1. CASE i <= k
    <3>1. i \in 1 .. k
      BY <2>1
    <3> QED
      BY <1>2, <1>4, <3>1
  <2>2. CASE ~(i <= k)
    <3>1. PICK j \in 1 .. (n - k) : i = k + j
      <4>1. i - k \in 1 .. (n - k) /\ i = k + (i - k)
        BY <2>2
      <4> QED
        BY <4>1
    <3>2. u[k + j] = b[j]
      BY <1>2, <1>3, <1>4
    <3> QED
      BY <1>3, <3>1, <3>2
  <2> QED
    BY <2>1, <2>2
<1>7. u = s
  BY <1>1, <1>5, <1>6, SeqEqual
<1> QED
  BY <1>2, <1>3, <1>4, <1>7

\* The parts of two sequences are the sequences.
LEMMA PartsOfJoined ==
    ASSUME NEW S, NEW a \in Seq(S), NEW b \in Seq(S)
    PROVE  Take(a \o b, Len(a)) = a /\ Drop(a \o b, Len(a)) = b
<1>1. PICK m \in Nat, n \in Nat : m = Len(a) /\ n = Len(b)
  OBVIOUS
<1>2. PICK u \in Seq(S) :
          /\ u = a \o b /\ Len(u) = Len(a) + Len(b)
          /\ \A i \in 1 .. Len(a) : u[i] = a[i]
          /\ \A i \in 1 .. Len(b) : u[Len(a) + i] = b[i]
  <2>1. /\ a \o b \in Seq(S) /\ Len(a \o b) = Len(a) + Len(b)
        /\ \A i \in 1 .. Len(a) : (a \o b)[i] = a[i]
        /\ \A i \in 1 .. Len(b) : (a \o b)[Len(a) + i] = b[i]
    BY JoinedIs
  <2> QED
    BY <2>1, Zenon
<1>3. m <= Len(u) /\ Len(u) - m = n
  BY <1>1, <1>2
<1>4. Take(u, m) = a
  <2>1. /\ Take(u, m) \in Seq(S) /\ Len(Take(u, m)) = m
        /\ \A i \in 1 .. m : Take(u, m)[i] = u[i]
    BY <1>3, TakeIs
  <2>2. \A i \in 1 .. m : Take(u, m)[i] = a[i]
    BY <1>1, <1>2, <2>1
  <2> QED
    BY <1>1, <2>1, <2>2, SeqEqual
<1>5. Drop(u, m) = b
  <2>1. /\ Drop(u, m) \in Seq(S) /\ Len(Drop(u, m)) = Len(u) - m
        /\ \A i \in 1 .. (Len(u) - m) : Drop(u, m)[i] = u[m + i]
    BY <1>3, DropIs
  <2>2. Len(Drop(u, m)) = n /\ \A i \in 1 .. n : Drop(u, m)[i] = b[i]
    BY <1>1, <1>2, <1>3, <2>1
  <2> QED
    BY <1>1, <2>1, <2>2, SeqEqual
<1> QED
  BY <1>1, <1>2, <1>4, <1>5

\* The first part, one longer.
LEMMA TakeNext ==
    ASSUME NEW S, NEW s \in Seq(S), NEW k \in Nat, k + 1 <= Len(s)
    PROVE  Take(s, k + 1) = Take(s, k) \o <<s[k + 1]>>
<1>1. s[k + 1] \in S /\ k <= Len(s)
  OBVIOUS
<1>2. PICK a \in Seq(S) : a = Take(s, k)
  BY <1>1, TakeIs
<1>3. Append(a, s[k + 1]) = a \o <<s[k + 1]>>
  BY <1>1, AppendIsConcat
<1>4. SubSeq(s, 1, k + 1) = Append(SubSeq(s, 1, k), s[k + 1])
  BY PrefixAppend
<1> QED
  BY <1>2, <1>3, <1>4 DEF Take

\* The second part, one shorter.
LEMMA DropNext ==
    ASSUME NEW S, NEW s \in Seq(S), NEW k \in Nat, k + 1 <= Len(s)
    PROVE  Drop(s, k) = <<s[k + 1]>> \o Drop(s, k + 1)
<1>1. s[k + 1] \in S /\ k <= Len(s) /\ k + 1 \in Nat
  OBVIOUS
<1>2. PICK a \in Seq(S) : a = Take(s, k) /\ Len(a) = k
  BY <1>1, TakeIs
<1>3. PICK x \in Seq(S) : x = <<s[k + 1]>>
  <2>1. <<s[k + 1]>> \in Seq(S)
    BY <1>1
  <2> QED
    BY <2>1
<1>4. PICK b \in Seq(S) : b = Drop(s, k + 1)
  BY <1>1, DropIs
<1>5. PICK y \in Seq(S) : y = x \o b
  BY ConcatProperties
<1>6. s = a \o y
  <2>1. s = Take(s, k + 1) \o Drop(s, k + 1)
    BY <1>1, SplitAt
  <2>2. Take(s, k + 1) = Take(s, k) \o <<s[k + 1]>>
    BY TakeNext
  <2>3. s = (a \o x) \o b
    BY <1>2, <1>3, <1>4, <2>1, <2>2, Zenon
  <2>4. (a \o x) \o b = a \o (x \o b)
    BY ConcatAssociative
  <2> QED
    BY <1>5, <2>3, <2>4, Zenon
<1>7. Drop(a \o y, Len(a)) = y
  BY PartsOfJoined
<1>8. Drop(s, k) = y
  BY <1>2, <1>6, <1>7, Zenon
<1> QED
  BY <1>3, <1>4, <1>5, <1>8, Zenon

\* One character is put in at the cursor.
LEMMA InsertedOne ==
    ASSUME NEW S, NEW u \in Seq(S), NEW v \in Seq(S), NEW x \in S
    PROVE  OneCharacter(u \o v, (u \o <<x>>) \o v, Len(u), Len(u) + 1)
<1>1. PICK w \in Seq(S) : w = u \o <<x>> /\ Len(w) = Len(u) + 1
  <2>1. <<x>> \in Seq(S) /\ Len(<<x>>) = 1
    OBVIOUS
  <2>2. u \o <<x>> \in Seq(S) /\ Len(u \o <<x>>) = Len(u) + Len(<<x>>)
    BY <2>1, ConcatProperties
  <2> QED
    BY <2>1, <2>2
<1>2. PICK y \in Seq(S) : y = <<x>> \o v
  <2>1. <<x>> \in Seq(S)
    OBVIOUS
  <2> QED
    BY <2>1, ConcatProperties
<1>3. w \o v = u \o y
  <2>1. <<x>> \in Seq(S)
    OBVIOUS
  <2>2. (u \o <<x>>) \o v = u \o (<<x>> \o v)
    BY <2>1, ConcatAssociative
  <2> QED
    BY <1>1, <1>2, <2>2, Zenon
<1>4. Take(u \o v, Len(u)) = u /\ Drop(u \o v, Len(u)) = v
  BY PartsOfJoined
<1>5. Take(u \o y, Len(u)) = u
  BY PartsOfJoined
<1>6. Drop(w \o v, Len(w)) = v
  BY PartsOfJoined
<1>7. Len(w \o v) = Len(u \o v) + 1
  <2>1. Len(w \o v) = Len(w) + Len(v) /\ Len(u \o v) = Len(u) + Len(v)
    BY ConcatProperties
  <2>2. Len(u) \in Nat /\ Len(v) \in Nat
    OBVIOUS
  <2> QED
    BY <1>1, <2>1, <2>2
<1>8. Take(w \o v, Len(u)) = Take(u \o v, Len(u))
  BY <1>3, <1>4, <1>5, Zenon
<1>9. Drop(w \o v, Len(u) + 1) = Drop(u \o v, Len(u))
  BY <1>1, <1>4, <1>6, Zenon
<1> QED
  BY <1>1, <1>7, <1>8, <1>9, Zenon DEF OneCharacter

\* One character is taken out, before the cursor or behind it.
LEMMA RemovedOne ==
    ASSUME NEW S, NEW u \in Seq(S), NEW v \in Seq(S), NEW x \in S
    PROVE  /\ OneCharacter((u \o <<x>>) \o v, u \o v, Len(u) + 1, Len(u))
           /\ OneCharacter((u \o <<x>>) \o v, u \o v, Len(u), Len(u))
<1>1. PICK w \in Seq(S) : w = u \o <<x>> /\ Len(w) = Len(u) + 1
  <2>1. <<x>> \in Seq(S) /\ Len(<<x>>) = 1
    OBVIOUS
  <2>2. u \o <<x>> \in Seq(S) /\ Len(u \o <<x>>) = Len(u) + Len(<<x>>)
    BY <2>1, ConcatProperties
  <2> QED
    BY <2>1, <2>2
<1>2. PICK y \in Seq(S) : y = <<x>> \o v
  <2>1. <<x>> \in Seq(S)
    OBVIOUS
  <2> QED
    BY <2>1, ConcatProperties
<1>3. w \o v = u \o y
  <2>1. <<x>> \in Seq(S)
    OBVIOUS
  <2>2. (u \o <<x>>) \o v = u \o (<<x>> \o v)
    BY <2>1, ConcatAssociative
  <2> QED
    BY <1>1, <1>2, <2>2, Zenon
<1>4. Take(u \o y, Len(u)) = u
  BY PartsOfJoined
<1>5. Drop(w \o v, Len(w)) = v
  BY PartsOfJoined
<1>6. Take(w \o v, Len(u)) = u /\ Drop(w \o v, Len(u) + 1) = v
  BY <1>1, <1>3, <1>4, <1>5, Zenon
<1>7. Len(u) \in Nat /\ (Len(u) + 1) - 1 = Len(u)
  OBVIOUS
<1>8. OneCharacter(w \o v, u \o v, Len(u), Len(u))
  BY <1>6, Zenon DEF OneCharacter
<1>9. OneCharacter(w \o v, u \o v, Len(u) + 1, Len(u))
  BY <1>6, <1>7, Zenon DEF OneCharacter
<1> QED
  BY <1>1, <1>8, <1>9, Zenon

\* The text of the lines.
LEMMA FlatType ==
    ASSUME NEW ls \in Seq(Seq(Chars))
    PROVE  Flat(ls) \in Seq(Chars \cup {NL})
<1>1. <<>> \in Seq(Chars)
  BY EmptySeq
<1> QED
  BY <1>1, FlatAppend

\* The text around a line that the cursor divides into b and d.
Before(a, b) == Flat(a) \o b
Behind(d, z) == (d \o <<NL>>) \o Flat(z)

\* The text around a place in a line, whether the line is one or split there.
LEMMA TextAround ==
    ASSUME NEW a \in Seq(Seq(Chars)), NEW z \in Seq(Seq(Chars)),
           NEW b \in Seq(Chars), NEW d \in Seq(Chars)
    PROVE  /\ Before(a, b) \in Seq(Chars \cup {NL}) /\ Behind(d, z) \in Seq(Chars \cup {NL})
           /\ Len(Before(a, b)) = Len(Flat(a)) + Len(b)
           /\ Flat((a \o <<b \o d>>) \o z) = Before(a, b) \o Behind(d, z)
           /\ Flat((a \o <<b, d>>) \o z) = (Before(a, b) \o <<NL>>) \o Behind(d, z)
<1>1. PICK p \in Seq(Chars \cup {NL}), q \in Seq(Chars \cup {NL}) : p = Flat(a) /\ q = Flat(z)
  BY FlatType
<1>2. b \in Seq(Chars \cup {NL}) /\ d \in Seq(Chars \cup {NL})
  BY SeqMonotonic
<1>3. PICK n \in Seq(Chars \cup {NL}) : n = <<NL>>
  <2>1. <<NL>> \in Seq(Chars \cup {NL})
    OBVIOUS
  <2> QED
    BY <2>1
<1>4. PICK w \in Seq(Chars) : w = b \o d
  BY ConcatProperties
<1>5. ASSUME NEW y \in Seq(Seq(Chars))
      PROVE  Flat((a \o y) \o z) = (p \o Flat(y)) \o q
  <2>1. a \o y \in Seq(Seq(Chars))
    BY ConcatProperties
  <2>2. Flat((a \o y) \o z) = Flat(a \o y) \o Flat(z)
    BY <2>1, FlatJoined
  <2>3. Flat(a \o y) = Flat(a) \o Flat(y)
    BY FlatJoined
  <2> QED
    BY <1>1, <2>2, <2>3, Zenon
<1>6. p \o b \in Seq(Chars \cup {NL}) /\ Len(p \o b) = Len(p) + Len(b)
  BY <1>2, ConcatProperties
<1>7. (d \o n) \o q \in Seq(Chars \cup {NL})
  <2>1. d \o n \in Seq(Chars \cup {NL})
    BY <1>2, ConcatProperties
  <2> QED
    BY <2>1, ConcatProperties
<1>8. Flat((a \o <<w>>) \o z) = (p \o b) \o ((d \o n) \o q)
  <2>1. PICK y \in Seq(Seq(Chars)) : y = <<w>>
    <3>1. <<w>> \in Seq(Seq(Chars))
      OBVIOUS
    <3> QED
      BY <3>1
  <2>2. Flat(y) = (b \o d) \o n
    BY <1>3, <1>4, <2>1, FlatOfOne
  <2>3. (p \o ((b \o d) \o n)) \o q = (p \o b) \o ((d \o n) \o q)
    <3>1. Join(Join(p, Join(Join(b, d), n)), q) = Join(Join(p, b), Join(Join(d, n), q))
      BY <1>2, Regroup
    <3> QED
      BY <3>1, Zenon DEF Join
  <2> QED
    BY <1>5, <2>1, <2>2, <2>3, Zenon
<1>9. Flat((a \o <<b, d>>) \o z) = ((p \o b) \o n) \o ((d \o n) \o q)
  <2>1. PICK y \in Seq(Seq(Chars)) : y = <<b, d>>
    <3>1. <<b, d>> \in Seq(Seq(Chars))
      OBVIOUS
    <3> QED
      BY <3>1
  <2>2. PICK y1 \in Seq(Seq(Chars)) : y1 = <<b>>
    <3>1. <<b>> \in Seq(Seq(Chars))
      OBVIOUS
    <3> QED
      BY <3>1
  <2>3. y = Append(y1, d)
    BY <2>1, <2>2
  <2>4. Flat(y) = ((b \o n) \o d) \o n
    <3>1. Flat(y1) = b \o n
      BY <1>3, <2>2, FlatOfOne
    <3>2. Flat(Append(y1, d)) = FlatStep(Flat(y1), d)
      BY FlatAppend
    <3> QED
      BY <1>3, <2>3, <3>1, <3>2, Zenon DEF FlatStep
  <2>5. PICK bn \in Seq(Chars \cup {NL}) : bn = b \o n
    BY <1>2, ConcatProperties
  <2>6. (p \o ((bn \o d) \o n)) \o q = (p \o bn) \o ((d \o n) \o q)
    <3>1. Join(Join(p, Join(Join(bn, d), n)), q) = Join(Join(p, bn), Join(Join(d, n), q))
      BY <1>2, Regroup
    <3> QED
      BY <3>1, Zenon DEF Join
  <2>7. (p \o b) \o n = p \o (b \o n)
    <3>1. Join(Join(p, b), n) = Join(p, Join(b, n))
      BY <1>2, JoinAssociative
    <3> QED
      BY <3>1, Zenon DEF Join
  <2> QED
    BY <1>5, <2>1, <2>4, <2>5, <2>6, <2>7, Zenon
<1>10. Before(a, b) = p \o b /\ Behind(d, z) = (d \o n) \o q
  BY <1>1, <1>3, Zenon DEF Before, Behind
<1> QED
  BY <1>1, <1>3, <1>4, <1>6, <1>7, <1>8, <1>9, <1>10, Zenon

\* The text with a character at that place.
LEMMA TextWith ==
    ASSUME NEW a \in Seq(Seq(Chars)), NEW z \in Seq(Seq(Chars)),
           NEW b \in Seq(Chars), NEW d \in Seq(Chars), NEW c \in Chars
    PROVE  Flat((a \o <<(b \o <<c>>) \o d>>) \o z) = (Before(a, b) \o <<c>>) \o Behind(d, z)
<1>1. PICK x \in Seq(Chars) : x = <<c>>
  <2>1. <<c>> \in Seq(Chars)
    OBVIOUS
  <2> QED
    BY <2>1
<1>2. PICK e \in Seq(Chars) : e = b \o x
  BY ConcatProperties
<1>3. Flat((a \o <<e \o d>>) \o z) = Before(a, e) \o Behind(d, z)
  BY TextAround
<1>4. PICK p \in Seq(Chars \cup {NL}) : p = Flat(a)
  BY FlatType
<1>5. b \in Seq(Chars \cup {NL}) /\ x \in Seq(Chars \cup {NL})
  BY SeqMonotonic
<1>6. Join(Join(p, b), x) = Join(p, Join(b, x))
  BY <1>5, JoinAssociative
<1>7. Before(a, e) = Before(a, b) \o x
  BY <1>2, <1>4, <1>6, Zenon DEF Before, Join
<1> QED
  BY <1>1, <1>2, <1>3, <1>7, Zenon

\* A buffer and the line l + 1 in it.
LEMMA OneLine ==
    ASSUME NEW ls \in Seq(Seq(Chars)), NEW l \in Nat, l < Len(ls)
    PROVE  /\ Take(ls, l) \in Seq(Seq(Chars)) /\ Drop(ls, l + 1) \in Seq(Seq(Chars))
           /\ Len(Take(ls, l)) = l
           /\ ls = (Take(ls, l) \o <<ls[l + 1]>>) \o Drop(ls, l + 1)
<1>1. l + 1 \in Nat /\ l + 1 <= Len(ls) /\ l <= Len(ls)
  OBVIOUS
<1>2. ls = Take(ls, l + 1) \o Drop(ls, l + 1)
  BY <1>1, SplitAt
<1>3. Take(ls, l + 1) = Take(ls, l) \o <<ls[l + 1]>>
  BY <1>1, TakeNext
<1>4. Take(ls, l) \in Seq(Seq(Chars)) /\ Len(Take(ls, l)) = l
  BY <1>1, TakeIs
<1>5. Drop(ls, l + 1) \in Seq(Seq(Chars))
  BY <1>1, DropIs
<1> QED
  BY <1>2, <1>3, <1>4, <1>5, Zenon

\* The lines before and after the one that is replaced.
LEMMA OneLineReplaced ==
    ASSUME NEW ls \in Seq(Seq(Chars)), NEW l \in Nat, l < Len(ls), NEW text \in Seq(Chars),
           NEW new, new = Replaced(ls, l + 1, text)
    PROVE  new = (Take(ls, l) \o <<text>>) \o Drop(ls, l + 1) /\ Take(new, l) = Take(ls, l)
<1>1. PICK n \in Nat, m \in Nat : n = Len(ls) /\ m = l + 1 /\ m <= n /\ m \in 1 .. n
  <2>1. Len(ls) \in Nat /\ l + 1 \in Nat /\ l + 1 <= Len(ls) /\ l + 1 \in 1 .. Len(ls)
    OBVIOUS
  <2> QED
    BY <2>1
<1>2. ls \in [1 .. n -> Seq(Chars)]
  BY <1>1
<1>3. PICK e \in [1 .. n -> Seq(Chars)] :
          e = new /\ e[m] = text /\ \A i \in 1 .. n : i # m => e[i] = ls[i]
  <2>1. /\ [ls EXCEPT ![m] = text] \in [1 .. n -> Seq(Chars)] /\ [ls EXCEPT ![m] = text][m] = text
        /\ \A i \in 1 .. n : i # m => [ls EXCEPT ![m] = text][i] = ls[i]
    BY <1>1, <1>2
  <2> QED
    BY <1>1, <2>1, Zenon DEF Replaced
<1>4. e \in Seq(Seq(Chars)) /\ Len(e) = n
  OBVIOUS
<1>5. l < Len(e) /\ l <= n
  BY <1>1, <1>4
<1>6. e = (Take(e, l) \o <<e[l + 1]>>) \o Drop(e, l + 1)
  BY <1>4, <1>5, OneLine
<1>7. Take(e, l) = Take(ls, l)
  <2>1. /\ Take(e, l) \in Seq(Seq(Chars)) /\ Len(Take(e, l)) = l
        /\ \A i \in 1 .. l : Take(e, l)[i] = e[i]
    BY <1>4, <1>5, TakeIs
  <2>2. /\ Take(ls, l) \in Seq(Seq(Chars)) /\ Len(Take(ls, l)) = l
        /\ \A i \in 1 .. l : Take(ls, l)[i] = ls[i]
    BY <1>1, <1>5, TakeIs
  <2>3. \A i \in 1 .. l : e[i] = ls[i]
    <3>1. ASSUME NEW i \in 1 .. l PROVE e[i] = ls[i]
      <4>1. i \in 1 .. n /\ i # m
        BY <1>1
      <4> QED
        BY <1>3, <4>1
    <3> QED
      BY <3>1
  <2>4. \A i \in 1 .. l : Take(e, l)[i] = Take(ls, l)[i]
    BY <2>1, <2>2, <2>3
  <2> QED
    BY <2>1, <2>2, <2>4, SeqEqual
<1>8. Drop(e, m) = Drop(ls, m)
  <2>1. /\ Drop(e, m) \in Seq(Seq(Chars)) /\ Len(Drop(e, m)) = n - m
        /\ \A i \in 1 .. (n - m) : Drop(e, m)[i] = e[m + i]
    <3>1. m <= Len(e)
      BY <1>1, <1>4
    <3>2. /\ Drop(e, m) \in Seq(Seq(Chars)) /\ Len(Drop(e, m)) = Len(e) - m
          /\ \A i \in 1 .. (Len(e) - m) : Drop(e, m)[i] = e[m + i]
      BY <1>4, <3>1, DropIs
    <3> QED
      BY <1>4, <3>2, Zenon
  <2>2. /\ Drop(ls, m) \in Seq(Seq(Chars)) /\ Len(Drop(ls, m)) = n - m
        /\ \A i \in 1 .. (n - m) : Drop(ls, m)[i] = ls[m + i]
    BY <1>1, DropIs
  <2>3. ASSUME NEW i \in 1 .. (n - m) PROVE Drop(e, m)[i] = Drop(ls, m)[i]
    <3>1. m + i \in 1 .. n /\ m + i # m
      BY <1>1
    <3>2. e[m + i] = ls[m + i]
      BY <1>3, <3>1
    <3> QED
      BY <2>1, <2>2, <3>2
  <2>4. n - m \in Nat
    BY <1>1
  <2> QED
    BY <2>1, <2>2, <2>3, <2>4, SeqEqual
<1> QED
  BY <1>1, <1>3, <1>6, <1>7, <1>8, Zenon

\* Two elements.
LEMMA PairIs ==
    ASSUME NEW S, NEW x \in S, NEW y \in S
    PROVE  Append(<<x>>, y) = <<x, y>>
<1>1. PICK v \in Seq(S) : v = <<x>> /\ Len(v) = 1 /\ v[1] = x
  <2>1. <<x>> \in Seq(S) /\ Len(<<x>>) = 1 /\ <<x>>[1] = x
    OBVIOUS
  <2> QED
    BY <2>1
<1>2. PICK p \in Seq(S) : p = Append(v, y) /\ Len(p) = 2 /\ p[1] = x /\ p[2] = y
  <2>1. /\ Append(v, y) \in Seq(S) /\ Len(Append(v, y)) = 2
        /\ Append(v, y)[1] = x /\ Append(v, y)[2] = y
    BY <1>1, AppendProperties
  <2> QED
    BY <2>1
<1>3. PICK q \in Seq(S) : q = <<x, y>> /\ Len(q) = 2 /\ q[1] = x /\ q[2] = y
  <2>1. /\ <<x, y>> \in Seq(S) /\ Len(<<x, y>>) = 2 /\ <<x, y>>[1] = x /\ <<x, y>>[2] = y
    OBVIOUS
  <2> QED
    BY <2>1
<1>4. \A i \in 1 .. Len(p) : p[i] = q[i]
  BY <1>2, <1>3
<1>5. p = q
  BY <1>2, <1>3, <1>4, SeqEqual
<1> QED
  BY <1>1, <1>2, <1>3, <1>5, Zenon

\* Two elements, one after the other.
LEMMA PairJoined ==
    ASSUME NEW S, NEW a \in Seq(S), NEW x \in S, NEW y \in S
    PROVE  (a \o <<x>>) \o <<y>> = a \o <<x, y>>
<1>1. PICK v \in Seq(S), w \in Seq(S) : v = <<x>> /\ w = <<y>>
  <2>1. <<x>> \in Seq(S) /\ <<y>> \in Seq(S)
    OBVIOUS
  <2> QED
    BY <2>1
<1>2. v \o w = <<x, y>>
  <2>1. Append(v, y) = v \o <<y>>
    BY AppendIsConcat
  <2>2. Append(<<x>>, y) = <<x, y>>
    BY PairIs
  <2> QED
    BY <1>1, <2>1, <2>2, Zenon
<1>3. Join(Join(a, v), w) = Join(a, Join(v, w))
  BY JoinAssociative
<1> QED
  BY <1>1, <1>2, <1>3, Zenon DEF Join

\* A buffer and the lines l + 1 and l + 2 in it.
LEMMA TwoLines ==
    ASSUME NEW ls \in Seq(Seq(Chars)), NEW l \in Nat, l + 1 < Len(ls)
    PROVE  /\ Take(ls, l) \in Seq(Seq(Chars)) /\ Drop(ls, l + 2) \in Seq(Seq(Chars))
           /\ Len(Take(ls, l)) = l
           /\ ls = (Take(ls, l) \o <<ls[l + 1], ls[l + 2]>>) \o Drop(ls, l + 2)
           /\ Take(ls, l + 1) = Take(ls, l) \o <<ls[l + 1]>>
<1>1. PICK m \in Nat : m = l + 1 /\ m + 1 = l + 2 /\ m < Len(ls) /\ l + 1 <= Len(ls) /\ l < Len(ls)
  <2>1. l + 1 \in Nat /\ (l + 1) + 1 = l + 2 /\ l + 1 <= Len(ls) /\ l < Len(ls)
    OBVIOUS
  <2> QED
    BY <2>1
<1>2. ls = (Take(ls, m) \o <<ls[m + 1]>>) \o Drop(ls, m + 1) /\ Drop(ls, m + 1) \in Seq(Seq(Chars))
  BY <1>1, OneLine
<1>3. Take(ls, l + 1) = Take(ls, l) \o <<ls[l + 1]>>
  BY <1>1, TakeNext
<1>4. Take(ls, l) \in Seq(Seq(Chars)) /\ Len(Take(ls, l)) = l
  BY <1>1, TakeIs
<1>5. PICK a \in Seq(Seq(Chars)), x \in Seq(Chars), y \in Seq(Chars) :
          a = Take(ls, l) /\ x = ls[l + 1] /\ y = ls[l + 2]
  <2>1. ls[l + 1] \in Seq(Chars) /\ ls[l + 2] \in Seq(Chars)
    BY <1>1
  <2> QED
    BY <1>4, <2>1
<1>6. (a \o <<x>>) \o <<y>> = a \o <<x, y>>
  BY PairJoined
<1> QED
  BY <1>1, <1>2, <1>3, <1>4, <1>5, <1>6, Zenon

\* The first of three parts.
LEMMA HeadOfThree ==
    ASSUME NEW S, NEW a \in Seq(S), NEW y \in Seq(S), NEW z \in Seq(S)
    PROVE  Take((a \o y) \o z, Len(a)) = a
<1>1. PICK w \in Seq(S) : w = y \o z
  BY ConcatProperties
<1>2. Join(Join(a, y), z) = Join(a, Join(y, z))
  BY JoinAssociative
<1>3. Take(a \o w, Len(a)) = a
  BY PartsOfJoined
<1> QED
  BY <1>1, <1>2, <1>3, Zenon DEF Join

KeyChange == OneCharacter(Flat(lines), Flat(lines'), Offset, Offset')

\* The buffer, the cursor and the line it is on.
Cursor(ls, l, s, k) ==
    /\ ls = lines /\ l = cursor_line /\ s = Current /\ k = cursor_col
    /\ ls \in Seq(Seq(Chars)) /\ l \in Nat /\ l < Len(ls)
    /\ s \in Seq(Chars) /\ s = ls[l + 1] /\ k \in Nat /\ k <= Len(s)

\* Where the cursor is.
LEMMA CursorIs ==
    ASSUME NanoInv, active
    PROVE  \E ls, l, s, k : Cursor(ls, l, s, k)
<1>1. /\ lines \in Seq(Seq(Chars)) /\ cursor_line \in Nat /\ cursor_line < Len(lines)
      /\ Current \in Seq(Chars) /\ Current = lines[cursor_line + 1]
      /\ cursor_col \in Nat /\ cursor_col <= Len(Current)
  BY EditorState
<1>2. Cursor(lines, cursor_line, Current, cursor_col)
  BY <1>1 DEF Cursor
<1> QED
  BY <1>2

\* Only the line of the cursor changes.
LineBecomes(text, c) ==
    lines' = ReplaceLine(text) /\ cursor_line' = cursor_line /\ cursor_col' = c
LineText(a, z, s, text, k, c) ==
    /\ Flat(lines) = Flat((a \o <<s>>) \o z) /\ Flat(lines') = Flat((a \o <<text>>) \o z)
    /\ Offset = Len(Flat(a)) + k /\ Offset' = Len(Flat(a)) + c

\* The text around the cursor when its line changes.
LEMMA InLineChange ==
    ASSUME NEW ls, NEW l, NEW s, NEW k, Cursor(ls, l, s, k),
           NEW text \in Seq(Chars), NEW c, LineBecomes(text, c)
    PROVE  \E a \in Seq(Seq(Chars)), z \in Seq(Seq(Chars)) : LineText(a, z, s, text, k, c)
<1>1. /\ ls = lines /\ l = cursor_line /\ k = cursor_col /\ s = ls[l + 1]
      /\ ls \in Seq(Seq(Chars)) /\ l \in Nat /\ l < Len(ls)
  BY DEF Cursor
<1>2. /\ Take(ls, l) \in Seq(Seq(Chars)) /\ Drop(ls, l + 1) \in Seq(Seq(Chars))
      /\ ls = (Take(ls, l) \o <<ls[l + 1]>>) \o Drop(ls, l + 1)
  BY <1>1, OneLine
<1>3. PICK new : new = Replaced(ls, l + 1, text)
  OBVIOUS
<1>4. lines' = new /\ cursor_line' = l /\ cursor_col' = c
  BY <1>1, <1>3 DEF LineBecomes, ReplaceLine, Replaced
<1>5. new = (Take(ls, l) \o <<text>>) \o Drop(ls, l + 1) /\ Take(new, l) = Take(ls, l)
  BY <1>1, <1>3, OneLineReplaced
<1>6. Offset = Len(Flat(Take(ls, l))) + k
  BY <1>1, Zenon DEF Offset
<1>7. Offset' = Len(Flat(Take(ls, l))) + c
  <2>1. Offset' = Len(Flat(Take(lines', cursor_line'))) + cursor_col'
    BY Zenon DEF Offset
  <2> QED
    BY <1>4, <1>5, <2>1, Zenon
<1>8. Flat(lines) = Flat((Take(ls, l) \o <<s>>) \o Drop(ls, l + 1))
  BY <1>1, <1>2, Zenon
<1>9. Flat(lines') = Flat((Take(ls, l) \o <<text>>) \o Drop(ls, l + 1))
  BY <1>4, <1>5, Zenon
<1> QED
  BY <1>2, <1>6, <1>7, <1>8, <1>9, Zenon DEF LineText

\* A typed character.
LEMMA CharacterChanges ==
    ASSUME NanoInv, NEW c \in Chars, nano_keyboard_character(c)
    PROVE  KeyChange
<1>1. active
  BY DEF nano_keyboard_character, Editing
<1>2. PICK ls, l, s, k : Cursor(ls, l, s, k)
  BY <1>1, CursorIs
<1>3. s \in Seq(Chars) /\ k \in Nat /\ k <= Len(s) /\ s = Current /\ k = cursor_col
  BY <1>2 DEF Cursor
<1>4. PICK b \in Seq(Chars) : b = Take(s, k) /\ Len(b) = k
  BY <1>3, TakeIs
<1>5. PICK d \in Seq(Chars) : d = Drop(s, k)
  BY <1>3, DropIs
<1>6. s = b \o d
  BY <1>3, <1>4, <1>5, SplitAt
<1>7. PICK text \in Seq(Chars) : text = (b \o <<c>>) \o d
  <2>1. <<c>> \in Seq(Chars)
    OBVIOUS
  <2>2. b \o <<c>> \in Seq(Chars)
    BY <2>1, ConcatProperties
  <2> QED
    BY <2>2, ConcatProperties
<1>8. LineBecomes(text, k + 1)
  BY <1>3, <1>4, <1>5, <1>7 DEF nano_keyboard_character, Edit, MoveTo, LineBecomes
<1>a. PICK a \in Seq(Seq(Chars)), z \in Seq(Seq(Chars)) : LineText(a, z, s, text, k, k + 1)
  BY <1>2, <1>8, InLineChange, Zenon
<1>9. /\ Flat(lines) = Flat((a \o <<s>>) \o z) /\ Flat(lines') = Flat((a \o <<text>>) \o z)
      /\ Offset = Len(Flat(a)) + k /\ Offset' = Len(Flat(a)) + (k + 1)
  BY <1>a DEF LineText
<1>10. PICK u \in Seq(Chars \cup {NL}), v \in Seq(Chars \cup {NL}) :
           /\ Flat(lines) = u \o v /\ Flat(lines') = (u \o <<c>>) \o v
           /\ Len(u) = Len(Flat(a)) + Len(b)
  <2>1. /\ Before(a, b) \in Seq(Chars \cup {NL}) /\ Behind(d, z) \in Seq(Chars \cup {NL})
        /\ Len(Before(a, b)) = Len(Flat(a)) + Len(b)
        /\ Flat((a \o <<b \o d>>) \o z) = Before(a, b) \o Behind(d, z)
    BY TextAround
  <2>2. Flat((a \o <<(b \o <<c>>) \o d>>) \o z) = (Before(a, b) \o <<c>>) \o Behind(d, z)
    BY TextWith
  <2> QED
    BY <1>6, <1>7, <1>9, <2>1, <2>2, Zenon
<1>11. Offset = Len(u) /\ Offset' = Len(u) + 1
  <2>1. Flat(a) \in Seq(Chars \cup {NL})
    BY FlatType
  <2>2. Len(Flat(a)) \in Nat
    BY <2>1
  <2> QED
    BY <1>3, <1>4, <1>9, <1>10, <2>2
<1>12. OneCharacter(u \o v, (u \o <<c>>) \o v, Len(u), Len(u) + 1)
  BY InsertedOne
<1> QED
  BY <1>10, <1>11, <1>12, Zenon DEF KeyChange

\* The character behind column k of the line goes.
LEMMA CutChanges ==
    ASSUME NEW ls, NEW l, NEW s, NEW n, Cursor(ls, l, s, n), NEW k \in Nat, k < Len(s),
           lines' = ReplaceLine(Take(s, k) \o Drop(s, k + 1)), cursor_line' = cursor_line,
           cursor_col' = k, n = k \/ n = k + 1
    PROVE  KeyChange
<1>1. s \in Seq(Chars) /\ n \in Nat
  BY DEF Cursor
<1>2. k + 1 \in Nat /\ k + 1 <= Len(s) /\ k <= Len(s)
  BY <1>1
<1>3. PICK c \in Chars : c = s[k + 1]
  BY <1>1, <1>2
<1>4. PICK b \in Seq(Chars) : b = Take(s, k) /\ Len(b) = k
  BY <1>1, <1>2, TakeIs
<1>5. PICK d \in Seq(Chars) : d = Drop(s, k + 1)
  BY <1>1, <1>2, DropIs
<1>6. s = (b \o <<c>>) \o d
  <2>1. s = Take(s, k + 1) \o Drop(s, k + 1)
    BY <1>1, <1>2, SplitAt
  <2>2. Take(s, k + 1) = Take(s, k) \o <<s[k + 1]>>
    BY <1>1, <1>2, TakeNext
  <2> QED
    BY <1>3, <1>4, <1>5, <2>1, <2>2, Zenon
<1>7. PICK text \in Seq(Chars) : text = b \o d
  BY ConcatProperties
<1>8. LineBecomes(text, k)
  BY <1>4, <1>5, <1>7 DEF LineBecomes
<1>a. PICK a \in Seq(Seq(Chars)), z \in Seq(Seq(Chars)) : LineText(a, z, s, text, n, k)
  BY <1>8, InLineChange, Zenon
<1>9. /\ Flat(lines) = Flat((a \o <<s>>) \o z) /\ Flat(lines') = Flat((a \o <<text>>) \o z)
      /\ Offset = Len(Flat(a)) + n /\ Offset' = Len(Flat(a)) + k
  BY <1>a DEF LineText
<1>10. PICK u \in Seq(Chars \cup {NL}), v \in Seq(Chars \cup {NL}) :
           /\ Flat(lines) = (u \o <<c>>) \o v /\ Flat(lines') = u \o v
           /\ Len(u) = Len(Flat(a)) + Len(b)
  <2>1. /\ Before(a, b) \in Seq(Chars \cup {NL}) /\ Behind(d, z) \in Seq(Chars \cup {NL})
        /\ Len(Before(a, b)) = Len(Flat(a)) + Len(b)
        /\ Flat((a \o <<b \o d>>) \o z) = Before(a, b) \o Behind(d, z)
    BY TextAround
  <2>2. Flat((a \o <<(b \o <<c>>) \o d>>) \o z) = (Before(a, b) \o <<c>>) \o Behind(d, z)
    BY TextWith
  <2> QED
    BY <1>6, <1>7, <1>9, <2>1, <2>2, Zenon
<1>11. Offset' = Len(u) /\ (Offset = Len(u) \/ Offset = Len(u) + 1)
  <2>1. Flat(a) \in Seq(Chars \cup {NL})
    BY FlatType
  <2>2. PICK x \in Nat : x = Len(Flat(a))
    BY <2>1
  <2>3. Len(u) = x + k /\ Offset' = x + k /\ Offset = x + n
    BY <1>4, <1>9, <1>10, <2>2, Zenon
  <2>4. x + (k + 1) = (x + k) + 1
    OBVIOUS
  <2> QED
    BY <2>3, <2>4, Zenon
<1>12. /\ OneCharacter((u \o <<c>>) \o v, u \o v, Len(u) + 1, Len(u))
       /\ OneCharacter((u \o <<c>>) \o v, u \o v, Len(u), Len(u))
  BY RemovedOne
<1> QED
  BY <1>10, <1>11, <1>12, Zenon DEF KeyChange

\* Backspace inside a line.
LEMMA BackspaceInLineChanges ==
    ASSUME NanoInv, BackspaceInLine
    PROVE  KeyChange
<1>1. active
  BY DEF BackspaceInLine, Editing
<1>2. PICK ls, l, s, n : Cursor(ls, l, s, n)
  BY <1>1, CursorIs
<1>3. s \in Seq(Chars) /\ n \in Nat /\ n <= Len(s) /\ s = Current /\ n = cursor_col /\ n > 0
  BY <1>2 DEF Cursor, BackspaceInLine
<1>4. PICK k \in Nat : k = n - 1 /\ n = k + 1 /\ k < Len(s)
  <2>1. n - 1 \in Nat /\ n = (n - 1) + 1 /\ n - 1 < Len(s)
    BY <1>3
  <2> QED
    BY <2>1
<1>5. /\ lines' = ReplaceLine(Take(s, k) \o Drop(s, k + 1))
      /\ cursor_line' = cursor_line /\ cursor_col' = k
  BY <1>3, <1>4 DEF BackspaceInLine, Edit, MoveTo
<1> QED
  BY <1>2, <1>4, <1>5, CutChanges

\* Delete inside a line.
LEMMA DeleteInLineChanges ==
    ASSUME NanoInv, DeleteInLine
    PROVE  KeyChange
<1>1. active
  BY DEF DeleteInLine, Editing
<1>2. PICK ls, l, s, k : Cursor(ls, l, s, k)
  BY <1>1, CursorIs
<1>3. s \in Seq(Chars) /\ k \in Nat /\ k < Len(s) /\ s = Current /\ k = cursor_col
  BY <1>2 DEF Cursor, DeleteInLine
<1>4. /\ lines' = ReplaceLine(Take(s, k) \o Drop(s, k + 1))
      /\ cursor_line' = cursor_line /\ cursor_col' = k
  BY <1>3 DEF DeleteInLine, Edit, MoveTo
<1> QED
  BY <1>2, <1>3, <1>4, CutChanges

\* Enter.
LEMMA EnterSplitsChanges ==
    ASSUME NanoInv, EnterSplits
    PROVE  KeyChange
<1>1. active
  BY DEF EnterSplits, Editing
<1>2. PICK ls, l, s, k : Cursor(ls, l, s, k)
  BY <1>1, CursorIs
<1>3. /\ s \in Seq(Chars) /\ k \in Nat /\ k <= Len(s) /\ s = Current /\ k = cursor_col
      /\ ls = lines /\ l = cursor_line /\ s = ls[l + 1] /\ ls \in Seq(Seq(Chars))
      /\ l \in Nat /\ l < Len(ls)
  BY <1>2 DEF Cursor
<1>4. PICK b \in Seq(Chars) : b = Take(s, k) /\ Len(b) = k
  BY <1>3, TakeIs
<1>5. PICK d \in Seq(Chars) : d = Drop(s, k)
  BY <1>3, DropIs
<1>6. s = b \o d
  BY <1>3, <1>4, <1>5, SplitAt
<1>7. PICK a \in Seq(Seq(Chars)), z \in Seq(Seq(Chars)) :
          a = Take(ls, l) /\ z = Drop(ls, l + 1) /\ Len(a) = l /\ ls = (a \o <<s>>) \o z
  <2>1. /\ Take(ls, l) \in Seq(Seq(Chars)) /\ Drop(ls, l + 1) \in Seq(Seq(Chars))
        /\ Len(Take(ls, l)) = l
        /\ ls = (Take(ls, l) \o <<ls[l + 1]>>) \o Drop(ls, l + 1)
    BY <1>3, OneLine
  <2> QED
    BY <1>3, <2>1, Zenon
<1>8. PICK new : new = (a \o <<b, d>>) \o z
  OBVIOUS
<1>9. lines' = new /\ cursor_line' = l + 1 /\ cursor_col' = 0
  BY <1>3, <1>4, <1>5, <1>7, <1>8 DEF EnterSplits, Edit, MoveTo
<1>10. PICK e \in Seq(Seq(Chars)) : e = a \o <<b>> /\ Len(e) = l + 1
  <2>1. <<b>> \in Seq(Seq(Chars)) /\ Len(<<b>>) = 1
    OBVIOUS
  <2>2. a \o <<b>> \in Seq(Seq(Chars)) /\ Len(a \o <<b>>) = Len(a) + Len(<<b>>)
    BY <2>1, ConcatProperties
  <2> QED
    BY <1>7, <2>1, <2>2
<1>11. Take(new, l + 1) = e
  <2>1. PICK y \in Seq(Seq(Chars)) : y = <<d>>
    <3>1. <<d>> \in Seq(Seq(Chars))
      OBVIOUS
    <3> QED
      BY <3>1
  <2>2. Take((e \o y) \o z, Len(e)) = e
    BY HeadOfThree
  <2>3. e \o y = a \o <<b, d>>
    BY <1>10, <2>1, PairJoined
  <2> QED
    BY <1>8, <1>10, <2>2, <2>3, Zenon
<1>12. Flat(e) = (Flat(a) \o b) \o <<NL>>
  <2>1. e = Append(a, b)
    BY <1>10, AppendIsConcat
  <2> QED
    BY <2>1, FlatAppend DEF FlatStep
<1>13. PICK u \in Seq(Chars \cup {NL}), v \in Seq(Chars \cup {NL}) :
           /\ Flat(ls) = u \o v /\ Flat(new) = (u \o <<NL>>) \o v
           /\ Len(u) = Len(Flat(a)) + Len(b) /\ Flat(e) = u \o <<NL>>
  <2>1. /\ Before(a, b) \in Seq(Chars \cup {NL}) /\ Behind(d, z) \in Seq(Chars \cup {NL})
        /\ Len(Before(a, b)) = Len(Flat(a)) + Len(b)
        /\ Flat((a \o <<b \o d>>) \o z) = Before(a, b) \o Behind(d, z)
        /\ Flat((a \o <<b, d>>) \o z) = (Before(a, b) \o <<NL>>) \o Behind(d, z)
    BY TextAround
  <2> QED
    BY <1>6, <1>7, <1>8, <1>12, <2>1, Zenon DEF Before
<1>14. Offset = Len(u)
  <2>1. Offset = Len(Flat(a)) + k
    BY <1>3, <1>7, Zenon DEF Offset
  <2> QED
    BY <1>4, <1>13, <2>1, Zenon
<1>15. Offset' = Len(u) + 1
  <2>1. Offset' = Len(Flat(Take(lines', cursor_line'))) + cursor_col'
    BY Zenon DEF Offset
  <2>2. Offset' = Len(u \o <<NL>>) + 0
    BY <1>9, <1>11, <1>13, <2>1, Zenon
  <2>3. <<NL>> \in Seq(Chars \cup {NL}) /\ Len(<<NL>>) = 1
    OBVIOUS
  <2>4. Len(u \o <<NL>>) = Len(u) + 1
    BY <2>3, ConcatProperties
  <2> QED
    BY <2>2, <2>4
<1>16. OneCharacter(u \o v, (u \o <<NL>>) \o v, Len(u), Len(u) + 1)
  BY InsertedOne
<1>17. Flat(lines) = u \o v /\ Flat(lines') = (u \o <<NL>>) \o v
  BY <1>3, <1>9, <1>13, Zenon
<1> QED
  BY <1>14, <1>15, <1>16, <1>17, Zenon DEF KeyChange

\* The newline between the lines l + 1 and l + 2 goes.
LEMMA MergeChanges ==
    ASSUME NanoInv, active, NEW l \in Nat, l + 1 < Len(lines), lines' = Merged(l),
           cursor_line' = l, cursor_col' = Len(Line(l)),
           \/ cursor_line = l /\ cursor_col = Len(Line(l))
           \/ cursor_line = l + 1 /\ cursor_col = 0
    PROVE  KeyChange
<1>1. PICK ls \in Seq(Seq(Chars)) : ls = lines /\ l + 1 < Len(ls) /\ l < Len(ls)
  <2>1. lines \in Seq(Seq(Chars)) /\ l < Len(lines)
    BY EditorState
  <2> QED
    BY <2>1
<1>2. PICK b \in Seq(Chars), d \in Seq(Chars) :
          b = Line(l) /\ d = Line(l + 1) /\ b = ls[l + 1] /\ d = ls[l + 2]
  <2>1. ls[l + 1] \in Seq(Chars) /\ ls[l + 2] \in Seq(Chars) /\ (l + 1) + 1 = l + 2
    BY <1>1
  <2>2. Line(l) = ls[l + 1] /\ Line(l + 1) = ls[l + 2]
    BY <1>1, <2>1 DEF Line
  <2> QED
    BY <2>1, <2>2
<1>3. PICK a \in Seq(Seq(Chars)), z \in Seq(Seq(Chars)) :
          /\ a = Take(ls, l) /\ z = Drop(ls, l + 2) /\ Len(a) = l
          /\ ls = (a \o <<b, d>>) \o z /\ Take(ls, l + 1) = a \o <<b>>
  <2>1. /\ Take(ls, l) \in Seq(Seq(Chars)) /\ Drop(ls, l + 2) \in Seq(Seq(Chars))
        /\ Len(Take(ls, l)) = l
        /\ ls = (Take(ls, l) \o <<ls[l + 1], ls[l + 2]>>) \o Drop(ls, l + 2)
        /\ Take(ls, l + 1) = Take(ls, l) \o <<ls[l + 1]>>
    BY <1>1, TwoLines
  <2> QED
    BY <1>2, <2>1, Zenon
<1>4. PICK w \in Seq(Chars) : w = b \o d
  BY ConcatProperties
<1>5. PICK new : new = (a \o <<w>>) \o z
  OBVIOUS
<1>6. lines' = new
  BY <1>1, <1>2, <1>3, <1>4, <1>5 DEF Merged
<1>7. Take(new, l) = a
  <2>1. PICK y \in Seq(Seq(Chars)) : y = <<w>>
    <3>1. <<w>> \in Seq(Seq(Chars))
      OBVIOUS
    <3> QED
      BY <3>1
  <2>2. Take((a \o y) \o z, Len(a)) = a
    BY HeadOfThree
  <2> QED
    BY <1>3, <1>5, <2>1, <2>2, Zenon
<1>8. Flat(a \o <<b>>) = (Flat(a) \o b) \o <<NL>>
  <2>1. a \o <<b>> = Append(a, b)
    BY AppendIsConcat
  <2> QED
    BY <2>1, FlatAppend DEF FlatStep
<1>9. PICK u \in Seq(Chars \cup {NL}), v \in Seq(Chars \cup {NL}) :
          /\ Flat(ls) = (u \o <<NL>>) \o v /\ Flat(new) = u \o v
          /\ Len(u) = Len(Flat(a)) + Len(b) /\ Flat(Take(ls, l + 1)) = u \o <<NL>>
  <2>1. /\ Before(a, b) \in Seq(Chars \cup {NL}) /\ Behind(d, z) \in Seq(Chars \cup {NL})
        /\ Len(Before(a, b)) = Len(Flat(a)) + Len(b)
        /\ Flat((a \o <<b \o d>>) \o z) = Before(a, b) \o Behind(d, z)
        /\ Flat((a \o <<b, d>>) \o z) = (Before(a, b) \o <<NL>>) \o Behind(d, z)
    BY TextAround
  <2> QED
    BY <1>3, <1>4, <1>5, <1>8, <2>1, Zenon DEF Before
<1>10. Offset' = Len(u)
  <2>1. Offset' = Len(Flat(Take(lines', cursor_line'))) + cursor_col'
    BY Zenon DEF Offset
  <2> QED
    BY <1>2, <1>6, <1>7, <1>9, <2>1, Zenon
<1>11. Offset = Len(u) \/ Offset = Len(u) + 1
  <2>1. Offset = Len(Flat(Take(ls, cursor_line))) + cursor_col
    BY <1>1, Zenon DEF Offset
  <2>2. CASE cursor_line = l /\ cursor_col = Len(Line(l))
    BY <1>2, <1>3, <1>9, <2>1, <2>2, Zenon
  <2>3. CASE cursor_line = l + 1 /\ cursor_col = 0
    <3>1. Offset = Len(u \o <<NL>>) + 0
      BY <1>9, <2>1, <2>3, Zenon
    <3>2. <<NL>> \in Seq(Chars \cup {NL}) /\ Len(<<NL>>) = 1
      OBVIOUS
    <3>3. Len(u \o <<NL>>) = Len(u) + 1
      BY <3>2, ConcatProperties
    <3> QED
      BY <3>1, <3>3
  <2> QED
    BY <2>2, <2>3
<1>12. /\ OneCharacter((u \o <<NL>>) \o v, u \o v, Len(u) + 1, Len(u))
       /\ OneCharacter((u \o <<NL>>) \o v, u \o v, Len(u), Len(u))
  BY RemovedOne
<1>13. Flat(lines) = (u \o <<NL>>) \o v /\ Flat(lines') = u \o v
  BY <1>1, <1>6, <1>9, Zenon
<1> QED
  BY <1>10, <1>11, <1>12, <1>13, Zenon DEF KeyChange

\* Backspace at the beginning of a line.
LEMMA BackspaceMergesChanges ==
    ASSUME NanoInv, BackspaceMerges
    PROVE  KeyChange
<1>1. active
  BY DEF BackspaceMerges, Editing
<1>2. PICK n \in Nat : n = cursor_line /\ n > 0 /\ n < Len(lines)
  BY <1>1, EditorState DEF BackspaceMerges
<1>3. PICK l \in Nat : l = n - 1 /\ l + 1 = n
  <2>1. n - 1 \in Nat /\ (n - 1) + 1 = n
    BY <1>2
  <2> QED
    BY <2>1
<1>4. /\ l + 1 < Len(lines) /\ cursor_line = l + 1 /\ cursor_col = 0
      /\ lines' = Merged(l) /\ cursor_line' = l /\ cursor_col' = Len(Line(l))
  BY <1>2, <1>3 DEF BackspaceMerges, Edit, MoveTo
<1> QED
  BY <1>1, <1>4, MergeChanges

\* Delete at the end of a line.
LEMMA DeleteMergesChanges ==
    ASSUME NanoInv, DeleteMerges
    PROVE  KeyChange
<1>1. active
  BY DEF DeleteMerges, Editing
<1>2. PICK l \in Nat : l = cursor_line
  BY <1>1, EditorState
<1>3. cursor_col = Len(Line(l))
  <2>1. Current = Line(l)
    BY <1>2 DEF Current
  <2>2. cursor_col <= Len(Current) /\ cursor_col >= Len(Current) /\ cursor_col \in Nat
        /\ Len(Current) \in Nat
    BY <1>1, EditorState DEF DeleteMerges
  <2>3. cursor_col = Len(Current)
    BY <2>2
  <2> QED
    BY <2>1, <2>3
<1>4. /\ l + 1 < Len(lines) /\ cursor_line = l
      /\ lines' = Merged(l) /\ cursor_line' = l /\ cursor_col' = Len(Line(l))
  BY <1>2, <1>3 DEF DeleteMerges, Edit, MoveTo
<1> QED
  BY <1>1, <1>3, <1>4, MergeChanges

\* Every step that changes the lines.
LEMMA KeyStepChanges ==
    ASSUME NanoInv, [Next]_vars, active, lines' # lines
    PROVE  KeyChange
<1>1. ~(\E file \in Texts \cup {Absent} : \E raw \in Reads(file) : nano_open(file, raw))
  BY DEF nano_open
<1>2. ~EnterSaves
  BY DEF EnterSaves
<1>3. ~(\/ nano_keyboard_left \/ nano_keyboard_right \/ nano_keyboard_up
        \/ nano_keyboard_down \/ nano_keyboard_home \/ nano_keyboard_end)
  BY DEF nano_keyboard_left, nano_keyboard_right, nano_keyboard_up, nano_keyboard_down,
         nano_keyboard_home, nano_keyboard_end, Moves
<1>4. ~(nano_keyboard_ctrl \/ PromptKeys)
  BY DEF nano_keyboard_ctrl, CtrlO, CtrlX, PromptKeys, PromptTo
<1>5. ~(UNCHANGED vars)
  BY DEF vars
<1>6. ASSUME NEW c \in Chars, nano_keyboard_character(c) PROVE KeyChange
  BY <1>6, CharacterChanges
<1>7. CASE EnterSplits
  BY <1>7, EnterSplitsChanges
<1>8. CASE nano_keyboard_backspace
  BY <1>8, BackspaceInLineChanges, BackspaceMergesChanges DEF nano_keyboard_backspace
<1>9. CASE nano_keyboard_delete
  BY <1>9, DeleteInLineChanges, DeleteMergesChanges DEF nano_keyboard_delete
<1> QED
  BY <1>1, <1>2, <1>3, <1>4, <1>5, <1>6, <1>7, <1>8, <1>9 DEF Next, nano_keyboard_enter

\* Every key puts in or takes out at most one character of the text, at the cursor,
\* for every grid: no split and no merge of lines loses anything.
THEOREM KeysChangeOneCharacter == Spec => OneCharacterPerKey
<1>1. NanoInv /\ [Next]_vars =>
          [active /\ active' /\ lines' # lines =>
              OneCharacter(Flat(lines), Flat(lines'), Offset, Offset')]_vars
  BY KeyStepChanges DEF KeyChange
<1> QED
  BY <1>1, EditorSound, PTL DEF Spec, OneCharacterPerKey
=============================================================================

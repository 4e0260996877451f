---------------------------- MODULE HarnessProofs ----------------------------
(***************************************************************************)
(* Theorems about what stands around the baseband. The fronthaul emulator:   *)
(* the batch it returns and the packets it lost make up the batch it was     *)
(* given, the batch comes in at most three ascending runs, and what becomes  *)
(* of a packet depends on its position and the settings, whatever the call.  *)
(* The supervisor gate: a published CPU_PASS rests on its own run.           *)
(***************************************************************************)
EXTENDS Fronthaul, SupervisorGate, InductionFacts, TLAPS

\* The settings and the stream are what the assumption says.
LEMMA SettingsTyped ==
    ASSUME TypeOK
    PROVE  /\ imp_.delay_packets \in Int
           /\ batch.size \in Nat
  BY FronthaulAssumption DEF TypeOK, FhImpairments

LEMMA InitTyped == Init => TypeOK
<1> SUFFICES ASSUME Init PROVE TypeOK
  OBVIOUS
<1>1. batch.size = 0 /\ batch.empty = {}
  BY DEF Init
<1>2. out \in Seq(Positions) /\ at \in Seq(Nat)
  BY DEF Init
<1> QED
  BY <1>1, <1>2 DEF Init, TypeOK

\* Remainders of numbers below twice the divisor.
LEMMA WrapOnce ==
    ASSUME NEW m \in Nat \ {0}, NEW x \in Nat, x < 2 * m
    PROVE  x % m = IF x < m THEN x ELSE x - m
<1>1. CASE x < m
  BY <1>1
<1>2. CASE x >= m
  <2>1. x - m \in 0 .. m - 1
    BY <1>2
  <2>2. x % m = (x - m) % m
    BY <1>2
  <2> QED
    BY <1>2, <2>1, <2>2
<1> QED
  BY <1>1, <1>2

\* A rotation by less than the length, position by position.
LEMMA RotatedAt ==
    ASSUME NEW S, NEW s \in Seq(S), s # <<>>, NEW d \in 0 .. Len(s) - 1
    PROVE  /\ Rotated(s, d) \in Seq(S)
           /\ Len(Rotated(s, d)) = Len(s)
           /\ \A j \in 1 .. Len(s) :
                 Rotated(s, d)[j] = s[IF j + d <= Len(s) THEN j + d ELSE j + d - Len(s)]
<1>1. Len(s) \in Nat \ {0}
  OBVIOUS
<1>2. ASSUME NEW j \in 1 .. Len(s)
      PROVE  /\ ((j - 1 + d) % Len(s)) + 1 = IF j + d <= Len(s) THEN j + d ELSE j + d - Len(s)
             /\ ((j - 1 + d) % Len(s)) + 1 \in 1 .. Len(s)
  <2>1. PICK m \in Nat \ {0} : m = Len(s)
    BY <1>1
  <2>2. PICK x \in Nat : x = j - 1 + d
    OBVIOUS
  <2>3. x < 2 * m
    BY <2>1, <2>2
  <2>4. x % m = IF x < m THEN x ELSE x - m
    BY <2>3, WrapOnce
  <2>5. /\ (x % m) + 1 = IF j + d <= m THEN j + d ELSE j + d - m
        /\ (x % m) + 1 \in 1 .. m
    BY <2>1, <2>2, <2>3, <2>4
  <2> QED
    BY <2>1, <2>2, <2>5
<1>3. Rotated(s, d) = [j \in 1 .. Len(s) |-> s[((j - 1 + d) % Len(s)) + 1]]
  BY DEF Rotated
<1>4. Rotated(s, d) \in [1 .. Len(s) -> S]
  <2>1. ASSUME NEW j \in 1 .. Len(s) PROVE s[((j - 1 + d) % Len(s)) + 1] \in S
    <3>1. PICK q \in 1 .. Len(s) : q = ((j - 1 + d) % Len(s)) + 1
      BY <1>2
    <3> QED
      BY <3>1
  <2> QED
    BY <1>3, <2>1
<1>5. Rotated(s, d) \in Seq(S) /\ Len(Rotated(s, d)) = Len(s)
  BY <1>1, <1>4
<1> QED
  BY <1>2, <1>3, <1>5

\* The output after the swap and after the rotation.
Swapped == [out EXCEPT ![1] = out[Len(out)], ![Len(out)] = out[1]]

LEMMA SwappedTyped ==
    ASSUME TypeOK, Len(out) >= 2
    PROVE  Swapped \in Seq(Positions) /\ Len(Swapped) = Len(out)
  BY DEF TypeOK, Swapped

\* The rotation turns by the delay modulo the length.
LEMMA Turn ==
    ASSUME TypeOK, imp_.delay_packets > 0, out # <<>>
    PROVE  imp_.delay_packets % Len(out) \in 0 .. Len(out) - 1
<1>1. imp_.delay_packets \in Nat /\ Len(out) \in Nat \ {0}
  BY SettingsTyped DEF TypeOK
<1> QED
  BY <1>1

LEMMA StepTyped ==
    ASSUME TypeOK, [Next]_vars
    PROVE  TypeOK'
<1>1. ASSUME NEW b \in Batches, Begin(b) PROVE TypeOK'
  <2>1. b.size \in Nat /\ b.empty \subseteq 1 .. b.size
    BY FronthaulAssumption
  <2> QED
    BY <1>1, <2>1 DEF Begin, TypeOK, settings, Positions
<1>2. CASE Lose
  <2>1. at' \in Seq(Nat) /\ drawn' \in Nat
    BY <1>2 DEF Lose, TypeOK
  <2> QED
    BY <1>2, <2>1 DEF Lose, Visiting, TypeOK, settings, Positions
<1>3. CASE Keep
  <2>1. at' \in Seq(Nat) /\ drawn' \in Nat
    BY <1>3 DEF Keep, TypeOK
  <2>2. i \in Positions /\ batch' = batch
    BY <1>3 DEF Keep, Visiting, TypeOK, Positions
  <2>3. out' \in Seq(Positions)
    BY <1>3, <2>2 DEF Keep, Kept, TypeOK
  <2>4. hit' \subseteq Positions
    BY <1>3, <2>2 DEF Keep, TypeOK
  <2> QED
    BY <1>3, <2>1, <2>2, <2>3, <2>4 DEF Keep, Visiting, TypeOK, settings, Positions
<1>4. CASE LoopDone
  BY <1>4 DEF LoopDone, TypeOK, settings, fates, Positions
<1>5. CASE Reorder
  <2>1. out' \in Seq(Positions)
    <3>1. CASE Swaps
      BY <1>5, <3>1, SwappedTyped DEF Reorder, Swaps, Swapped
    <3>2. CASE ~Swaps
      BY <1>5, <3>2 DEF Reorder, TypeOK
    <3> QED
      BY <3>1, <3>2
  <2> QED
    BY <1>5, <2>1 DEF Reorder, TypeOK, settings, fates, Positions
<1>6. CASE Return
  <2>1. out' \in Seq(Positions)
    <3>1. CASE imp_.delay_packets > 0 /\ out # <<>>
      BY <1>6, <3>1, Turn, RotatedAt DEF Return, TypeOK
    <3>2. CASE ~(imp_.delay_packets > 0 /\ out # <<>>)
      BY <1>6, <3>2 DEF Return, TypeOK
    <3> QED
      BY <3>1, <3>2
  <2>2. batch.empty \in SUBSET Nat /\ lost \in SUBSET Nat /\ hit \in SUBSET Nat
    BY DEF TypeOK, Positions
  <2>3. Fate \in FateType
    BY <2>2 DEF Fate, FateType, TypeOK
  <2> QED
    BY <1>6, <2>1, <2>3 DEF Return, TypeOK, settings, fates, Positions
<1>7. CASE UNCHANGED vars
  BY <1>7 DEF vars, settings, fates, TypeOK, Positions
<1> QED
  BY <1>1, <1>2, <1>3, <1>4, <1>5, <1>6, <1>7 DEF Next

\* The emulator's loop stays within its batch (fronthaul.cpp:33-40).
THEOREM FronthaulTyped == Spec => []TypeOK
<1> QED
  BY InitTyped, StepTyped, PTL DEF Spec

-----------------------------------------------------------------------------

\* A sequence without repetitions, and what it holds.
Distinct(s) == \A j, k \in DOMAIN s : s[j] = s[k] => j = k
Holding(s, p) == \E j \in DOMAIN s : s[j] = p

\* A rotation neither drops nor doubles an element.
LEMMA RotationKeeps ==
    ASSUME NEW S, NEW s \in Seq(S), s # <<>>, NEW d \in 0 .. Len(s) - 1, Distinct(s)
    PROVE  /\ Distinct(Rotated(s, d))
           /\ \A p : Holding(Rotated(s, d), p) <=> Holding(s, p)
<1> DEFINE r == Rotated(s, d)
           src(j) == IF j + d <= Len(s) THEN j + d ELSE j + d - Len(s)
<1>1. /\ Len(s) \in Nat \ {0} /\ DOMAIN s = 1 .. Len(s) /\ DOMAIN r = 1 .. Len(s)
      /\ \A j \in 1 .. Len(s) : r[j] = s[src(j)]
  BY RotatedAt
<1>2. \A j \in 1 .. Len(s) : src(j) \in 1 .. Len(s)
  BY <1>1
<1>3. \A j, k \in 1 .. Len(s) : src(j) = src(k) => j = k
  BY <1>1
<1>4. \A k \in 1 .. Len(s) : \E j \in 1 .. Len(s) : src(j) = k
  <2>1. ASSUME NEW k \in 1 .. Len(s) PROVE \E j \in 1 .. Len(s) : src(j) = k
    <3>1. CASE k > d
      <4>1. k - d \in 1 .. Len(s) /\ src(k - d) = k
        BY <1>1, <3>1
      <4> QED
        BY <4>1
    <3>2. CASE k <= d
      <4>1. k - d + Len(s) \in 1 .. Len(s) /\ src(k - d + Len(s)) = k
        BY <1>1, <3>2
      <4> QED
        BY <4>1
    <3> QED
      BY <1>1, <3>1, <3>2
  <2> QED
    BY <2>1
<1> HIDE DEF r, src
<1>5. Distinct(r)
  BY <1>1, <1>2, <1>3 DEF Distinct
<1>6. ASSUME NEW p PROVE Holding(r, p) <=> Holding(s, p)
  BY <1>1, <1>2, <1>4 DEF Holding
<1> QED
  BY <1>5, <1>6 DEF r

\* Nor does the swap.
LEMMA SwapKeeps ==
    ASSUME TypeOK, Len(out) >= 2, Distinct(out)
    PROVE  /\ Distinct(Swapped)
           /\ \A p : Holding(Swapped, p) <=> Holding(out, p)
<1> DEFINE m == Len(out)
<1>1. m \in Nat /\ m >= 2 /\ DOMAIN out = 1 .. m /\ DOMAIN Swapped = 1 .. m
  BY DEF TypeOK, Swapped
<1>2. /\ Swapped[1] = out[m] /\ Swapped[m] = out[1]
      /\ \A j \in 2 .. m - 1 : Swapped[j] = out[j]
  BY <1>1 DEF Swapped
<1> HIDE DEF m
<1>3. \A j \in 1 .. m : j = 1 \/ j = m \/ j \in 2 .. m - 1
  BY <1>1
<1>4. 1 \in 1 .. m /\ m \in 1 .. m /\ 2 .. m - 1 \subseteq 1 .. m
  BY <1>1
<1>5. Distinct(Swapped)
  BY <1>1, <1>2, <1>3, <1>4 DEF Distinct
<1>6. ASSUME NEW p PROVE Holding(Swapped, p) <=> Holding(out, p)
  BY <1>1, <1>2, <1>3, <1>4 DEF Holding
<1> QED
  BY <1>5, <1>6

\* Conserved holds of any output that holds the same packets, each once.
LEMMA SameHolding ==
    ASSUME Conserved, batch' = batch, i' = i, lost' = lost,
           Distinct(out'), \A p : Holding(out', p) <=> Holding(out, p)
    PROVE  Conserved'
<1>1. \A p \in Positions : p < i <=> p \in lost \/ Holding(out, p)
  BY DEF Conserved, Holding
<1>2. ASSUME NEW j \in DOMAIN out' PROVE out'[j] \notin lost
  <2>1. Holding(out', out'[j])
    BY DEF Holding
  <2>2. Holding(out, out'[j])
    BY <2>1
  <2> QED
    BY <2>2 DEF Holding, Conserved
<1> QED
  BY <1>1, <1>2 DEF Conserved, Distinct, Holding, Positions

LEMMA ConservedFrom ==
    ASSUME Distinct(out'), \A j \in DOMAIN out' : out'[j] \notin lost',
           \A p \in Positions' : p < i' <=> p \in lost' \/ Holding(out', p)
    PROVE  Conserved'
  BY DEF Conserved, Distinct, Holding

LEMMA ConservedStep ==
    ASSUME TypeOK, TypeOK', Conserved, [Next]_vars
    PROVE  Conserved'
<1>d. Distinct(out)
  BY DEF Conserved, Distinct
<1>1. ASSUME NEW b \in Batches, Begin(b) PROVE Conserved'
  <2>1. out' = <<>> /\ i' = 1 /\ lost' = {}
    BY <1>1 DEF Begin
  <2>2. \A p \in Positions' : ~(p < i')
    BY <2>1 DEF Positions, TypeOK
  <2>3. Distinct(out') /\ \A p : ~Holding(out', p)
    BY <2>1 DEF Distinct, Holding
  <2> QED
    BY <2>1, <2>2, <2>3, ConservedFrom
<1>2. CASE Lose
  <2>1. /\ i \in Positions /\ out' = out /\ batch' = batch
        /\ i' = i + 1 /\ lost' = lost \cup {i}
    BY <1>2 DEF Lose, Visiting, TypeOK, Positions
  <2>2. i \in Nat /\ Positions \subseteq Nat /\ Positions' = Positions
    BY <2>1 DEF TypeOK, Positions
  <2>3. \A j \in DOMAIN out : out[j] # i
    BY <2>1, <2>2 DEF Conserved
  <2>4. \A p \in Positions : p < i + 1 <=> p < i \/ p = i
    BY <2>2
  <2>5. \A p \in Positions' : p < i' <=> p \in lost' \/ Holding(out', p)
    BY <2>1, <2>2, <2>4 DEF Conserved, Holding
  <2>6. \A j \in DOMAIN out' : out'[j] \notin lost'
    BY <2>1, <2>3 DEF Conserved
  <2>7. Distinct(out')
    BY <1>d, <2>1
  <2> QED
    BY <2>5, <2>6, <2>7, ConservedFrom
<1>3. CASE Keep
  <2>1. /\ i \in Positions /\ out' = Append(out, i) /\ batch' = batch
        /\ i' = i + 1 /\ lost' = lost
    BY <1>3 DEF Keep, Kept, Visiting, TypeOK, Positions
  <2>2. i \in Nat /\ Positions \subseteq Nat /\ Positions' = Positions
    BY <2>1 DEF TypeOK, Positions
  <2>3. i \notin lost /\ \A j \in DOMAIN out : out[j] # i
    BY <2>1, <2>2 DEF Conserved
  <2>4. \A p \in Positions : p < i + 1 <=> p < i \/ p = i
    BY <2>2
  <2>5. /\ Len(out) \in Nat
        /\ DOMAIN out = 1 .. Len(out) /\ DOMAIN out' = 1 .. Len(out) + 1
        /\ out'[Len(out) + 1] = i
        /\ \A j \in 1 .. Len(out) : out'[j] = out[j]
    BY <2>1 DEF TypeOK
  <2>6. \A j \in DOMAIN out' : j \in DOMAIN out \/ j = Len(out) + 1
    BY <2>5
  <2>7. DOMAIN out \subseteq DOMAIN out' /\ Len(out) + 1 \in DOMAIN out'
    BY <2>5
  <2>8. Distinct(out')
    BY <1>d, <2>3, <2>5, <2>6 DEF Distinct
  <2>9. \A p : Holding(out', p) <=> Holding(out, p) \/ p = i
    BY <2>5, <2>6, <2>7 DEF Holding
  <2>10. \A p \in Positions' : p < i' <=> p \in lost' \/ Holding(out', p)
    BY <2>1, <2>2, <2>4, <2>9 DEF Conserved, Holding
  <2>11. \A j \in DOMAIN out' : out'[j] \notin lost'
    BY <2>1, <2>3, <2>5, <2>6 DEF Conserved
  <2> QED
    BY <2>8, <2>10, <2>11, ConservedFrom
<1>4. CASE Reorder
  <2>1. CASE Swaps
    BY <1>4, <1>d, <2>1, SwapKeeps, SameHolding DEF Reorder, Swaps, Swapped, fates
  <2>2. CASE ~Swaps
    BY <1>4, <1>d, <2>2, SameHolding DEF Reorder, fates
  <2> QED
    BY <2>1, <2>2
<1>5. CASE Return
  <2>1. CASE imp_.delay_packets > 0 /\ out # <<>>
    <3>1. PICK d \in 0 .. Len(out) - 1 : out' = Rotated(out, d)
      BY <1>5, <2>1, Turn DEF Return
    <3>2. out \in Seq(Positions)
      BY DEF TypeOK
    <3>3. Distinct(out') /\ \A p : Holding(out', p) <=> Holding(out, p)
      BY <1>d, <2>1, <3>1, <3>2, RotationKeeps
    <3> QED
      BY <1>5, <3>3, SameHolding DEF Return, fates
  <2>2. CASE ~(imp_.delay_packets > 0 /\ out # <<>>)
    BY <1>5, <1>d, <2>2, SameHolding DEF Return, fates
  <2> QED
    BY <2>1, <2>2
<1>6. CASE LoopDone \/ UNCHANGED vars
  BY <1>6 DEF LoopDone, vars, fates, Conserved, Positions
<1> QED
  BY <1>1, <1>2, <1>3, <1>4, <1>5, <1>6 DEF Next

\* Every packet of a batch is passed on once or lost, whatever the size of the
\* batch and the settings (fronthaul.cpp:33-48).
THEOREM ConservedTheorem == Spec => []Conserved
<1>1. Init => Conserved
  <2> SUFFICES ASSUME Init PROVE Conserved
    OBVIOUS
  <2>1. Positions = {} /\ out = <<>>
    BY DEF Init, Positions
  <2> QED
    BY <2>1 DEF Conserved
<1>2. TypeOK /\ TypeOK' /\ Conserved /\ [Next]_vars => Conserved'
  BY ConservedStep
<1> QED
  BY <1>1, <1>2, FronthaulTyped, PTL DEF Spec

-----------------------------------------------------------------------------

\* What the loop makes of the first n packets, with the draws before each: the
\* settings decide, from the number of draws alone.
Drawn(st, k, p) == st[k % Period] < p

Lawful(m, st, n, empty, l, h, a) ==
    /\ Len(a) = n + 1 /\ a[1] = 0
    /\ l \subseteq 1 .. n /\ h \subseteq 1 .. n
    /\ \A p \in 1 .. n :
          /\ p \in l <=> Drawn(st, a[p], m.loss_prob)
          /\ p \notin empty => (p \in h <=> p \notin l /\ Drawn(st, a[p] + 1, m.corrupt_prob))
          /\ a[p + 1] = IF p \in l THEN a[p] + 1 ELSE a[p] + 2

LawfulRecord(m, st, r) == Lawful(m, st, r.size, r.empty, r.lost, r.hit, r.at)

FateInv ==
    /\ TypeOK
    /\ pc = "loop" => Lawful(imp_, stream, i - 1, batch.empty, lost, hit, at) /\ at[i] = drawn
    /\ pc \in {"swap", "rotate"} => Lawful(imp_, stream, batch.size, batch.empty, lost, hit, at)
    /\ \A n \in 1 .. Len(past) : LawfulRecord(imp_, stream, past[n])

\* One more packet.
LEMMA LawfulOneMore ==
    ASSUME NEW m, NEW st, NEW n \in Nat, NEW empty, NEW l, NEW h, NEW a \in Seq(Nat),
           Lawful(m, st, n, empty, l, h, a), NEW l2, NEW h2, NEW x \in Nat,
           l2 = l \/ l2 = l \cup {n + 1}, h2 = h \/ h2 = h \cup {n + 1},
           n + 1 \in l2 <=> Drawn(st, a[n + 1], m.loss_prob),
           n + 1 \notin empty =>
               (n + 1 \in h2 <=> n + 1 \notin l2 /\ Drawn(st, a[n + 1] + 1, m.corrupt_prob)),
           x = IF n + 1 \in l2 THEN a[n + 1] + 1 ELSE a[n + 1] + 2
    PROVE  Lawful(m, st, n + 1, empty, l2, h2, Append(a, x))
<1> DEFINE b == Append(a, x)
<1>1. /\ Len(a) = n + 1 /\ Len(b) = n + 2
      /\ b[n + 2] = x /\ \A p \in 1 .. n + 1 : b[p] = a[p]
  BY DEF Lawful
<1>2. l2 \subseteq 1 .. n + 1 /\ h2 \subseteq 1 .. n + 1
  <2>1. l \subseteq 1 .. n /\ h \subseteq 1 .. n
    BY DEF Lawful
  <2>2. 1 .. n \subseteq 1 .. n + 1 /\ n + 1 \in 1 .. n + 1
    OBVIOUS
  <2> QED
    BY <2>1, <2>2
<1>3. ASSUME NEW p \in 1 .. n + 1
      PROVE  /\ p \in l2 <=> Drawn(st, b[p], m.loss_prob)
             /\ p \notin empty =>
                   (p \in h2 <=> p \notin l2 /\ Drawn(st, b[p] + 1, m.corrupt_prob))
             /\ b[p + 1] = IF p \in l2 THEN b[p] + 1 ELSE b[p] + 2
  <2>1. CASE p = n + 1
    BY <1>1, <2>1
  <2>2. CASE p \in 1 .. n
    <3>1. b[p] = a[p] /\ b[p + 1] = a[p + 1] /\ (p \in l2 <=> p \in l) /\ (p \in h2 <=> p \in h)
      <4>1. p \in 1 .. n + 1 /\ p + 1 \in 1 .. n + 1 /\ p # n + 1
        BY <2>2
      <4>2. b[p] = a[p] /\ b[p + 1] = a[p + 1]
        BY <1>1, <4>1
      <4> QED
        BY <4>1, <4>2
    <3>2. /\ p \in l <=> Drawn(st, a[p], m.loss_prob)
          /\ p \notin empty =>
                (p \in h <=> p \notin l /\ Drawn(st, a[p] + 1, m.corrupt_prob))
          /\ a[p + 1] = IF p \in l THEN a[p] + 1 ELSE a[p] + 2
      BY <2>2 DEF Lawful
    <3>3. /\ p \in l2 <=> Drawn(st, b[p], m.loss_prob)
          /\ p \notin empty =>
                (p \in h2 <=> p \notin l2 /\ Drawn(st, b[p] + 1, m.corrupt_prob))
      BY <3>1, <3>2, Zenon
    <3>4. b[p + 1] = IF p \in l2 THEN b[p] + 1 ELSE b[p] + 2
      BY <3>1, <3>2
    <3> QED
      BY <3>3, <3>4
  <2>3. p = n + 1 \/ p \in 1 .. n
    OBVIOUS
  <2> QED
    BY <2>1, <2>2, <2>3, Zenon
<1>4. b[1] = 0
  BY <1>1 DEF Lawful
<1> HIDE DEF b
<1>5. Lawful(m, st, n + 1, empty, l2, h2, b)
  <2>1. Len(b) = (n + 1) + 1
    BY <1>1
  <2> QED
    BY <1>2, <1>3, <1>4, <2>1 DEF Lawful
<1> QED
  BY <1>5 DEF b

LEMMA FateInit == Init => FateInv
<1> SUFFICES ASSUME Init PROVE FateInv
  OBVIOUS
<1>1. TypeOK /\ Len(past) = 0 /\ pc = "idle"
  BY InitTyped DEF Init
<1> QED
  BY <1>1 DEF FateInv

LEMMA FateStep ==
    ASSUME FateInv, [Next]_vars
    PROVE  FateInv'
<1>t. TypeOK /\ TypeOK'
  BY StepTyped DEF FateInv
<1>s. imp_' = imp_ /\ stream' = stream
  BY DEF Next, Begin, Lose, Keep, LoopDone, Reorder, Return, vars, settings
<1>p. past' = past => \A n \in 1 .. Len(past') : LawfulRecord(imp_', stream', past'[n])
  BY <1>s DEF FateInv
<1>1. ASSUME NEW b \in Batches, Begin(b) PROVE FateInv'
  <2>1. /\ pc' = "loop" /\ i' = 1 /\ drawn' = 0 /\ lost' = {} /\ hit' = {} /\ at' = <<0>>
        /\ past' = past
    BY <1>1 DEF Begin
  <2>2. Lawful(imp_', stream', 0, batch'.empty, {}, {}, <<0>>)
    BY DEF Lawful
  <2>3. i' - 1 = 0 /\ at'[i'] = drawn'
    BY <2>1
  <2>4. Lawful(imp_', stream', i' - 1, batch'.empty, lost', hit', at')
    BY <2>1, <2>2, <2>3
  <2>5. pc' # "swap" /\ pc' # "rotate"
    BY <2>1
  <2> QED
    BY <1>p, <1>t, <2>1, <2>3, <2>4, <2>5 DEF FateInv
<1>2. CASE Lose \/ Keep
  <2>1. /\ pc = "loop" /\ pc' = "loop" /\ i \in Positions /\ batch' = batch
        /\ i' = i + 1 /\ past' = past /\ drawn \in Nat /\ drawn' \in Nat
        /\ at' = Append(at, drawn')
    <3>1. drawn \in Nat /\ drawn' \in Nat
      BY <1>t DEF TypeOK
    <3>2. CASE Lose
      BY <1>t, <3>1, <3>2 DEF Lose, Visiting, TypeOK, Positions
    <3>3. CASE Keep
      BY <1>t, <3>1, <3>3 DEF Keep, Visiting, TypeOK, Positions
    <3> QED
      BY <1>2, <3>2, <3>3
  <2>2. Lawful(imp_, stream, i - 1, batch.empty, lost, hit, at) /\ at[i] = drawn /\ at \in Seq(Nat)
    BY <2>1 DEF FateInv, TypeOK
  <2>3. PICK n \in Nat : n = i - 1
    BY <2>1 DEF Positions
  <2>4. n + 1 = i /\ i \in Nat /\ i - 1 = n /\ i + 1 - 1 = n + 1
    BY <2>1, <2>3 DEF Positions
  <2>5. lost \subseteq 1 .. n
    BY <2>2, <2>3 DEF Lawful
  <2>6. i \notin lost
    BY <2>4, <2>5
  <2>7. /\ lost' = lost \/ lost' = lost \cup {i}
        /\ hit' = hit \/ hit' = hit \cup {i}
        /\ i \in lost' <=> Drawn(stream, drawn, imp_.loss_prob)
        /\ drawn' = IF i \in lost' THEN drawn + 1 ELSE drawn + 2
    BY <1>2, <2>6 DEF Lose, Keep, Success, Drawn
  <2>8. i \notin batch.empty =>
           (i \in hit' <=> i \notin lost' /\ Drawn(stream, drawn + 1, imp_.corrupt_prob))
    <3>1. hit \subseteq 1 .. n
      BY <2>2, <2>3 DEF Lawful
    <3>2. i \notin hit
      BY <2>4, <3>1
    <3> QED
      BY <1>2, <2>6, <3>2 DEF Lose, Keep, Corrupted, Success, Drawn
  <2>9. Lawful(imp_, stream, n + 1, batch.empty, lost', hit', at')
    <3>1. /\ at \in Seq(Nat) /\ at[n + 1] = drawn /\ at' = Append(at, drawn') /\ drawn' \in Nat
          /\ Lawful(imp_, stream, n, batch.empty, lost, hit, at)
      BY <2>1, <2>2, <2>4
    <3>2. /\ lost' = lost \/ lost' = lost \cup {n + 1}
          /\ hit' = hit \/ hit' = hit \cup {n + 1}
          /\ n + 1 \in lost' <=> Drawn(stream, at[n + 1], imp_.loss_prob)
          /\ drawn' = IF n + 1 \in lost' THEN at[n + 1] + 1 ELSE at[n + 1] + 2
      BY <2>4, <2>7, <3>1
    <3>3. n + 1 \notin batch.empty =>
            (n + 1 \in hit' <=> n + 1 \notin lost' /\ Drawn(stream, at[n + 1] + 1, imp_.corrupt_prob))
      BY <2>4, <2>8, <3>1
    <3> QED
      BY <3>1, <3>2, <3>3, LawfulOneMore
  <2>10. at'[i'] = drawn'
    <3>1. Len(at) = n + 1
      BY <2>2, <2>3 DEF Lawful
    <3> QED
      BY <2>1, <2>2, <2>4, <3>1
  <2>11. i' - 1 = n + 1
    BY <2>1, <2>4
  <2> QED
    BY <1>p, <1>s, <1>t, <2>1, <2>9, <2>10, <2>11 DEF FateInv
<1>3. CASE LoopDone
  <2>1. /\ pc = "loop" /\ pc' = "swap" /\ i - 1 = batch.size /\ batch' = batch
        /\ lost' = lost /\ hit' = hit /\ at' = at /\ past' = past
    BY <1>3, <1>t DEF LoopDone, TypeOK, fates
  <2>2. Lawful(imp_, stream, batch.size, batch.empty, lost, hit, at)
    BY <2>1 DEF FateInv
  <2> QED
    BY <1>p, <1>s, <1>t, <2>1, <2>2 DEF FateInv
<1>4. CASE Reorder
  <2>1. /\ pc = "swap" /\ pc' = "rotate" /\ batch' = batch
        /\ lost' = lost /\ hit' = hit /\ at' = at /\ past' = past
    BY <1>4 DEF Reorder, fates
  <2>2. Lawful(imp_, stream, batch.size, batch.empty, lost, hit, at)
    BY <2>1 DEF FateInv
  <2> QED
    BY <1>p, <1>s, <1>t, <2>1, <2>2 DEF FateInv
<1>5. CASE Return
  <2>1. pc = "rotate" /\ pc' = "idle" /\ past' = Append(past, Fate)
    BY <1>5 DEF Return
  <2>2. LawfulRecord(imp_, stream, Fate)
    BY <2>1 DEF FateInv, LawfulRecord, Fate
  <2>3. /\ Len(past) \in Nat /\ Len(past') = Len(past) + 1 /\ past'[Len(past) + 1] = Fate
        /\ \A n \in 1 .. Len(past) : past'[n] = past[n]
    BY <1>t, <2>1 DEF TypeOK
  <2>4. ASSUME NEW n \in 1 .. Len(past') PROVE LawfulRecord(imp_, stream, past'[n])
    <3>1. n \in 1 .. Len(past) \/ n = Len(past) + 1
      BY <2>3
    <3> QED
      BY <2>2, <2>3, <3>1 DEF FateInv
  <2> QED
    BY <1>s, <1>t, <2>1, <2>4 DEF FateInv
<1>6. CASE UNCHANGED vars
  <2>1. /\ pc' = pc /\ i' = i /\ drawn' = drawn /\ batch' = batch /\ lost' = lost
        /\ hit' = hit /\ at' = at /\ past' = past
    BY <1>6 DEF vars, fates
  <2> QED
    BY <1>p, <1>s, <1>t, <2>1 DEF FateInv
<1> QED
  BY <1>1, <1>2, <1>3, <1>4, <1>5, <1>6 DEF Next

\* Two lawful records agree on the draws, and so on the fate, of a packet. The
\* least packet on whose draws they differ would have one before it.
LEMMA SameFate ==
    ASSUME NEW m, NEW st, NEW r, NEW t,
           r.size \in Nat, t.size \in Nat,
           LawfulRecord(m, st, r), LawfulRecord(m, st, t),
           NEW p \in 1 .. r.size, p <= t.size
    PROVE  r.at[p] = t.at[p]
<1> DEFINE D == {q \in 1 .. r.size : q <= t.size /\ r.at[q] # t.at[q]}
<1>1. SUFFICES ASSUME D # {} PROVE FALSE
  OBVIOUS
<1>2. PICK q \in D : \A s \in D : ~(s < q)
  <2>1. D \subseteq Nat
    OBVIOUS
  <2> HIDE DEF D
  <2>2. PICK q \in D : \A s \in D : q <= s
    BY <1>1, <2>1, LeastNat
  <2> QED
    BY <2>1, <2>2
<1>3. q # 1
  BY <1>2 DEF LawfulRecord, Lawful
<1>4. PICK s \in 1 .. r.size : s + 1 = q
  <2>1. q - 1 \in 1 .. r.size /\ (q - 1) + 1 = q
    BY <1>2, <1>3
  <2> QED
    BY <2>1
<1>5. s \in 1 .. t.size /\ r.at[s] = t.at[s]
  BY <1>2, <1>4
<1>6. s \in r.lost <=> s \in t.lost
  <2>1. s \in r.lost <=> Drawn(st, r.at[s], m.loss_prob)
    BY <1>4 DEF LawfulRecord, Lawful
  <2>2. s \in t.lost <=> Drawn(st, t.at[s], m.loss_prob)
    BY <1>5 DEF LawfulRecord, Lawful
  <2> QED
    BY <1>5, <2>1, <2>2
<1>7. r.at[s + 1] = t.at[s + 1]
  BY <1>4, <1>5, <1>6 DEF LawfulRecord, Lawful
<1> QED
  BY <1>2, <1>4, <1>7

\* Whatever the call, the fate of a position of a batch is the same
\* (fronthaul.cpp:29, 33-40).
THEOREM FateTheorem == Spec => []FateRepeats
<1>1. FateInv => FateRepeats
  <2> SUFFICES ASSUME FateInv, NEW a \in 1 .. Len(past), NEW b \in 1 .. Len(past),
                      NEW p \in 1 .. past[a].size, p <= past[b].size
               PROVE  /\ p \in past[a].lost <=> p \in past[b].lost
                      /\ p \notin past[a].empty \cup past[b].empty =>
                             (p \in past[a].hit <=> p \in past[b].hit)
    BY DEF FateRepeats
  <2>1. /\ past[a].size \in Nat /\ past[b].size \in Nat
        /\ LawfulRecord(imp_, stream, past[a]) /\ LawfulRecord(imp_, stream, past[b])
    <3>1. past[a] \in FateType /\ past[b] \in FateType
      BY DEF FateInv, TypeOK
    <3> QED
      BY <3>1 DEF FateInv, FateType
  <2>2. past[a].at[p] = past[b].at[p]
    BY <2>1, SameFate
  <2>3. p \in 1 .. past[b].size
    BY <2>1
  <2>4. /\ p \in past[a].lost <=> Drawn(stream, past[a].at[p], imp_.loss_prob)
        /\ p \notin past[a].empty =>
              (p \in past[a].hit <=>
                  p \notin past[a].lost /\ Drawn(stream, past[a].at[p] + 1, imp_.corrupt_prob))
    BY <2>1 DEF LawfulRecord, Lawful
  <2>5. /\ p \in past[b].lost <=> Drawn(stream, past[b].at[p], imp_.loss_prob)
        /\ p \notin past[b].empty =>
              (p \in past[b].hit <=>
                  p \notin past[b].lost /\ Drawn(stream, past[b].at[p] + 1, imp_.corrupt_prob))
    BY <2>1, <2>3 DEF LawfulRecord, Lawful
  <2> QED
    BY <2>2, <2>4, <2>5, Zenon
<1>2. FateInv /\ [Next]_vars => FateInv'
  BY FateStep
<1> QED
  BY <1>1, <1>2, FateInit, PTL DEF Spec

-----------------------------------------------------------------------------

(***************************************************************************)
(* The runs a receiver sees. A batch is looked at as a circle, the first    *)
(* packet after the last: a rotation does not change where the circle falls *)
(* except for the names of the places, and opening the circle loses falls   *)
(* but makes none.                                                          *)
(***************************************************************************)

After(s, j) == IF j = Len(s) THEN 1 ELSE j + 1

\* The circle falls at no place but a and b.
FallsAt(s, a, b) == \A j \in 1 .. Len(s) : s[j] > s[After(s, j)] => j = a \/ j = b

Ascending(s) == \A j, k \in 1 .. Len(s) : j < k => s[j] < s[k]

LEMMA FewDescents ==
    ASSUME NEW s, NEW a, NEW b, Descents(s) \subseteq {a, b}
    PROVE  Cardinality(Descents(s)) <= 2 /\ (a = b => Cardinality(Descents(s)) <= 1)
<1>1. IsFiniteSet({a}) /\ Cardinality({a}) = 1
  BY FS_Singleton
<1>2. IsFiniteSet({a, b}) /\ Cardinality({a, b}) \in Nat /\ Cardinality({a, b}) <= 2
  <2>1. {a, b} = {a} \cup {b}
    OBVIOUS
  <2>2. IsFiniteSet({a} \cup {b})
        /\ (Cardinality({a} \cup {b}) = 1 \/ Cardinality({a} \cup {b}) = 1 + 1)
    <3>1. CASE b \in {a}
      <4>1. {a} \cup {b} = {a}
        BY <3>1
      <4> QED
        BY <1>1, <4>1
    <3>2. CASE b \notin {a}
      BY <1>1, <3>2, FS_AddElement
    <3> QED
      BY <3>1, <3>2
  <2> QED
    BY <2>1, <2>2
<1>3. Cardinality(Descents(s)) \in Nat /\ Cardinality(Descents(s)) <= Cardinality({a, b})
  BY <1>2, FS_Subset, FS_CardinalityType
<1>4. a = b => {a, b} = {a}
  OBVIOUS
<1> QED
  BY <1>1, <1>2, <1>3, <1>4

LEMMA AscendingFalls ==
    ASSUME NEW S, S \subseteq Nat, NEW s \in Seq(S), Ascending(s)
    PROVE  Descents(s) = {} /\ FallsAt(s, Len(s), Len(s))
<1>1. Len(s) \in Nat /\ \A j \in 1 .. Len(s) : s[j] \in Nat
  <2>1. Len(s) \in Nat
    OBVIOUS
  <2>2. ASSUME NEW j \in 1 .. Len(s) PROVE s[j] \in Nat
    <3>1. s[j] \in S
      OBVIOUS
    <3> QED
      BY <3>1
  <2> QED
    BY <2>1, <2>2
<1>2. ASSUME NEW j \in 1 .. Len(s) - 1 PROVE ~(s[j] > s[j + 1])
  <2>1. j \in 1 .. Len(s) /\ j + 1 \in 1 .. Len(s) /\ j < j + 1
    BY <1>1
  <2>2. s[j] < s[j + 1] /\ s[j] \in Nat /\ s[j + 1] \in Nat
    BY <1>1, <2>1 DEF Ascending
  <2> QED
    BY <2>2
<1>3. \A j \in 1 .. Len(s) : j # Len(s) => j \in 1 .. Len(s) - 1
  BY <1>1
<1> QED
  BY <1>2, <1>3 DEF Descents, FallsAt, After

\* An open batch descends only where its circle falls.
LEMMA TypedFalls ==
    ASSUME NEW S, NEW s \in Seq(S), NEW a, NEW b, FallsAt(s, a, b)
    PROVE  Descents(s) \subseteq {a, b}
<1>1. Len(s) \in Nat
  OBVIOUS
<1>2. ASSUME NEW j \in Descents(s) PROVE j = a \/ j = b
  <2>1. j \in 1 .. Len(s) - 1 /\ s[j] > s[j + 1]
    BY DEF Descents
  <2>2. j \in 1 .. Len(s) /\ After(s, j) = j + 1
    BY <1>1, <2>1 DEF After
  <2> QED
    BY <2>1, <2>2 DEF FallsAt
<1> QED
  BY <1>2

\* Exchanging the ends of an ascending batch makes it fall behind the first place and
\* before the last; from the last to the first it rises.
LEMMA SwappedFalls ==
    ASSUME TypeOK, Len(out) >= 2, Ascending(out)
    PROVE  FallsAt(Swapped, 1, Len(Swapped) - 1)
<1>n. PICK n \in Nat : n = Len(out) /\ n >= 2
  BY DEF TypeOK
<1>1. /\ Len(Swapped) = n /\ Swapped[1] = out[n] /\ Swapped[n] = out[1]
      /\ \A j \in 2 .. n - 1 : Swapped[j] = out[j]
      /\ \A j \in 1 .. n : out[j] \in Nat
  <2>1. \A j \in 1 .. n : out[j] \in Positions /\ out[j] \in Nat
    BY <1>n DEF TypeOK, Positions
  <2>2. DOMAIN out = 1 .. n /\ out \in Seq(Positions)
    BY <1>n DEF TypeOK
  <2>3. Swapped = [j \in 1 .. n |-> IF j = n THEN out[1] ELSE IF j = 1 THEN out[n] ELSE out[j]]
    BY <1>n, <2>2 DEF Swapped
  <2>4. Len(Swapped) = n
    BY <1>n, SwappedTyped
  <2>5. 1 \in 1 .. n /\ n \in 1 .. n /\ n # 1 /\ \A j \in 2 .. n - 1 : j \in 1 .. n /\ j # 1 /\ j # n
    BY <1>n
  <2> QED
    BY <2>1, <2>3, <2>4, <2>5
<1>2. \A j, k \in 1 .. n : j < k => out[j] < out[k]
  BY <1>n DEF Ascending
<1> SUFFICES ASSUME NEW j \in 1 .. n, j # 1, j # n - 1
             PROVE  ~(Swapped[j] > Swapped[After(Swapped, j)])
  BY <1>1 DEF FallsAt
<1>3. CASE j = n
  <2>1. After(Swapped, j) = 1 /\ 1 \in 1 .. n /\ n \in 1 .. n /\ 1 < n
    BY <1>n, <1>1, <1>3 DEF After
  <2>2. out[1] < out[n] /\ out[1] \in Nat /\ out[n] \in Nat
    BY <1>1, <1>2, <2>1
  <2> QED
    BY <1>1, <1>3, <2>1, <2>2
<1>4. CASE j # n
  <2>1. /\ After(Swapped, j) = j + 1 /\ j \in 2 .. n - 1 /\ j + 1 \in 2 .. n - 1
        /\ j + 1 \in 1 .. n /\ j < j + 1
    BY <1>n, <1>1, <1>4 DEF After
  <2>2. out[j] < out[j + 1] /\ out[j] \in Nat /\ out[j + 1] \in Nat
    BY <1>1, <1>2, <2>1
  <2> QED
    BY <1>1, <2>1, <2>2
<1> QED
  BY <1>3, <1>4

\* A rotation falls where the circle does.
LEMMA RotatedFalls ==
    ASSUME NEW S, NEW s \in Seq(S), s # <<>>, NEW d \in 0 .. Len(s) - 1,
           NEW a, NEW b, FallsAt(s, a, b)
    PROVE  \E x, y : Descents(Rotated(s, d)) \subseteq {x, y} /\ (a = b => x = y)
<1> DEFINE back(k) == IF k > d THEN k - d ELSE k - d + Len(s)
<1>n. PICK n \in Nat \ {0} : n = Len(s)
  OBVIOUS
<1>1. ASSUME NEW j \in Descents(Rotated(s, d))
      PROVE  j = back(a) \/ j = back(b)
  <2>1. /\ Len(Rotated(s, d)) = n
        /\ \A k \in 1 .. n : Rotated(s, d)[k] = s[IF k + d <= n THEN k + d ELSE k + d - n]
    BY <1>n, RotatedAt
  <2>2. j \in 1 .. n - 1 /\ Rotated(s, d)[j] > Rotated(s, d)[j + 1]
    BY <2>1 DEF Descents
  <2>3. PICK k \in 1 .. n : k = IF j + d <= n THEN j + d ELSE j + d - n
    <3>1. (IF j + d <= n THEN j + d ELSE j + d - n) \in 1 .. n
      BY <1>n, <2>2
    <3> QED
      BY <3>1
  <2>4. After(s, k) = IF (j + 1) + d <= n THEN (j + 1) + d ELSE (j + 1) + d - n
    BY <1>n, <2>2, <2>3 DEF After
  <2>5. j \in 1 .. n /\ j + 1 \in 1 .. n
    BY <1>n, <2>2
  <2>6. Rotated(s, d)[j] = s[k] /\ Rotated(s, d)[j + 1] = s[After(s, k)]
    BY <2>1, <2>3, <2>4, <2>5
  <2>7. k = a \/ k = b
    BY <1>n, <2>2, <2>6 DEF FallsAt
  <2>8. j = back(k)
    BY <1>n, <2>2, <2>3
  <2> QED
    BY <2>7, <2>8
<1> HIDE DEF back
<1>2. Descents(Rotated(s, d)) \subseteq {back(a), back(b)} /\ (a = b => back(a) = back(b))
  BY <1>1
<1> QED
  BY <1>2

RunsInv ==
    /\ FewRuns
    /\ pc \in {"loop", "swap"} => Ascending(out)
    /\ pc = "rotate" =>
          \/ Ascending(out)
          \/ imp_.reorder_prob > 0 /\ FallsAt(out, 1, Len(out) - 1)

\* An ascending batch is one run, whatever the settings.
LEMMA OneRun ==
    ASSUME TypeOK, Ascending(out)
    PROVE  FewRuns
<1>1. Positions \subseteq Nat /\ out \in Seq(Positions)
  BY DEF TypeOK, Positions
<1>2. Descents(out) = {}
  BY <1>1, AscendingFalls
<1> QED
  BY <1>2, FS_EmptySet DEF FewRuns

LEMMA RunsStep ==
    ASSUME TypeOK, TypeOK', Conserved, RunsInv, [Next]_vars
    PROVE  RunsInv'
<1>s. imp_' = imp_
  BY DEF Next, Begin, Lose, Keep, LoopDone, Reorder, Return, vars, settings
<1>o. Ascending(out)' => FewRuns'
  <2> SUFFICES ASSUME Ascending(out)' PROVE FewRuns'
    OBVIOUS
  <2>1. Positions' \subseteq Nat /\ out' \in Seq(Positions')
    BY DEF TypeOK, Positions
  <2>2. Descents(out') = {}
    BY <2>1, AscendingFalls
  <2> QED
    BY <2>2, FS_EmptySet DEF FewRuns
<1>1. ASSUME NEW b \in Batches, Begin(b) PROVE RunsInv'
  <2>1. out' = <<>> /\ pc' = "loop"
    BY <1>1 DEF Begin
  <2>2. Ascending(out)'
    BY <2>1 DEF Ascending
  <2> QED
    BY <1>o, <2>1, <2>2 DEF RunsInv
<1>2. CASE Lose \/ LoopDone
  <2>1. out' = out /\ pc = "loop" /\ pc' \in {"loop", "swap"}
    BY <1>2 DEF Lose, LoopDone, Visiting
  <2>2. Ascending(out)'
    BY <2>1 DEF RunsInv
  <2> QED
    BY <1>o, <2>1, <2>2 DEF RunsInv
<1>3. CASE Keep
  <2>1. /\ i \in Positions /\ out' = Append(out, i) /\ pc = "loop" /\ pc' = "loop"
        /\ out \in Seq(Positions) /\ Positions \subseteq Nat
    BY <1>3 DEF Keep, Kept, Visiting, TypeOK, Positions
  <2>2. ASSUME NEW j \in 1 .. Len(out) PROVE out[j] < i
    <3>1. out[j] \in Positions /\ j \in DOMAIN out
      BY <2>1
    <3> QED
      BY <3>1 DEF Conserved
  <2>3. PICK n \in Nat : n = Len(out)
    BY <2>1
  <2>4. /\ Len(out') = n + 1 /\ out'[n + 1] = i
        /\ \A j \in 1 .. n : out'[j] = out[j]
    BY <2>1, <2>3
  <2>5. ASSUME NEW j \in 1 .. n + 1, NEW k \in 1 .. n + 1, j < k
        PROVE  out'[j] < out'[k]
    <3>1. j \in 1 .. n
      BY <2>5
    <3>2. CASE k = n + 1
      BY <2>2, <2>3, <2>4, <3>1, <3>2
    <3>3. CASE k # n + 1
      <4>1. k \in 1 .. n
        BY <3>3
      <4> QED
        BY <2>1, <2>3, <2>4, <2>5, <3>1, <4>1 DEF RunsInv, Ascending
    <3> QED
      BY <3>2, <3>3
  <2>6. Ascending(out)'
    BY <2>4, <2>5 DEF Ascending
  <2> QED
    BY <1>o, <2>1, <2>6 DEF RunsInv
<1>4. CASE Reorder
  <2>1. pc = "swap" /\ pc' = "rotate" /\ Ascending(out)
    BY <1>4 DEF Reorder, RunsInv
  <2>2. CASE ~Swaps
    BY <1>4, <1>o, <2>1, <2>2 DEF Reorder, RunsInv
  <2>3. CASE Swaps
    <3>1. out' = Swapped /\ Len(out) >= 2 /\ imp_.reorder_prob > 0
      BY <1>4, <2>3 DEF Reorder, Swaps, Swapped
    <3>2. FallsAt(out, 1, Len(out) - 1)'
      BY <2>1, <3>1, SwappedFalls
    <3>3. Descents(out') \subseteq {1, Len(out') - 1}
      BY <3>2, TypedFalls DEF TypeOK
    <3>4. FewRuns'
      BY <1>s, <3>1, <3>3, FewDescents DEF FewRuns
    <3> QED
      BY <1>s, <2>1, <3>1, <3>2, <3>4 DEF RunsInv
  <2> QED
    BY <2>2, <2>3
<1>5. CASE Return
  <2>1. pc = "rotate" /\ pc' = "idle" /\ out \in Seq(Positions) /\ Positions \subseteq Nat
    BY <1>5 DEF Return, TypeOK, Positions
  <2>2. CASE ~(imp_.delay_packets > 0 /\ out # <<>>)
    BY <1>5, <1>s, <2>1, <2>2 DEF Return, RunsInv, FewRuns
  <2>3. CASE imp_.delay_packets > 0 /\ out # <<>>
    <3>1. PICK d \in 0 .. Len(out) - 1 : out' = Rotated(out, d)
      BY <1>5, <2>3, Turn DEF Return
    <3>2. CASE Ascending(out)
      <4>1. FallsAt(out, Len(out), Len(out))
        BY <2>1, <3>2, AscendingFalls
      <4>2. PICK x, y : Descents(out') \subseteq {x, y} /\ x = y
        BY <2>1, <2>3, <3>1, <4>1, RotatedFalls
      <4>3. Cardinality(Descents(out')) <= 1 /\ Cardinality(Descents(out')) <= 2
        BY <4>2, FewDescents
      <4>4. FewRuns'
        BY <1>s, <2>3, <4>3 DEF FewRuns
      <4> QED
        BY <2>1, <4>4 DEF RunsInv
    <3>3. CASE imp_.reorder_prob > 0 /\ FallsAt(out, 1, Len(out) - 1)
      <4>1. PICK x, y : Descents(out') \subseteq {x, y}
        BY <2>1, <2>3, <3>1, <3>3, RotatedFalls
      <4>2. Cardinality(Descents(out')) <= 2
        BY <4>1, FewDescents
      <4>3. FewRuns'
        BY <1>s, <3>3, <4>2 DEF FewRuns
      <4> QED
        BY <2>1, <4>3 DEF RunsInv
    <3> QED
      BY <2>1, <3>2, <3>3 DEF RunsInv
  <2> QED
    BY <2>2, <2>3
<1>6. CASE UNCHANGED vars
  <2>1. pc' = pc /\ out' = out
    BY <1>6 DEF vars
  <2> QED
    BY <1>s, <2>1 DEF RunsInv, FewRuns
<1> QED
  BY <1>1, <1>2, <1>3, <1>4, <1>5, <1>6 DEF Next

\* Whatever the batch, the losses and the delay: a receiver sees at most two ascending
\* runs from a rotation and three from a swap, rotated or not; the swap and the
\* rotation do not add up to a fourth (fronthaul.cpp:41-48).
THEOREM RunsTheorem == Spec => []FewRuns
<1>1. Init => RunsInv
  <2> SUFFICES ASSUME Init PROVE RunsInv
    OBVIOUS
  <2>1. TypeOK /\ out = <<>> /\ pc = "idle"
    BY InitTyped DEF Init
  <2>2. Ascending(out)
    BY <2>1 DEF Ascending
  <2> QED
    BY <2>1, <2>2, OneRun DEF RunsInv
<1>2. TypeOK /\ TypeOK' /\ Conserved /\ RunsInv /\ [Next]_vars => RunsInv'
  BY RunsStep
<1>3. RunsInv => FewRuns
  BY DEF RunsInv
<1> QED
  BY <1>1, <1>2, <1>3, FronthaulTyped, ConservedTheorem, PTL DEF Spec

-----------------------------------------------------------------------------
(* The supervisor gate.                                                    *)

\* The commands of a run at which its tests have passed, its programs have been
\* built, and run; and at which its reports are its own.
Tested == {"targets", "programs", "phy", "cuda", "gate4", "emit", "gate6", "summary"}
Built == Tested \ {"targets"}
Ran == Built \ {"programs"}
PhyReported == Ran \ {"phy"}
GpuReported == {"gate6", "summary"}

\* A run that began with committed sources and no binary of others, and beside which
\* nobody has edited, works on the one version there is.
CleanInv ==
    command # "idle" /\ seen.clean = TRUE =>
        /\ tree = head /\ tests \in {NONE, tree}
        /\ command \in Tested => seen.tested = tree
        /\ command \in Built => programs = tree
        /\ command \in Ran => seen.ran = tree

ReportInv ==
    /\ command \in PhyReported => phy.run = run /\ phy.status # "FAIL"
    /\ command \in GpuReported => blocked.run = run /\ blocked.gate = "supervisor-cpu-gate"

GateInv ==
    /\ tree \in Nat \ {NONE} /\ NONE \notin good
    /\ seen \in [tested : Int, ran : Int, clean : BOOLEAN]
    /\ tests \in Int /\ programs \in Int
    /\ command \in Tested => seen.tested \in good
    /\ CleanInv
    /\ ReportInv
    /\ PassIsHonest

LEMMA GateStart == GateInit => GateInv
  BY DEF GateInit, GateInv, CleanInv, ReportInv, PassIsHonest, Unseen, NONE, Tested,
         PhyReported, GpuReported, Ran, Built

LEMMA GateStep ==
    ASSUME GateInv, [GateNext]_gateVars
    PROVE  GateInv'
<1> USE DEF NONE, sources, machine, binaries, results
<1>1. CASE BeginRun
  <2>1. PICK clean \in BOOLEAN : clean = (tree = head /\ tests \in {NONE, tree})
    OBVIOUS
  <2>2. seen' = [Unseen EXCEPT !.clean = clean]
    BY <1>1, <2>1, Zenon DEF BeginRun
  <2>3. clean = TRUE => tree = head /\ tests \in {NONE, tree}
    BY <2>1, Zenon
  <2>4. /\ seen' \in [tested : Int, ran : Int, clean : BOOLEAN]
        /\ seen'.clean = TRUE => tree = head /\ tests \in {NONE, tree}
    BY <2>2, <2>3 DEF Unseen
  <2> QED
    BY <1>1, <2>4 DEF GateInv, BeginRun, CleanInv, ReportInv, PassIsHonest, TestsPassed,
       OwnEvidence, NamesTested, Tested, PhyReported, GpuReported, Ran, Built
<1>2. CASE Stop
  BY <1>2 DEF GateInv, Stop, CleanInv, ReportInv, PassIsHonest, TestsPassed,
     OwnEvidence, NamesTested, Tested, PhyReported, GpuReported, Ran, Built
<1>3. CASE ValidateClaims \/ Reuse \/ Build \/ BuildFails
  BY <1>3 DEF GateInv, ValidateClaims, Reuse, Build, BuildFails, At, CleanInv, ReportInv,
     PassIsHonest, TestsPassed, OwnEvidence, NamesTested, Tested, PhyReported, GpuReported,
     Ran, Built
<1>4. CASE Ctest
  <2>1. /\ seen' \in [tested : Int, ran : Int, clean : BOOLEAN]
        /\ seen'.tested = tests /\ seen'.clean = seen.clean
    BY <1>4 DEF GateInv, Ctest
  <2>2. command = "ctest" /\ command' = "targets" /\ tests \in good /\ UNCHANGED sources
    BY <1>4 DEF Ctest, At
  <2>3. CleanInv'
    <3>1. command' \notin Built /\ command' \notin Ran /\ command \notin Tested
      BY <2>2 DEF Tested, Built, Ran
    <3> QED
      BY <1>4, <2>1, <2>2, <3>1 DEF GateInv, Ctest, CleanInv
  <2>4. ReportInv'
    BY <2>2 DEF ReportInv, PhyReported, GpuReported, Ran, Built, Tested
  <2>5. PassIsHonest'
    BY <1>4, <2>2 DEF GateInv, Ctest, PassIsHonest, TestsPassed, OwnEvidence, NamesTested
  <2> QED
    BY <1>4, <2>1, <2>2, <2>3, <2>4, <2>5 DEF GateInv, Ctest
<1>5. CASE BuildTargets
  BY <1>5 DEF GateInv, BuildTargets, At, CleanInv, ReportInv, PassIsHonest, TestsPassed,
     OwnEvidence, NamesTested, Tested, PhyReported, GpuReported, Ran, Built
<1>6. CASE RunPrograms
  <2>1. /\ seen' \in [tested : Int, ran : Int, clean : BOOLEAN]
        /\ seen'.tested = seen.tested /\ seen'.clean = seen.clean /\ seen'.ran = programs
    BY <1>6 DEF GateInv, RunPrograms
  <2> QED
    BY <1>6, <2>1 DEF GateInv, RunPrograms, At, CleanInv, ReportInv, PassIsHonest, TestsPassed,
       OwnEvidence, NamesTested, Tested, PhyReported, GpuReported, Ran, Built
<1>7. CASE ValidatePhy
  <2>1. command' = "cuda" => phy'.run = run /\ phy'.status # "FAIL"
    BY <1>7 DEF ValidatePhy, At, Phy
  <2> QED
    BY <1>7, <2>1 DEF GateInv, ValidatePhy, At, CleanInv, ReportInv, PassIsHonest, TestsPassed,
       OwnEvidence, NamesTested, Tested, PhyReported, GpuReported, Ran, Built
<1>8. CASE CudaEquivalence \/ Gate4Gpu
  BY <1>8 DEF GateInv, CudaEquivalence, Gate4Gpu, At, CleanInv, ReportInv, PassIsHonest,
     TestsPassed, OwnEvidence, NamesTested, Tested, PhyReported, GpuReported, Ran, Built
<1>9. CASE EmitBlocked
  <2>1. blocked'.run = run /\ blocked'.gate = "supervisor-cpu-gate"
    BY <1>9 DEF EmitBlocked, Blocked
  <2> QED
    BY <1>9, <2>1 DEF GateInv, EmitBlocked, At, CleanInv, ReportInv, PassIsHonest, TestsPassed,
       OwnEvidence, NamesTested, Tested, PhyReported, GpuReported, Ran, Built
<1>10. CASE Gate6Report
  BY <1>10 DEF GateInv, Gate6Report, At, CleanInv, ReportInv, PassIsHonest, TestsPassed,
     OwnEvidence, NamesTested, Tested, PhyReported, GpuReported, Ran, Built
<1>11. CASE Publish
  <2>1. /\ summary'.seen = seen /\ summary'.commit = head /\ summary'.run = run
        /\ summary'.phy = phy /\ summary'.gpu = blocked
    BY <1>11 DEF Publish
  <2>2. PassIsHonest'
    BY <1>11, <2>1 DEF GateInv, Publish, At, CleanInv, ReportInv, PassIsHonest, TestsPassed,
       OwnEvidence, NamesTested, Tested, PhyReported, GpuReported, Ran, Built
  <2> QED
    BY <1>11, <2>2 DEF GateInv, Publish, At, CleanInv, ReportInv, Tested, PhyReported,
       GpuReported, Ran, Built
<1>12. CASE Edit
  <2>1. /\ seen' \in [tested : Int, ran : Int, clean : BOOLEAN]
        /\ seen'.tested = seen.tested /\ seen'.clean = FALSE
    BY <1>12 DEF GateInv, Edit
  <2>2. tree' \in Nat \ {NONE} /\ NONE \notin good' /\ good \subseteq good'
    BY <1>12 DEF GateInv, Edit
  <2> QED
    BY <1>12, <2>1, <2>2 DEF GateInv, Edit, CleanInv, ReportInv, PassIsHonest, TestsPassed,
       OwnEvidence, NamesTested
<1>13. CASE Commit
  BY <1>13 DEF GateInv, Commit, CleanInv, ReportInv, PassIsHonest, TestsPassed,
     OwnEvidence, NamesTested
<1>14. CASE Bootstrap \/ OtherTargets
  BY <1>14 DEF GateInv, Bootstrap, OtherTargets, CleanInv, ReportInv, PassIsHonest, TestsPassed,
     OwnEvidence, NamesTested, Tested, PhyReported, GpuReported, Ran, Built
<1>15. CASE UNCHANGED gateVars
  BY <1>15 DEF GateInv, gateVars, CleanInv, ReportInv, PassIsHonest, TestsPassed,
     OwnEvidence, NamesTested
<1> QED
  BY <1>1, <1>2, <1>3, <1>4, <1>5, <1>6, <1>7, <1>8, <1>9, <1>10, <1>11, <1>12, <1>13,
     <1>14, <1>15 DEF GateNext, Gate

\* However many runs there are, wherever they stop and whatever goes on beside them, a
\* published CPU_PASS rests on tests that passed and reports of its own run, and
\* after a clean run it names the commit that was tested (supervisor_cpu_gate.sh).
THEOREM HonestTheorem == GateSpec => []PassIsHonest
<1>1. GateInv => PassIsHonest
  BY DEF GateInv
<1> QED
  BY <1>1, GateStart, GateStep, PTL DEF GateSpec

=============================================================================

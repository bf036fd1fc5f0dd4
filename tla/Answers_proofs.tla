--------------------------- MODULE Answers_proofs ---------------------------
(************************************************************************************)
(* Proofs about the answers of every operation of Queries: the MCP server's checks  *)
(* and the bridge's handlers agree, and what an answer names to go on with is let   *)
(* through.                                                                         *)
(*                                                                                  *)
(* Most handlers repeat a step: they collect code units, follow links, visit        *)
(* functions, scan bytes or add numbers.  Repetition says that such a recursive     *)
(* function is there and stays where its steps keep it, Upwards that what it keeps  *)
(* holds at each place; with the two, one lemma for each operation shows that its   *)
(* answer is accepted (...Accepted).  OwnAnswerAccepted puts them and the lemmas of *)
(* Queries_proofs together, and AskInv is what every step keeps.                    *)
(************************************************************************************)
EXTENDS Queries_proofs

-----------------------------------------------------------------------------
(* Repeated steps.                                                          *)

\* Induction along an interval, as a fact about sets.
LEMMA Upwards ==
    ASSUME NEW n \in Nat, NEW S, 0 \in S, \A k \in 1..n : k - 1 \in S => k \in S
    PROVE  0..n \subseteq S
<1> DEFINE T == {k \in 0..n : k \notin S}
<1>1. T \subseteq Nat
  OBVIOUS
<1>2. CASE T = {}
  BY <1>2
<1>3. CASE T # {}
  <2> HIDE DEF T
  <2>2. PICK m \in T : \A k \in T : m <= k
    BY <1>1, <1>3, Smallest
  <2>3. m \in 1..n /\ m \notin S /\ m - 1 \in 0..n /\ ~ (m <= m - 1)
    BY <2>2 DEF T
  <2>4. m - 1 \notin T
    BY <2>2, <2>3
  <2> QED
    BY <2>3, <2>4 DEF T
<1> QED
  BY <1>2, <1>3

\* Each of n steps leads from one place to the next.
Leads(n, D, I, a, F) ==
    /\ n \in Nat /\ I \in [0..n -> SUBSET D] /\ a \in I[0]
    /\ \A k \in 1..n : \A x \in I[k - 1] : F[<<x, k>>] \in I[k]
\* f is what they make of a, each of its states in its place.
Follows(f, n, D, I, a, F) ==
    /\ f \in [0..n -> D] /\ f[0] = a
    /\ \A k \in 0..n : f[k] \in I[k]
    /\ \A k \in 1..n : f[k] = F[<<f[k - 1], k>>]

\* What a step makes of a state, again and again, is a function of how often.
LEMMA Repetition ==
    ASSUME NEW n, NEW D, NEW I, NEW a, NEW F, Leads(n, D, I, a, F)
    PROVE  \E f : Follows(f, n, D, I, a, F)
<1> DEFINE Goes(f, m) == /\ f \in [0..m -> D] /\ f[0] = a
                         /\ \A k \in 0..m : f[k] \in I[k]
                         /\ \A k \in 1..m : f[k] = F[<<f[k - 1], k>>]
           S == {m \in 0..n : \E f : Goes(f, m)}
<1>0. /\ n \in Nat /\ I \in [0..n -> SUBSET D] /\ a \in I[0]
      /\ \A k \in 1..n : \A x \in I[k - 1] : F[<<x, k>>] \in I[k]
  BY DEF Leads
<1>1. 0 \in S
  <2> DEFINE h == [k \in 0..0 |-> a]
  <2>1. h \in [0..0 -> D] /\ h[0] = a /\ \A k \in 0..0 : h[k] \in I[k]
    BY <1>0
  <2>2. 1..0 = {}
    OBVIOUS
  <2> HIDE DEF h
  <2>3. Goes(h, 0)
    BY <2>1, <2>2
  <2> HIDE DEF Goes
  <2> QED
    BY <1>0, <2>3
<1>2. ASSUME NEW m \in 1..n, m - 1 \in S
      PROVE  m \in S
  <2>1. PICK f : Goes(f, m - 1)
    BY <1>2
  <2> DEFINE g == [k \in 0..m |-> IF k = m THEN F[<<f[m - 1], m>>] ELSE f[k]]
  <2>2. m \in Nat /\ m - 1 \in 0..(m - 1) /\ 0..m = 0..(m - 1) \cup {m} /\ m \notin 0..(m - 1)
    BY <1>0
  <2>3. F[<<f[m - 1], m>>] \in I[m] /\ I[m] \in SUBSET D
    BY <1>0, <2>1, <2>2
  <2>4. g \in [0..m -> D] /\ g[0] = a /\ \A k \in 0..m : g[k] \in I[k]
    BY <2>1, <2>2, <2>3
  <2>5. ASSUME NEW k \in 1..m
        PROVE  g[k] = F[<<g[k - 1], k>>]
    <3>1. k - 1 \in 0..m /\ k - 1 # m /\ g[k - 1] = f[k - 1]
      OBVIOUS
    <3>2. CASE k = m
      BY <3>1, <3>2
    <3>3. CASE k # m
      <4>1. k \in 1..(m - 1) /\ g[k] = f[k]
        BY <3>3
      <4> QED
        BY <2>1, <3>1, <4>1
    <3> QED
      BY <3>2, <3>3
  <2> HIDE DEF g
  <2>6. Goes(g, m)
    BY <2>4, <2>5
  <2> HIDE DEF Goes
  <2> QED
    BY <2>6
<1>3. n \in S
  <2> HIDE DEF S
  <2>1. 0..n \subseteq S
    BY <1>0, <1>1, <1>2, Upwards
  <2> QED
    BY <1>0, <2>1
<1>4. PICK f : Goes(f, n)
  BY <1>3
<1> QED
  BY <1>4 DEF Follows

-----------------------------------------------------------------------------
(* Answers that are one look at the program.                                *)

\* The first n of a sequence.
LEMMA TakeFirst ==
    ASSUME NEW S, NEW s \in Seq(S), NEW n \in Nat
    PROVE  LET m == IF n <= Len(s) THEN n ELSE Len(s)
           IN /\ m \in Nat /\ Take(s, 0, n) \in Seq(S) /\ Len(Take(s, 0, n)) = m
              /\ \A i \in 1..m : i \in DOMAIN s /\ Take(s, 0, n)[i] = s[i]
<1> DEFINE m == IF n <= Len(s) THEN n ELSE Len(s)
<1>1. Len(s) \in Nat /\ DOMAIN s = 1..Len(s) /\ \A i \in 1..Len(s) : s[i] \in S
  BY LenProperties, ElementOfSeq
<1>2. m \in Nat /\ m <= Len(s)
  BY <1>1
<1>3. Take(s, 0, n) = SubSeq(s, 1, m)
  <2>1. Min({0 + n, Len(s)}) = m
    BY <1>1, MinOfTwo
  <2>2. 0 + 1 = 1
    OBVIOUS
  <2> HIDE DEF m
  <2> QED
    BY <2>1, <2>2, Zenon DEF Take
<1> HIDE DEF m
<1>4. /\ SubSeq(s, 1, m) \in Seq(S)
      /\ Len(SubSeq(s, 1, m)) = IF 1 <= m THEN m - 1 + 1 ELSE 0
      /\ \A i \in 1..(m - 1 + 1) : SubSeq(s, 1, m)[i] = s[1 + i - 1]
  BY <1>1, <1>2, SubSeqProperties
<1>5. m - 1 + 1 = m /\ \A i \in 1..m : 1 + i - 1 = i /\ i \in DOMAIN s
  BY <1>1, <1>2
<1>6. Len(SubSeq(s, 1, m)) = m /\ \A i \in 1..m : SubSeq(s, 1, m)[i] = s[i]
  BY <1>2, <1>4, <1>5
<1> QED
  BY <1>2, <1>3, <1>4, <1>5, <1>6 DEF m

LEMMA NumbersAreSeq == \A n \in Nat : Numbers(n) \in Seq(Nat) /\ Len(Numbers(n)) = n
  BY DEF Numbers

LEMMA MatchesAccepted ==
    ASSUME NEW p \in Programs, NEW r \in SearchBytesParams
    PROVE  AcceptsMatches(r, Matches(p, r))
<1>1. r.limit \in Nat
  BY DEF SearchBytesParams
<1>2. Ascending(p.marks) \in Seq(p.marks)
  <2>1. p.marks \in SUBSET Int /\ IsFiniteSet(p.marks)
    BY MarksAreNumbers
  <2> QED
    BY <2>1, AscendingIsList, ListIs
<1>3. Len(Take(Ascending(p.marks), 0, r.limit)) <= r.limit
  BY <1>1, <1>2, TakeFirst
<1> QED
  BY <1>3 DEF AcceptsMatches, Matches

LEMMA DisassemblyAccepted ==
    ASSUME NEW p \in Programs, NEW r \in DisassembleParams
    PROVE  AcceptsDisassembly(r, Disassembly(p, r))
<1> DEFINE code == CodeAt(p, r.address..MaxOffset)
           rows == Take(code, 0, r.count)
<1>1. r.count \in Nat
  BY DEF DisassembleParams
<1>2. code \in Seq(ToSet(p.units))
  <2>1. code \in Seq(Instructions(p, r.address..MaxOffset))
    BY CodeIsList, ListIs
  <2>2. Instructions(p, r.address..MaxOffset) \subseteq ToSet(p.units)
    BY DEF Instructions
  <2> QED
    BY <2>1, <2>2
<1> HIDE DEF code
<1>3. rows \in Seq(ToSet(p.units)) /\ Len(rows) <= r.count
  BY <1>1, <1>2, TakeFirst
<1> HIDE DEF rows
<1>4. ASSUME NEW i \in DOMAIN rows
      PROVE  rows[i].len > 0
  <2>1. rows[i] \in ToSet(p.units)
    BY <1>3
  <2> QED
    BY <2>1, UnitIs
<1>5. Disassembly(p, r) = [address |-> r.address, rows |-> rows]
  BY DEF Disassembly, rows, code
<1> QED
  BY <1>3, <1>4, <1>5 DEF AcceptsDisassembly

LEMMA ReferencesAccepted ==
    ASSUME NEW p \in Programs, NEW r \in ReferencesParams
    PROVE  AcceptsReferences(r, References(p, r))
<1> DEFINE ends == IF r.direction = "to" THEN Ascending(p.marks \ {r.address})
                   ELSE Numbers(p.size)
<1>1. r.limit \in Nat
  BY DEF ReferencesParams
<1>2. ends \in Seq(Int)
  <2>1. Ascending(p.marks \ {r.address}) \in Seq(Int)
    <3> DEFINE S == p.marks \ {r.address}
    <3>1. S \in SUBSET Int /\ IsFiniteSet(S)
      BY MarksAreNumbers
    <3>2. Ascending(S) \in Seq(S)
      BY <3>1, AscendingIsList, ListIs
    <3> QED
      BY <3>1, <3>2
  <2>2. Numbers(p.size) \in Seq(Int)
    BY NumbersAreSeq, ProgramIs
  <2> QED
    BY <2>1, <2>2
<1>3. References(p, r) =
        [address |-> r.address, direction |-> r.direction, rows |-> Take(ends, 0, r.limit),
         truncated |-> Len(ends) > r.limit]
  BY DEF References
<1> HIDE DEF ends
<1>4. Len(Take(ends, 0, r.limit)) <= r.limit
  BY <1>1, <1>2, TakeFirst
<1> QED
  BY <1>3, <1>4 DEF AcceptsReferences

LEMMA FieldReferencesAccepted ==
    ASSUME NEW p \in Programs, NEW r, StructureFieldReferencesParams(r)
    PROVE  AcceptsFieldReferences(r, FieldReferences(p, r))
<1> DEFINE found == Ascending(p.marks)
           rows == Take(found, 0, r.limit)
<1>1. r.limit \in Nat
  BY DEF StructureFieldReferencesParams
<1>2. found \in Seq(p.marks) /\ Len(found) \in Nat /\ DOMAIN found = 1..Len(found)
      /\ IsInjective(found)
  <2>1. p.marks \in SUBSET Int /\ IsFiniteSet(p.marks)
    BY MarksAreNumbers
  <2> QED
    BY <2>1, AscendingIsList, ListIs
<1>3. FieldReferences(p, r) =
        [address |-> r.address, path |-> r.path, field_offset |-> r.field_offset,
         rows |-> rows, truncated |-> Len(found) > r.limit]
  BY DEF FieldReferences
<1> HIDE DEF found
<1>4. /\ rows \in Seq(p.marks) /\ Len(rows) <= r.limit
      /\ \A i \in 1..Len(rows) : i \in DOMAIN found /\ rows[i] = found[i]
  BY <1>1, <1>2, TakeFirst
<1> HIDE DEF rows
<1>5. IsInjective(rows)
  BY <1>2, <1>4 DEF IsInjective
<1> QED
  BY <1>3, <1>4, <1>5 DEF AcceptsFieldReferences

LEMMA BatchReferencesAccepted ==
    ASSUME NEW p \in Programs, NEW r \in BatchReferencesParams
    PROVE  AcceptsBatchReferences(r, BatchReferences(p, r))
<1> DEFINE s == r.addresses
           refs == Take(Numbers(p.size), 0, r.limit_per_address)
           rows == [i \in DOMAIN s |->
                      [address |-> s[i], refs |-> refs, truncated |-> p.size > Len(refs)]]
<1>1. s \in Seq(Offset) /\ r.limit_per_address \in Nat
  <2>1. r.addresses \in AddressList(32) /\ r.limit_per_address \in 1..200
    BY DEF BatchReferencesParams
  <2>2. r.addresses \in Seq(Offset)
    BY <2>1, Zenon DEF AddressList
  <2>3. \A n \in 1..200 : n \in Nat
    OBVIOUS
  <2> QED
    BY <2>1, <2>2, <2>3, Zenon
<1>2. DOMAIN s = 1..Len(s) /\ Len(s) \in Nat
  BY <1>1, LenProperties
<1>3. Len(refs) <= r.limit_per_address
  <2>1. Numbers(p.size) \in Seq(Nat)
    BY NumbersAreSeq, ProgramIs
  <2> QED
    BY <1>1, <2>1, TakeFirst
<1>4. BatchReferences(p, r) = [direction |-> r.direction, count |-> Len(s), rows |-> rows]
  BY DEF BatchReferences
<1> HIDE DEF refs
<1>5. DOMAIN rows = DOMAIN s /\ \A i \in DOMAIN s : rows[i].address = s[i] /\ rows[i].refs = refs
  OBVIOUS
<1>6. Len(rows) = Len(s)
  BY <1>2, <1>5
<1> HIDE DEF rows
<1> QED
  BY <1>3, <1>4, <1>5, <1>6 DEF AcceptsBatchReferences, AnswersInOrder

\* A function has at least one token, and a limit of at least one keeps it.
LEMMA FingerprintAccepted ==
    ASSUME NEW p \in Programs, NEW at \in Offset, Starts(p, at),
           p.units[UnitAt(p, at)].ops > 0, NEW max \in Nat \ {0}
    PROVE  AcceptsFingerprint(Fingerprint(p, at, max), max)
<1> DEFINE tokens == p.units[UnitAt(p, at)].ops
<1>1. UnitAt(p, at) \in DOMAIN p.units
  BY MappedAreUnits DEF Starts
<1>2. tokens \in Int /\ max \in Int /\ max > 0
  BY <1>1, UnitsAreList, UnitFields
<1>3. Min({tokens, max}) \in 1..max
  BY <1>2, MinOfTwo
<1> QED
  BY <1>3 DEF AcceptsFingerprint, Fingerprint

LEMMA FunctionFingerprintAccepted ==
    ASSUME NEW p \in Programs, NEW r \in FunctionFingerprintParams,
           Starts(p, r.address), p.units[UnitAt(p, r.address)].ops > 0
    PROVE  AcceptsFunctionFingerprint(r, FunctionFingerprint(p, r))
<1>1. r.address \in Offset /\ r.max_instructions \in Nat \ {0}
  <2>1. r.address \in Offset /\ r.max_instructions \in Limit(4096)
    BY DEF FunctionFingerprintParams
  <2> QED
    BY <2>1, LimitsArePositive
<1>2. AcceptsFingerprint(Fingerprint(p, r.address, r.max_instructions), r.max_instructions)
  BY <1>1, FingerprintAccepted
<1> QED
  BY <1>2 DEF AcceptsFunctionFingerprint, FunctionFingerprint, AcceptsFingerprint

LEMMA ComparisonAccepted ==
    ASSUME NEW p \in Programs, NEW r, r.max_instructions \in Nat \ {0},
           \A at \in {r.address, r.other_address} :
                at \in Offset /\ Starts(p, at) /\ p.units[UnitAt(p, at)].ops > 0
    PROVE  /\ AcceptsComparison(r, CompareFunctions(p, r))
           /\ AcceptsSavedComparison(r, CompareSavedFunction(p, r))
<1> DEFINE left  == Fingerprint(p, r.address, r.max_instructions)
           right == Fingerprint(p, r.other_address, r.max_instructions)
<1>1. /\ AcceptsFingerprint(left, r.max_instructions)
      /\ AcceptsFingerprint(right, r.max_instructions)
  BY FingerprintAccepted
<1>2. CompareFunctions(p, r) =
        [address |-> r.address, other_address |-> r.other_address, left |-> left,
         right |-> right, equal |-> SameTokens(left, right)]
  BY DEF CompareFunctions
<1> HIDE DEF left, right
<1>3. CompareSavedFunction(p, r) =
        [address |-> r.address, other_address |-> r.other_address,
         other_program_path |-> r.other_program_path, left |-> left, right |-> right,
         equal |-> SameTokens(left, right)]
  BY <1>2 DEF CompareSavedFunction
<1>4. SameTokens(left, right) =
        (~ left.truncated /\ ~ right.truncated /\ left.sha256 = right.sha256)
  BY DEF SameTokens
<1>5. AcceptsComparison(r, CompareFunctions(p, r))
  BY <1>1, <1>2, <1>4 DEF AcceptsComparison
<1>6. AcceptsSavedComparison(r, CompareSavedFunction(p, r))
  BY <1>1, <1>3, <1>4 DEF AcceptsComparison, AcceptsSavedComparison
<1> QED
  BY <1>5, <1>6

-----------------------------------------------------------------------------
(* Emulation: one step after the other.                                     *)

Outcomes == {"step_limit", "stop_address", "time_limit", "emulator_error"}
\* What may be so after k steps.
RunAfter(r, k) ==
    {x \in [outcome : Outcomes, at : Nat, steps : Nat] :
        x.steps <= k /\ (x.outcome = "stop_address" => x.at = r.stop_address)}
OneStep(p, r, x, time) == IF x.outcome = "step_limit" THEN Step(p, r, x, time) ELSE x
RunStart(r) == [outcome |-> "step_limit", at |-> r.address, steps |-> 0]

LEMMA StepKeeps ==
    ASSUME NEW p \in Programs, NEW r, NEW time, NEW k \in Nat, NEW x \in RunAfter(r, k)
    PROVE  OneStep(p, r, x, time) \in RunAfter(r, k + 1)
<1>1. /\ x \in [outcome : Outcomes, at : Nat, steps : Nat]
      /\ x.steps <= k /\ (x.outcome = "stop_address" => x.at = r.stop_address)
  BY DEF RunAfter
<1>2. x.at \in Nat /\ x.steps \in Nat
  BY <1>1
<1>3. CASE x.outcome # "step_limit"
  BY <1>1, <1>2, <1>3 DEF OneStep, RunAfter
<1>4. CASE x.outcome = "step_limit" /\ x.at = r.stop_address
  <2>1. OneStep(p, r, x, time) = [x EXCEPT !.outcome = "stop_address"]
    BY <1>4 DEF OneStep, Step
  <2> QED
    BY <1>1, <1>2, <1>4, <2>1 DEF RunAfter, Outcomes
<1>5. CASE x.outcome = "step_limit" /\ x.at # r.stop_address /\ x.steps = time
  <2>1. OneStep(p, r, x, time) = [x EXCEPT !.outcome = "time_limit"]
    BY <1>5 DEF OneStep, Step
  <2> QED
    BY <1>1, <1>2, <1>5, <2>1 DEF RunAfter, Outcomes
<1>6. CASE /\ x.outcome = "step_limit" /\ x.at # r.stop_address /\ x.steps # time
           /\ ~ Starts(p, x.at) \/ p.units[UnitAt(p, x.at)].kind # "instruction"
  <2>1. OneStep(p, r, x, time) = [x EXCEPT !.outcome = "emulator_error", !.steps = @ + 1]
    BY <1>6 DEF OneStep, Step
  <2> DEFINE y == [outcome |-> "emulator_error", at |-> x.at, steps |-> x.steps + 1]
  <2>2. OneStep(p, r, x, time) = y
    BY <1>1, <2>1
  <2>3. y \in [outcome : Outcomes, at : Nat, steps : Nat]
    BY <1>2 DEF Outcomes
  <2>4. y.steps <= k + 1 /\ y.outcome # "stop_address"
    BY <1>1, <1>2
  <2> HIDE DEF y
  <2> QED
    BY <2>2, <2>3, <2>4 DEF RunAfter
<1>7. CASE /\ x.outcome = "step_limit" /\ x.at # r.stop_address /\ x.steps # time
           /\ Starts(p, x.at) /\ p.units[UnitAt(p, x.at)].kind = "instruction"
  <2> DEFINE next == p.units[UnitAt(p, x.at)].end + 1
  <2>1. OneStep(p, r, x, time) = [x EXCEPT !.at = next, !.steps = @ + 1]
    BY <1>7 DEF OneStep, Step
  <2>2. x.at \in Offset /\ Mapped(p, x.at)
    BY <1>2, <1>7, ProgramIs, OffsetIs, OffsetsAreNumbers DEF Starts, Mapped, Offset
  <2>3. next \in Nat
    <3>1. UnitAt(p, x.at) \in DOMAIN p.units
      BY <2>2, MappedAreUnits
    <3>2. p.units[UnitAt(p, x.at)].end \in Offset
      BY <3>1, UnitsAreList, UnitFields
    <3> QED
      BY <3>2, OffsetIs
  <2> HIDE DEF next
  <2> DEFINE y == [outcome |-> x.outcome, at |-> next, steps |-> x.steps + 1]
  <2>4. OneStep(p, r, x, time) = y
    BY <1>1, <2>1
  <2>5. y \in [outcome : Outcomes, at : Nat, steps : Nat]
    BY <1>1, <1>2, <2>3
  <2>6. y.steps <= k + 1 /\ y.outcome # "stop_address"
    BY <1>1, <1>2, <1>7
  <2> HIDE DEF y
  <2> QED
    BY <2>4, <2>5, <2>6 DEF RunAfter
<1> QED
  BY <1>3, <1>4, <1>5, <1>6, <1>7

\* The last state is one that so many steps lead to.
LEMMA StepsCounted ==
    ASSUME NEW p \in Programs, NEW r, NEW time, r.address \in Offset, r.max_steps \in Nat
    PROVE  Steps(p, r, time) \in RunAfter(r, r.max_steps)
<1> DEFINE n == r.max_steps
           D == [outcome : Outcomes, at : Nat, steps : Nat]
           I == [k \in 0..n |-> RunAfter(r, k)]
           F == [q \in D \X (1..n) |-> OneStep(p, r, q[1], time)]
           states(f) == [k \in 0..n |-> IF k = 0 THEN RunStart(r) ELSE OneStep(p, r, f[k - 1], time)]
           run == CHOOSE f : f = states(f)
<1>0. n \in Nat
  OBVIOUS
<1>1. \A k \in Nat : RunAfter(r, k) \in SUBSET D
  BY DEF RunAfter
<1>2. I \in [0..n -> SUBSET D] /\ \A k \in 0..n : I[k] = RunAfter(r, k)
  BY <1>1
<1>3. RunStart(r) \in RunAfter(r, 0)
  BY OffsetIs DEF RunStart, RunAfter, Outcomes
<1>4. ASSUME NEW k \in 1..n, NEW x \in RunAfter(r, k - 1)
      PROVE  x \in D /\ OneStep(p, r, x, time) \in RunAfter(r, k)
  <2>1. k - 1 \in Nat /\ (k - 1) + 1 = k
    OBVIOUS
  <2>2. OneStep(p, r, x, time) \in RunAfter(r, (k - 1) + 1)
    BY <2>1, StepKeeps
  <2> QED
    BY <1>1, <2>1, <2>2
<1>5. \A k \in 1..n : \A x \in RunAfter(r, k - 1) : F[<<x, k>>] = OneStep(p, r, x, time)
  BY <1>4
<1> HIDE DEF D, F
<1>6. PICK f : /\ f \in [0..n -> D] /\ f[0] = RunStart(r)
               /\ \A k \in 1..n : f[k - 1] \in RunAfter(r, k - 1) /\ f[k] = F[<<f[k - 1], k>>]
  <2>1. \A k \in 1..n : I[k] = RunAfter(r, k) /\ I[k - 1] = RunAfter(r, k - 1) /\ k - 1 \in 0..n
    BY <1>2
  <2>2. I[0] = RunAfter(r, 0)
    BY <1>2
  <2> HIDE DEF I
  <2>3. Leads(n, D, I, RunStart(r), F)
    BY <1>0, <1>2, <1>3, <1>4, <1>5, <2>1, <2>2 DEF Leads
  <2>4. PICK f : Follows(f, n, D, I, RunStart(r), F)
    BY <2>3, Repetition
  <2> QED
    BY <2>1, <2>4 DEF Follows
<1>7. f = states(f)
  <2>1. \A k \in 1..n : f[k] = OneStep(p, r, f[k - 1], time)
    BY <1>5, <1>6
  <2> QED
    BY <1>6, <2>1
<1>8. run = states(run)
  <2> HIDE DEF states
  <2> QED
    BY <1>7
<1>9. run[n] \in RunAfter(r, n)
  <2> HIDE DEF run
  <2> DEFINE S == {k \in 0..n : run[k] \in RunAfter(r, k)}
  <2>1. run[0] = RunStart(r) /\ \A k \in 1..n : run[k] = OneStep(p, r, run[k - 1], time)
    BY <1>8
  <2>2. 0 \in S
    BY <1>3, <2>1
  <2>3. \A k \in 1..n : k - 1 \in S => k \in S
    BY <1>4, <2>1
  <2> HIDE DEF S
  <2>4. 0..n \subseteq S
    BY <2>2, <2>3, Upwards
  <2>5. n \in S
    BY <2>4
  <2> QED
    BY <2>5 DEF S
<1>10. Steps(p, r, time) =
            IF run[n].at = r.stop_address /\ run[n].outcome # "emulator_error"
            THEN [run[n] EXCEPT !.outcome = "stop_address"] ELSE run[n]
  BY DEF Steps, OneStep, RunStart
<1> HIDE DEF run
<1> QED
  BY <1>9, <1>10 DEF RunAfter, Outcomes

LEMMA EmulationAccepted ==
    ASSUME NEW p \in Programs, NEW r \in EmulateFunctionParams, NEW time
    PROVE  AcceptsEmulation(r, Emulate(p, r, time))
<1> DEFINE run == Steps(p, r, time)
           names == r.output_registers
           rows == [i \in DOMAIN names |->
                      [name |-> names[i], value |-> IF Readable(p, names[i]) THEN 0 ELSE None]]
           all == \A i \in DOMAIN rows : rows[i].value # None
           outcome == IF all THEN run.outcome ELSE "emulator_error"
<1>1. r.address \in Offset /\ r.max_steps \in Nat /\ names \in Seq(Text(64))
  <2>1. r.address \in Offset /\ r.max_steps \in Limit(10000) /\ names \in Seq(Text(64))
    BY DEF EmulateFunctionParams
  <2> QED
    BY <2>1, LimitsArePositive
<1>2. /\ run.steps \in Nat /\ run.steps <= r.max_steps
      /\ run.outcome = "stop_address" => run.at = r.stop_address
  BY <1>1, StepsCounted DEF RunAfter
<1>3. DOMAIN names = 1..Len(names) /\ Len(names) \in Nat
  BY <1>1, LenProperties
<1>4. DOMAIN rows = DOMAIN names /\ \A i \in DOMAIN names : rows[i].name = names[i]
  OBVIOUS
<1>5. Len(rows) = Len(names)
  BY <1>3, <1>4
<1>6. Emulate(p, r, time) =
        [address |-> r.address, stop_address |-> r.stop_address, execution_address |-> run.at,
         steps |-> run.steps, outcome |-> outcome, reached_stop |-> outcome = "stop_address",
         error |-> outcome = "emulator_error", rows |-> rows]
  BY DEF Emulate
<1> HIDE DEF rows, run
<1>7. /\ outcome = "stop_address" => run.outcome = "stop_address"
      /\ \A i \in DOMAIN rows : rows[i].value = None => outcome = "emulator_error"
  OBVIOUS
<1> HIDE DEF outcome
<1> DEFINE v == Emulate(p, r, time)
<1>8. /\ v.address = r.address /\ v.stop_address = r.stop_address
      /\ v.execution_address = run.at /\ v.steps = run.steps /\ v.outcome = outcome
      /\ v.rows = rows
  BY <1>6
<1> DEFINE stopped == outcome = "stop_address"
           failed == outcome = "emulator_error"
<1>9. v.reached_stop = stopped /\ v.error = failed
  <2>1. Emulate(p, r, time) =
          [address |-> r.address, stop_address |-> r.stop_address,
           execution_address |-> run.at, steps |-> run.steps, outcome |-> outcome,
           reached_stop |-> stopped, error |-> failed, rows |-> rows]
    BY <1>6, Zenon
  <2> HIDE DEF stopped, failed
  <2> QED
    BY <2>1
<1> HIDE DEF v
<1>10. v.reached_stop = (v.outcome = "stop_address") /\ (v.error => v.outcome = "emulator_error")
  BY <1>8, <1>9, Zenon
<1>11. AcceptsEmulation(r, v)
  BY <1>2, <1>4, <1>5, <1>7, <1>8, <1>10 DEF AcceptsEmulation
<1> QED
  BY <1>11 DEF v

-----------------------------------------------------------------------------
(* Sums.                                                                    *)

\* s[1] + ... + s[k], for each k.
Sums(f, s) ==
    /\ f \in [0..Len(s) -> Int] /\ f[0] = 0
    /\ \A k \in 1..Len(s) : f[k] = f[k - 1] + s[k]

LEMMA SumIs ==
    ASSUME NEW s \in Seq(Int)
    PROVE  \E f : Sums(f, s) /\ SumOf(s) = f[Len(s)]
<1> DEFINE n == Len(s)
           I == [k \in 0..n |-> Int]
           F == [q \in Int \X (1..n) |-> q[1] + s[q[2]]]
           sums(f) == [k \in 0..n |-> IF k = 0 THEN 0 ELSE f[k - 1] + s[k]]
           sum == CHOOSE f : f = sums(f)
<1>0. n \in Nat /\ \A k \in 1..n : s[k] \in Int
  BY LenProperties, ElementOfSeq
<1> HIDE DEF n
<1>1. \A k \in 1..n : \A x \in Int : F[<<x, k>>] = x + s[k]
  OBVIOUS
<1>2. I \in [0..n -> SUBSET Int] /\ \A k \in 0..n : I[k] = Int
  OBVIOUS
<1> HIDE DEF F, I
<1>3. Leads(n, Int, I, 0, F)
  <2>1. ASSUME NEW k \in 1..n, NEW x \in I[k - 1]
        PROVE  F[<<x, k>>] \in I[k]
    <3>1. I[k - 1] = Int /\ I[k] = Int
      BY <1>0, <1>2
    <3>2. x \in Int /\ F[<<x, k>>] = x + s[k] /\ s[k] \in Int
      BY <1>0, <1>1, <3>1
    <3> QED
      BY <3>1, <3>2
  <2> QED
    BY <1>0, <1>2, <2>1 DEF Leads
<1>4. PICK f : Follows(f, n, Int, I, 0, F)
  BY <1>3, Repetition
<1>5. f \in [0..n -> Int] /\ f[0] = 0 /\ \A k \in 1..n : f[k] = f[k - 1] + s[k]
  <2>1. f \in [0..n -> Int] /\ f[0] = 0 /\ \A k \in 1..n : f[k] = F[<<f[k - 1], k>>]
    BY <1>4 DEF Follows
  <2>2. \A k \in 1..n : k - 1 \in 0..n /\ f[k - 1] \in Int
    BY <1>0, <2>1
  <2> QED
    BY <1>1, <2>1, <2>2
<1>6. f = sums(f)
  BY <1>5
<1>7. sum = sums(sum)
  <2> HIDE DEF sums
  <2> QED
    BY <1>6
<1> HIDE DEF sum
<1>8. sum[0] = 0 /\ \A k \in 1..n : sum[k] = sum[k - 1] + s[k]
  BY <1>0, <1>7
<1> DEFINE S == {k \in 0..n : sum[k] = f[k]}
<1>9. n \in S
  <2>1. 0 \in S
    BY <1>0, <1>5, <1>8
  <2>2. \A k \in 1..n : k - 1 \in S => k \in S
    BY <1>5, <1>8
  <2> HIDE DEF S
  <2>3. 0..n \subseteq S
    BY <1>0, <2>1, <2>2, Upwards
  <2> QED
    BY <1>0, <2>3
<1>10. SumOf(s) = sum[n]
  BY DEF SumOf, sum, n
<1> QED
  BY <1>5, <1>9, <1>10 DEF Sums, n

Adds(f, s, n) == f[0] = 0 /\ \A k \in 1..n : f[k] = f[k - 1] + s[k]

\* What is summed up is the same whatever does it.
LEMMA SumsAgree ==
    ASSUME NEW n \in Nat, NEW s, NEW f, NEW g, Adds(f, s, n), Adds(g, s, n)
    PROVE  f[n] = g[n]
<1> DEFINE S == {k \in 0..n : f[k] = g[k]}
<1>1. 0 \in S
  BY DEF Adds
<1>2. \A k \in 1..n : k - 1 \in S => k \in S
  BY DEF Adds
<1> HIDE DEF S
<1>3. 0..n \subseteq S
  BY <1>1, <1>2, Upwards
<1>4. n \in S
  BY <1>3
<1> QED
  BY <1>4 DEF S

LEMMA NothingSums == SumOf(<<>>) = 0
<1>1. <<>> \in Seq(Int) /\ Len(<<>>) = 0
  OBVIOUS
<1>2. PICK f : Sums(f, <<>>) /\ SumOf(<<>>) = f[Len(<<>>)]
  BY <1>1, SumIs
<1> QED
  BY <1>1, <1>2 DEF Sums

\* A part of a sequence from its start sums up to what the sums have come to there.
LEMMA OneMoreSums ==
    ASSUME NEW s \in Seq(Int), NEW t \in Seq(Int), Len(t) = Len(s) + 1,
           \A k \in 1..Len(s) : t[k] = s[k]
    PROVE  SumOf(s) \in Int /\ SumOf(t) = SumOf(s) + t[Len(t)]
<1> DEFINE n == Len(s)
<1>0. n \in Nat /\ Len(t) = n + 1
  BY LenProperties
<1>1. PICK f : Sums(f, s) /\ SumOf(s) = f[Len(s)]
  BY SumIs
<1>2. PICK g : Sums(g, t) /\ SumOf(t) = g[Len(t)]
  BY SumIs
<1>3. /\ f \in [0..n -> Int] /\ f[0] = 0 /\ \A k \in 1..n : f[k] = f[k - 1] + s[k]
  BY <1>1 DEF Sums
<1>4. g[0] = 0 /\ \A k \in 1..(n + 1) : g[k] = g[k - 1] + t[k]
  BY <1>0, <1>2 DEF Sums
<1> HIDE DEF n
<1>5. ASSUME NEW k \in 1..n
      PROVE  g[k] = g[k - 1] + s[k]
  <2>1. k \in 1..(n + 1) /\ t[k] = s[k]
    BY <1>0 DEF n
  <2>2. g[k] = g[k - 1] + t[k]
    BY <1>4, <2>1
  <2> QED
    BY <2>1, <2>2
<1>6. f[n] = g[n]
  <2>1. Adds(f, s, n)
    BY <1>3 DEF Adds
  <2>2. Adds(g, s, n)
    BY <1>4, <1>5 DEF Adds
  <2> QED
    BY <1>0, <2>1, <2>2, SumsAgree
<1>7. g[n + 1] = g[n] + t[n + 1] /\ n \in 0..n
  <2>1. n + 1 \in 1..(n + 1) /\ (n + 1) - 1 = n
    BY <1>0
  <2> QED
    BY <1>0, <1>4, <2>1
<1> QED
  BY <1>0, <1>1, <1>2, <1>3, <1>6, <1>7 DEF n

-----------------------------------------------------------------------------
(* Code units one behind the other.                                         *)

\* Units of the program of which the first begins at an offset, and each other where the
\* one before ends.
Chain(p, at, s) ==
    /\ s \in Seq(ToSet(p.units))
    /\ \A i \in DOMAIN s : s[i].at = IF i = 1 THEN at ELSE s[i - 1].end + 1
Behind(at, s) == IF s = <<>> THEN at ELSE s[Len(s)].end + 1

LEMMA EmptyChain == \A p, at : Chain(p, at, <<>>) /\ Behind(at, <<>>) = at
  BY DEF Chain, Behind

\* An offset behind a chain is a number.
LEMMA BehindIs ==
    ASSUME NEW p \in Programs, NEW at \in Offset, NEW s, Chain(p, at, s)
    PROVE  /\ Len(s) \in Nat /\ DOMAIN s = 1..Len(s) /\ \A i \in DOMAIN s : s[i] \in ToSet(p.units)
           /\ Behind(at, s) \in Nat
           /\ s # <<>> => s[Len(s)] \in ToSet(p.units)
<1>1. /\ s \in Seq(ToSet(p.units)) /\ Len(s) \in Nat /\ DOMAIN s = 1..Len(s)
      /\ \A i \in DOMAIN s : s[i] \in ToSet(p.units)
  BY LenProperties, ElementOfSeq DEF Chain
<1>2. CASE s = <<>>
  BY <1>1, <1>2, OffsetIs DEF Behind
<1>3. CASE s # <<>>
  <2>1. Len(s) \in DOMAIN s
    BY <1>1, <1>3, EmptySeq
  <2>2. s[Len(s)] \in ToSet(p.units)
    BY <1>1, <2>1
  <2>3. s[Len(s)].end \in Offset
    BY <2>2, UnitIs
  <2> QED
    BY <1>1, <1>3, <2>2, <2>3, OffsetIs DEF Behind
<1> QED
  BY <1>2, <1>3

\* Where a unit starts behind a chain, it makes the chain longer.
LEMMA ChainGrows ==
    ASSUME NEW p \in Programs, NEW at \in Offset, NEW s, Chain(p, at, s),
           Starts(p, Behind(at, s))
    PROVE  LET u == p.units[UnitAt(p, Behind(at, s))]
           IN /\ u \in ToSet(p.units) /\ u.at = Behind(at, s)
              /\ Chain(p, at, Append(s, u)) /\ Len(Append(s, u)) = Len(s) + 1
              /\ Behind(at, Append(s, u)) = u.end + 1
              /\ \A i \in 1..Len(s) : Append(s, u)[i] = s[i]
              /\ Append(s, u)[Len(s) + 1] = u
<1> DEFINE next == Behind(at, s)
           u == p.units[UnitAt(p, next)]
           t == Append(s, u)
           n == Len(s)
<1>1. /\ next \in Nat /\ n \in Nat /\ DOMAIN s = 1..n /\ s \in Seq(ToSet(p.units))
      /\ \A i \in DOMAIN s : s[i].at = IF i = 1 THEN at ELSE s[i - 1].end + 1
  BY BehindIs DEF Chain
<1>2. next \in Offset /\ Mapped(p, next) /\ u.at = next
  <2>1. Mapped(p, next) /\ u.at = next
    BY DEF Starts
  <2>2. next <= p.top /\ p.top \in Nat /\ p.top <= MaxOffset
    BY <2>1, ProgramIs, OffsetIs DEF Mapped
  <2> HIDE DEF next
  <2> QED
    BY <1>1, <2>1, <2>2, OffsetsAreNumbers DEF Offset
<1>3. u \in ToSet(p.units)
  BY <1>2, MappedAreUnits DEF ToSet
<1>n. s = <<>> <=> n = 0
  BY <1>1, EmptySeq
<1>p. next = IF n = 0 THEN at ELSE s[n].end + 1
  BY <1>n DEF Behind
<1> HIDE DEF next, u
<1>4. /\ t \in Seq(ToSet(p.units)) /\ Len(t) = n + 1
      /\ \A i \in 1..n : t[i] = s[i]
      /\ t[n + 1] = u
  <2>1. s \in Seq(ToSet(p.units))
    BY <1>1
  <2> QED
    BY <1>3, <2>1, AppendProperties
<1> HIDE DEF t, n
<1>5. DOMAIN t = 1..(n + 1)
  BY <1>4, LenProperties
<1>6. ASSUME NEW i \in 1..(n + 1)
      PROVE  t[i].at = IF i = 1 THEN at ELSE t[i - 1].end + 1
  <2>1. CASE i \in 1..n
    <3>1. i # 1 => i - 1 \in 1..n
      BY <1>1, <2>1
    <3> QED
      BY <1>1, <1>4, <2>1, <3>1
  <2>2. CASE i = n + 1
    <3>1. t[i].at = next
      BY <1>2, <1>4, <2>2
    <3>2. CASE n = 0
      BY <1>p, <2>2, <3>1, <3>2
    <3>3. CASE n # 0
      <4>1. i # 1 /\ i - 1 = n /\ n \in 1..n
        BY <1>1, <2>2, <3>3
      <4>2. t[i - 1] = s[n]
        BY <1>4, <4>1
      <4> QED
        BY <1>p, <3>1, <3>3, <4>1, <4>2
    <3> QED
      BY <3>2, <3>3
  <2> QED
    BY <1>1, <2>1, <2>2
<1>7. Chain(p, at, t)
  BY <1>4, <1>5, <1>6 DEF Chain
<1>8. Behind(at, t) = u.end + 1
  <2>1. t # <<>>
    BY <1>1, <1>4, EmptySeq
  <2> QED
    BY <1>4, <2>1 DEF Behind
<1> QED
  BY <1>2, <1>3, <1>4, <1>7, <1>8 DEF t, u, n, next

\* The MCP server adds up lengths, the chain goes by ends.
LEMMA ChainAdds ==
    ASSUME NEW p \in Programs, NEW at, NEW s, Chain(p, at, s), NEW i \in DOMAIN s
    PROVE  /\ s[i].len > 0 /\ s[i].at + s[i].len = s[i].end + 1
           /\ s[i].at = IF i = 1 THEN at ELSE s[i - 1].at + s[i - 1].len
<1>1. s \in Seq(ToSet(p.units)) /\ DOMAIN s = 1..Len(s) /\ Len(s) \in Nat
  BY LenProperties DEF Chain
<1>2. ASSUME NEW j \in DOMAIN s
      PROVE  s[j].len > 0 /\ s[j].at + s[j].len = s[j].end + 1
  <2>1. s[j] \in ToSet(p.units)
    BY <1>1
  <2> QED
    BY <2>1, UnitIs
<1>3. s[i].at = IF i = 1 THEN at ELSE s[i - 1].end + 1
  BY DEF Chain
<1>4. CASE i = 1
  BY <1>2, <1>3, <1>4
<1>5. CASE i # 1
  <2>1. i - 1 \in DOMAIN s
    BY <1>1, <1>5
  <2> QED
    BY <1>2, <1>3, <1>5, <2>1
<1> QED
  BY <1>4, <1>5

-----------------------------------------------------------------------------
(* Decoding.                                                                *)

\* What may have been decoded after k steps.
Decoded(p, at, k) == {s \in Seq(ToSet(p.units)) : Chain(p, at, s) /\ Len(s) <= k}
OneDecoded(p, at, k, s) ==
    IF Len(s) = k - 1 /\ Decodes(p, Behind(at, s))
    THEN Append(s, p.units[UnitAt(p, Behind(at, s))]) ELSE s

LEMMA DecodeKeeps ==
    ASSUME NEW p \in Programs, NEW at \in Offset, NEW k \in Nat \ {0},
           NEW s \in Decoded(p, at, k - 1)
    PROVE  OneDecoded(p, at, k, s) \in Decoded(p, at, k)
<1>1. Chain(p, at, s) /\ Len(s) \in Nat /\ Len(s) <= k - 1
  BY LenProperties DEF Decoded
<1>2. CASE Len(s) = k - 1 /\ Decodes(p, Behind(at, s))
  <2> DEFINE t == Append(s, p.units[UnitAt(p, Behind(at, s))])
  <2>1. Chain(p, at, t) /\ Len(t) = Len(s) + 1
    BY <1>1, <1>2, ChainGrows DEF Decodes
  <2>2. OneDecoded(p, at, k, s) = t
    BY <1>2 DEF OneDecoded
  <2> HIDE DEF t
  <2>3. t \in Seq(ToSet(p.units)) /\ Len(t) <= k
    BY <1>1, <2>1 DEF Chain
  <2> QED
    BY <2>1, <2>2, <2>3 DEF Decoded
<1>3. CASE ~ (Len(s) = k - 1 /\ Decodes(p, Behind(at, s)))
  <2>1. OneDecoded(p, at, k, s) = s
    BY <1>3 DEF OneDecoded
  <2> QED
    BY <1>1, <2>1 DEF Decoded
<1> QED
  BY <1>2, <1>3

LEMMA DecodesInChain ==
    ASSUME NEW p \in Programs, NEW at \in Offset, NEW n \in Nat
    PROVE  Decode(p, at, n) \in Decoded(p, at, n)
<1> DEFINE D == Seq(ToSet(p.units))
           I == [k \in 0..n |-> Decoded(p, at, k)]
           F == [q \in D \X (1..n) |-> OneDecoded(p, at, q[2], q[1])]
           states(f) == [k \in 0..n |-> IF k = 0 THEN <<>> ELSE OneDecoded(p, at, k, f[k - 1])]
           run == CHOOSE f : f = states(f)
<1>1. \A k \in Nat : Decoded(p, at, k) \in SUBSET D
  BY DEF Decoded
<1>2. I \in [0..n -> SUBSET D] /\ \A k \in 0..n : I[k] = Decoded(p, at, k)
  BY <1>1
<1>3. <<>> \in Decoded(p, at, 0)
  <2>1. <<>> \in Seq(ToSet(p.units)) /\ Len(<<>>) <= 0
    BY EmptySeq
  <2> QED
    BY <2>1, EmptyChain DEF Decoded
<1>4. ASSUME NEW k \in 1..n, NEW x \in Decoded(p, at, k - 1)
      PROVE  x \in D /\ OneDecoded(p, at, k, x) \in Decoded(p, at, k)
  <2>1. k - 1 \in Nat /\ k \in Nat \ {0}
    OBVIOUS
  <2> QED
    BY <1>1, <2>1, DecodeKeeps
<1>5. \A k \in 1..n : \A x \in Decoded(p, at, k - 1) : F[<<x, k>>] = OneDecoded(p, at, k, x)
  BY <1>4
<1> HIDE DEF D, F
<1>6. PICK f : /\ f \in [0..n -> D] /\ f[0] = <<>>
               /\ \A k \in 1..n : /\ f[k - 1] \in Decoded(p, at, k - 1)
                                  /\ f[k] = F[<<f[k - 1], k>>]
  <2>1. \A k \in 1..n : I[k] = Decoded(p, at, k) /\ I[k - 1] = Decoded(p, at, k - 1) /\ k - 1 \in 0..n
    BY <1>2
  <2>2. I[0] = Decoded(p, at, 0)
    BY <1>2
  <2> HIDE DEF I
  <2>3. Leads(n, D, I, <<>>, F)
    BY <1>2, <1>3, <1>4, <1>5, <2>1, <2>2 DEF Leads
  <2>4. PICK f : Follows(f, n, D, I, <<>>, F)
    BY <2>3, Repetition
  <2> QED
    BY <2>1, <2>4 DEF Follows
<1>7. f = states(f)
  <2>1. \A k \in 1..n : f[k] = OneDecoded(p, at, k, f[k - 1])
    BY <1>5, <1>6
  <2> QED
    BY <1>6, <2>1
<1>8. run = states(run)
  <2> HIDE DEF states
  <2> QED
    BY <1>7
<1>9. run[n] \in Decoded(p, at, n)
  <2> HIDE DEF run
  <2> DEFINE S == {k \in 0..n : run[k] \in Decoded(p, at, k)}
  <2>1. run[0] = <<>> /\ \A k \in 1..n : run[k] = OneDecoded(p, at, k, run[k - 1])
    BY <1>8
  <2>2. 0 \in S
    BY <1>3, <2>1
  <2>3. \A k \in 1..n : k - 1 \in S => k \in S
    BY <1>4, <2>1
  <2> HIDE DEF S
  <2>4. 0..n \subseteq S
    BY <2>2, <2>3, Upwards
  <2>5. n \in S
    BY <2>4
  <2> QED
    BY <2>5 DEF S
<1>10. Decode(p, at, n) = run[n]
  BY DEF Decode, OneDecoded, Behind
<1> QED
  BY <1>9, <1>10

\* No code unit ends at the last address of the space: there the code takes its own
\* answer for a doubt (see the run PreviewRejected).
NoneAtTheEnd == \A p \in Programs : \A i \in DOMAIN p.units : p.units[i].end # MaxOffset

LEMMA PreviewAccepted ==
    ASSUME NEW p \in Programs, NEW r \in DisassembleParams
    PROVE  /\ NoneAtTheEnd => AcceptsPreview(r, Preview(p, r))
           /\ Preview(p, r).stop_reason = "count_limit" =>
                [r EXCEPT !.address = Preview(p, r).next_address] \in DisassembleParams
<1> DEFINE rows == Decode(p, r.address, r.count)
           cursor == IF rows = <<>> THEN r.address ELSE NextOffset(rows[Len(rows)].end)
           v == Preview(p, r)
<1>1. r.address \in Offset /\ r.count \in Nat
  BY DEF DisassembleParams
<1>2. Chain(p, r.address, rows) /\ Len(rows) <= r.count
  BY <1>1, DecodesInChain DEF Decoded
<1> HIDE DEF rows
<1>3. /\ Len(rows) \in Nat /\ DOMAIN rows = 1..Len(rows)
      /\ \A i \in DOMAIN rows : rows[i] \in ToSet(p.units)
      /\ rows # <<>> => rows[Len(rows)] \in ToSet(p.units)
  BY <1>1, <1>2, BehindIs
<1>4. ASSUME NEW u \in ToSet(p.units)
      PROVE  u.end \in Nat /\ u.end <= MaxOffset
  BY UnitIs, OffsetIs
<1>5. /\ v.address = r.address /\ v.rows = rows /\ v.next_address = cursor
      /\ v.stop_reason = IF cursor = Absent \/ ~ Mapped(p, cursor) THEN "memory_end"
                         ELSE IF Len(rows) = r.count THEN "count_limit" ELSE "decode_failed"
  BY DEF Preview, rows
<1> HIDE DEF v
<1>6. ASSUME NoneAtTheEnd
      PROVE  AcceptsPreview(r, v)
  <2>1. ASSUME NEW i \in DOMAIN rows
        PROVE  /\ rows[i].at = IF i = 1 THEN r.address ELSE rows[i - 1].at + rows[i - 1].len
               /\ rows[i].len > 0 /\ rows[i].at + rows[i].len <= MaxOffset
    <3>1. rows[i] \in ToSet(p.units)
      BY <1>3
    <3>2. rows[i].at + rows[i].len = rows[i].end + 1
      BY <1>2, ChainAdds
    <3>3. rows[i].end + 1 <= MaxOffset
      <4>1. rows[i].end # MaxOffset
        BY <1>6, <3>1 DEF NoneAtTheEnd, ToSet
      <4> QED
        BY <1>4, <3>1, <4>1, OffsetsAreNumbers
    <3> QED
      BY <1>2, <3>2, <3>3, ChainAdds
  <2> QED
    BY <1>2, <1>5, <2>1 DEF AcceptsPreview, NextFits
<1>7. ASSUME v.stop_reason = "count_limit"
      PROVE  cursor \in Offset
  <2>1. cursor # Absent /\ Mapped(p, cursor)
    BY <1>5, <1>7
  <2>2. CASE rows = <<>>
    BY <1>1, <2>2
  <2>3. CASE rows # <<>>
    <3>1. rows[Len(rows)].end \in Nat /\ rows[Len(rows)].end <= MaxOffset
      BY <1>3, <1>4, <2>3
    <3>2. cursor = rows[Len(rows)].end + 1 /\ rows[Len(rows)].end # MaxOffset
      BY <2>1, <2>3 DEF NextOffset
    <3> QED
      BY <3>1, <3>2, OffsetsAreNumbers DEF Offset
  <2> QED
    BY <2>2, <2>3
<1>8. ASSUME cursor \in Offset
      PROVE  [r EXCEPT !.address = cursor] \in DisassembleParams
  <2> HIDE DEF cursor
  <2> QED
    BY <1>8 DEF DisassembleParams
<1> QED
  BY <1>5, <1>6, <1>7, <1>8 DEF v

-----------------------------------------------------------------------------
(* P-code.                                                                  *)

OpsOf(s) == SumOf([i \in DOMAIN s |-> s[i].ops])
\* What may have been collected after k steps.
Collected(p, at, k) ==
    {x \in [rows : Seq(ToSet(p.units)), done : Nat, next : Nat] :
        /\ Chain(p, at, x.rows) /\ Len(x.rows) <= k /\ x.next = Behind(at, x.rows)
        /\ x.done = OpsOf(x.rows) /\ x.done <= OpLimit}

LEMMA OpsOfMore ==
    ASSUME NEW p \in Programs, NEW s \in Seq(ToSet(p.units)), NEW u \in ToSet(p.units)
    PROVE  OpsOf(Append(s, u)) = OpsOf(s) + u.ops
<1> DEFINE n == Len(s)
           t == Append(s, u)
           a == [i \in DOMAIN s |-> s[i].ops]
           b == [i \in DOMAIN t |-> t[i].ops]
<1>1. n \in Nat /\ DOMAIN s = 1..n /\ \A i \in 1..n : s[i] \in ToSet(p.units)
  BY LenProperties, ElementOfSeq
<1>2. /\ t \in Seq(ToSet(p.units)) /\ Len(t) = n + 1 /\ t[n + 1] = u
      /\ \A i \in 1..n : t[i] = s[i]
  BY AppendProperties
<1> HIDE DEF t, n
<1>3. DOMAIN t = 1..(n + 1) /\ \A i \in 1..(n + 1) : t[i] \in ToSet(p.units)
  BY <1>2, LenProperties, ElementOfSeq
<1>4. a \in [1..n -> Int] /\ \A i \in 1..n : a[i] = s[i].ops
  BY <1>1, UnitIs
<1>5. b \in [1..(n + 1) -> Int] /\ \A i \in 1..(n + 1) : b[i] = t[i].ops
  BY <1>3, UnitIs
<1> HIDE DEF a, b
<1>6. a \in Seq(Int) /\ Len(a) = n /\ b \in Seq(Int) /\ Len(b) = n + 1
  BY <1>1, <1>4, <1>5
<1>7. \A i \in 1..n : b[i] = a[i]
  BY <1>1, <1>2, <1>4, <1>5
<1>8. SumOf(b) = SumOf(a) + b[n + 1]
  BY <1>6, <1>7, OneMoreSums
<1>9. b[n + 1] = u.ops
  BY <1>1, <1>2, <1>5
<1> QED
  BY <1>8, <1>9 DEF OpsOf, a, b, t

LEMMA CollectKeeps ==
    ASSUME NEW p \in Programs, NEW at \in Offset, NEW k \in Nat, NEW x \in Collected(p, at, k)
    PROVE  Collect(p, x) \in Collected(p, at, k + 1)
<1> DEFINE u == p.units[UnitAt(p, x.next)]
           more == InstructionAt(p, x.next) /\ PcodeFits(x.done, u)
<1>1. /\ x \in [rows : Seq(ToSet(p.units)), done : Nat, next : Nat]
      /\ Chain(p, at, x.rows) /\ Len(x.rows) <= k /\ x.next = Behind(at, x.rows)
      /\ x.done = OpsOf(x.rows) /\ x.done <= OpLimit
  BY DEF Collected
<1>2. Len(x.rows) \in Nat /\ x.rows \in Seq(ToSet(p.units)) /\ x.done \in Nat
  BY <1>1, LenProperties
<1>3. CASE more
  <2> DEFINE y == [rows |-> Append(x.rows, u), done |-> x.done + u.ops, next |-> u.end + 1]
  <2>1. Collect(p, x) = y
    BY <1>3 DEF Collect
  <2>2. Starts(p, Behind(at, x.rows)) /\ u = p.units[UnitAt(p, Behind(at, x.rows))]
    BY <1>1, <1>3 DEF InstructionAt
  <2>3. x.done + u.ops <= OpLimit
    BY <1>3 DEF PcodeFits
  <2> HIDE DEF u
  <2>4. /\ u \in ToSet(p.units) /\ Chain(p, at, Append(x.rows, u))
        /\ Len(Append(x.rows, u)) = Len(x.rows) + 1 /\ Behind(at, Append(x.rows, u)) = u.end + 1
    BY <1>1, <2>2, ChainGrows
  <2>5. u.ops \in Nat /\ u.end \in Nat
    <3>1. u \in CodeUnit
      BY <2>4, UnitIs
    <3>2. u.ops \in Nat
      BY <3>1 DEF CodeUnit
    <3> QED
      BY <2>4, <3>2, UnitIs, OffsetIs
  <2>6. OpsOf(Append(x.rows, u)) = x.done + u.ops
    BY <1>1, <1>2, <2>4, OpsOfMore
  <2>7. /\ y.rows = Append(x.rows, u) /\ y.done = x.done + u.ops /\ y.next = u.end + 1
        /\ y \in [rows : Seq(ToSet(p.units)), done : Nat, next : Nat]
    BY <1>2, <2>4, <2>5 DEF Chain
  <2> HIDE DEF y
  <2>8. Len(y.rows) <= k + 1
    BY <1>1, <1>2, <2>4, <2>7
  <2> QED
    BY <2>1, <2>3, <2>4, <2>6, <2>7, <2>8 DEF Collected
<1>4. CASE ~ more
  <2>1. Collect(p, x) = x
    BY <1>4 DEF Collect
  <2>2. Len(x.rows) <= k + 1
    BY <1>1, <1>2
  <2> QED
    BY <1>1, <2>1, <2>2 DEF Collected
<1> QED
  BY <1>3, <1>4

LEMMA CodeFromCollected ==
    ASSUME NEW p \in Programs, NEW at \in Offset, NEW n \in Nat
    PROVE  CodeFrom(p, at, n) \in Collected(p, at, n)
<1> DEFINE D == [rows : Seq(ToSet(p.units)), done : Nat, next : Nat]
           nothing == [rows |-> <<>>, done |-> 0, next |-> at]
           I == [k \in 0..n |-> Collected(p, at, k)]
           F == [q \in D \X (1..n) |-> Collect(p, q[1])]
           states(f) == [k \in 0..n |-> IF k = 0 THEN nothing ELSE Collect(p, f[k - 1])]
           run == CHOOSE f : f = states(f)
<1>1. \A k \in Nat : Collected(p, at, k) \in SUBSET D
  BY DEF Collected
<1>2. I \in [0..n -> SUBSET D] /\ \A k \in 0..n : I[k] = Collected(p, at, k)
  BY <1>1
<1>3. nothing \in Collected(p, at, 0)
  <2>1. nothing \in D
    BY OffsetIs, EmptySeq
  <2>2. nothing.rows = <<>> /\ nothing.done = 0 /\ nothing.next = at
    OBVIOUS
  <2>3. OpsOf(<<>>) = 0
    <3>1. [i \in DOMAIN <<>> |-> (<<>>)[i].ops] = <<>>
      OBVIOUS
    <3> QED
      BY <3>1, NothingSums DEF OpsOf
  <2>4. OpLimit \in Nat /\ 0 <= OpLimit /\ Len(<<>>) <= 0
    BY CoreAssumption, EmptySeq
  <2> HIDE DEF nothing
  <2> QED
    BY <2>1, <2>2, <2>3, <2>4, EmptyChain DEF Collected
<1>4. ASSUME NEW k \in 1..n, NEW x \in Collected(p, at, k - 1)
      PROVE  x \in D /\ Collect(p, x) \in Collected(p, at, k)
  <2>1. k - 1 \in Nat /\ (k - 1) + 1 = k
    OBVIOUS
  <2>2. Collect(p, x) \in Collected(p, at, (k - 1) + 1)
    BY <2>1, CollectKeeps
  <2> QED
    BY <1>1, <2>1, <2>2
<1>5. \A k \in 1..n : \A x \in Collected(p, at, k - 1) : F[<<x, k>>] = Collect(p, x)
  BY <1>4
<1> HIDE DEF D, F, nothing
<1>6. PICK f : /\ f \in [0..n -> D] /\ f[0] = nothing
               /\ \A k \in 1..n : /\ f[k - 1] \in Collected(p, at, k - 1)
                                  /\ f[k] = F[<<f[k - 1], k>>]
  <2>1. \A k \in 1..n : I[k] = Collected(p, at, k) /\ I[k - 1] = Collected(p, at, k - 1) /\ k - 1 \in 0..n
    BY <1>2
  <2>2. I[0] = Collected(p, at, 0)
    BY <1>2
  <2> HIDE DEF I
  <2>3. Leads(n, D, I, nothing, F)
    BY <1>2, <1>3, <1>4, <1>5, <2>1, <2>2 DEF Leads
  <2>4. PICK f : Follows(f, n, D, I, nothing, F)
    BY <2>3, Repetition
  <2> QED
    BY <2>1, <2>4 DEF Follows
<1>7. f = states(f)
  <2>1. \A k \in 1..n : f[k] = Collect(p, f[k - 1])
    BY <1>5, <1>6
  <2> QED
    BY <1>6, <2>1
<1>8. run = states(run)
  <2> HIDE DEF states
  <2> QED
    BY <1>7
<1>9. run[n] \in Collected(p, at, n)
  <2> HIDE DEF run
  <2> DEFINE S == {k \in 0..n : run[k] \in Collected(p, at, k)}
  <2>1. run[0] = nothing /\ \A k \in 1..n : run[k] = Collect(p, run[k - 1])
    BY <1>8
  <2>2. 0 \in S
    BY <1>3, <2>1
  <2>3. \A k \in 1..n : k - 1 \in S => k \in S
    BY <1>4, <2>1
  <2> HIDE DEF S
  <2>4. 0..n \subseteq S
    BY <2>2, <2>3, Upwards
  <2>5. n \in S
    BY <2>4
  <2> QED
    BY <2>5 DEF S
<1>10. CodeFrom(p, at, n) = run[n]
  BY DEF CodeFrom, nothing
<1> QED
  BY <1>9, <1>10

\* The P-code of an instruction is accepted, and a client can go on behind it.
LEMMA PcodeAccepted ==
    ASSUME NEW p \in Programs, NEW r \in DisassembleParams,
           Starts(p, r.address) /\ p.units[UnitAt(p, r.address)].kind = "instruction"
    PROVE  LET v == Pcode(p, r)
           IN /\ AcceptsPcode(r, v)
              /\ (v.truncation_reason # "none" /\ v.rows # <<>>) =>
                    [r EXCEPT !.address = v.rows[Len(v.rows)].at + v.rows[Len(v.rows)].len]
                        \in DisassembleParams
<1> DEFINE run == CodeFrom(p, r.address, r.count)
           v == Pcode(p, r)
           rows == run.rows
           next == run.next
<1>1. r.address \in Offset /\ r.count \in Nat
  BY DEF DisassembleParams
<1>2. run \in Collected(p, r.address, r.count)
  BY <1>1, CodeFromCollected
<1>3. /\ v.address = r.address /\ v.rows = rows /\ v.operation_count = run.done
      /\ v.truncation_reason = IF ~ InstructionAt(p, next) THEN "none"
                               ELSE IF Len(rows) = r.count THEN "instruction_count"
                               ELSE "operation_or_varnode_limit"
  BY DEF Pcode
<1> HIDE DEF run, v
<1>4. /\ Chain(p, r.address, rows) /\ Len(rows) <= r.count /\ next = Behind(r.address, rows)
      /\ run.done = OpsOf(rows) /\ run.done <= OpLimit /\ next \in Nat
  BY <1>2 DEF Collected
<1> HIDE DEF rows, next
<1>5. /\ Len(rows) \in Nat /\ DOMAIN rows = 1..Len(rows)
      /\ \A i \in DOMAIN rows : rows[i] \in ToSet(p.units)
  BY <1>1, <1>4, BehindIs
<1>6. v.truncation_reason # "none" => InstructionAt(p, next)
  BY <1>3
<1>7. InstructionAt(p, next) => next \in Offset
  <2>1. p.top \in Nat /\ p.top <= MaxOffset
    BY ProgramIs, OffsetIs
  <2> QED
    BY <1>4, <2>1, OffsetsAreNumbers DEF InstructionAt, Starts, Mapped, Offset
<1>8. ASSUME NEW i \in DOMAIN rows
      PROVE  /\ rows[i].len > 0
             /\ rows[i].at = IF i = 1 THEN r.address ELSE rows[i - 1].at + rows[i - 1].len
             /\ i < Len(rows) => rows[i].at + rows[i].len <= MaxOffset
  <2>1. ASSUME i < Len(rows)
        PROVE  rows[i].at + rows[i].len <= MaxOffset
    <3>1. i + 1 \in DOMAIN rows /\ i + 1 # 1 /\ (i + 1) - 1 = i
      BY <1>5, <2>1
    <3>2. rows[i + 1].at = rows[i].at + rows[i].len
      BY <1>4, <3>1, ChainAdds
    <3>3. rows[i + 1].at \in Offset
      BY <1>5, <3>1, UnitIs
    <3> QED
      BY <3>2, <3>3, OffsetIs
  <2> QED
    BY <1>4, <2>1, ChainAdds
<1>9. v.truncation_reason = "none" => rows # <<>>
  <2>1. ASSUME rows = <<>>
        PROVE  InstructionAt(p, next)
    <3>1. next = r.address
      BY <1>4, <2>1, EmptyChain
    <3> QED
      BY <3>1 DEF InstructionAt
  <2> QED
    BY <1>3, <2>1
<1>10. AcceptsPcode(r, v)
  <2>1. SumOf([i \in DOMAIN v.rows |-> v.rows[i].ops]) = run.done
    BY <1>3, <1>4 DEF OpsOf
  <2>2. v.truncation_reason = "instruction_count" => Len(rows) = r.count
    BY <1>3
  <2> QED
    BY <1>3, <1>4, <1>8, <1>9, <2>1, <2>2 DEF AcceptsPcode
<1>11. ASSUME v.truncation_reason # "none", rows # <<>>
       PROVE  rows[Len(rows)].at + rows[Len(rows)].len \in Offset
  <2>1. Len(rows) \in DOMAIN rows
    BY <1>4, <1>5, <1>11, EmptySeq DEF Chain
  <2>2. rows[Len(rows)].at + rows[Len(rows)].len = next
    BY <1>4, <1>11, <2>1, ChainAdds DEF Behind
  <2> QED
    BY <1>6, <1>7, <1>11, <2>2
<1>12. ASSUME NEW at \in Offset
       PROVE  [r EXCEPT !.address = at] \in DisassembleParams
  BY DEF DisassembleParams
<1> QED
  BY <1>3, <1>10, <1>11, <1>12 DEF v

-----------------------------------------------------------------------------
(* Sequences without repetition.                                            *)

\* One more, which is not among them.
LEMMA OneMore ==
    ASSUME NEW S, NEW s \in Seq(S), NEW x \in S
    PROVE  /\ Append(s, x) \in Seq(S) /\ Len(Append(s, x)) = Len(s) + 1
           /\ DOMAIN Append(s, x) = 1..(Len(s) + 1)
           /\ \A i \in 1..Len(s) : Append(s, x)[i] = s[i]
           /\ Append(s, x)[Len(s) + 1] = x
           /\ ToSet(Append(s, x)) = ToSet(s) \cup {x}
           /\ IsInjective(s) /\ x \notin ToSet(s) => IsInjective(Append(s, x))
<1> DEFINE t == Append(s, x)
           n == Len(s)
<1>1. /\ t \in Seq(S) /\ Len(t) = n + 1 /\ t[n + 1] = x
      /\ \A i \in 1..n : t[i] = s[i]
  BY AppendProperties
<1>2. n \in Nat /\ DOMAIN s = 1..n
  BY LenProperties
<1> HIDE DEF t, n
<1>3. DOMAIN t = 1..(n + 1)
  BY <1>1, LenProperties
<1>4. 1..(n + 1) = 1..n \cup {n + 1} /\ n + 1 \notin 1..n
  BY <1>2
<1>5. ToSet(t) = ToSet(s) \cup {x}
  BY <1>1, <1>2, <1>3, <1>4 DEF ToSet
<1>6. ASSUME IsInjective(s), x \notin ToSet(s)
      PROVE  IsInjective(t)
  <2>1. \A i \in 1..n : s[i] # x
    BY <1>2, <1>6 DEF ToSet
  <2>2. \A i, j \in 1..n : s[i] = s[j] => i = j
    BY <1>2, <1>6 DEF IsInjective
  <2> QED
    BY <1>1, <1>3, <1>4, <2>1, <2>2 DEF IsInjective
<1> QED
  BY <1>1, <1>3, <1>5, <1>6 DEF t, n

\* The first of them, and the others.
LEMMA FirstAndRest ==
    ASSUME NEW S, NEW s \in Seq(S), s # <<>>
    PROVE  /\ Head(s) \in S /\ Tail(s) \in Seq(S) /\ Len(s) = Len(Tail(s)) + 1
           /\ ToSet(s) = {Head(s)} \cup ToSet(Tail(s))
           /\ IsInjective(s) => IsInjective(Tail(s)) /\ Head(s) \notin ToSet(Tail(s))
<1> DEFINE t == Tail(s)
           n == Len(s)
<1>1. /\ Head(s) \in S /\ t \in Seq(S) /\ Len(t) = n - 1
      /\ \A i \in 1..Len(t) : t[i] = s[i + 1]
  BY HeadTailProperties
<1>2. n \in Nat \ {0} /\ DOMAIN s = 1..n /\ Head(s) = s[1]
  BY LenProperties, EmptySeq
<1>3. Len(t) \in Nat /\ DOMAIN t = 1..Len(t)
  BY <1>1, LenProperties
<1> HIDE DEF t, n
<1>4. DOMAIN t = 1..(n - 1) /\ \A i \in 1..(n - 1) : t[i] = s[i + 1] /\ i + 1 \in 1..n /\ i + 1 # 1
  BY <1>1, <1>2, <1>3
<1>5. \A i \in 1..n : i = 1 \/ (i - 1 \in 1..(n - 1) /\ (i - 1) + 1 = i)
  BY <1>2
<1>6. ToSet(s) = {Head(s)} \cup ToSet(t)
  <2>1. ToSet(s) \subseteq {Head(s)} \cup ToSet(t)
    <3> SUFFICES ASSUME NEW i \in 1..n PROVE s[i] = Head(s) \/ s[i] \in ToSet(t)
      BY <1>2 DEF ToSet
    <3>1. CASE i = 1
      BY <1>2, <3>1
    <3>2. CASE i # 1
      <4>1. i - 1 \in 1..(n - 1) /\ t[i - 1] = s[i]
        BY <1>4, <1>5, <3>2
      <4> QED
        BY <1>4, <4>1 DEF ToSet
    <3> QED
      BY <3>1, <3>2
  <2>2. ToSet(t) \subseteq ToSet(s)
    BY <1>2, <1>4 DEF ToSet
  <2>3. Head(s) \in ToSet(s)
    <3>1. 1 \in DOMAIN s
      BY <1>2
    <3> QED
      BY <1>2, <3>1 DEF ToSet
  <2> QED
    BY <2>1, <2>2, <2>3
<1>7. ASSUME IsInjective(s)
      PROVE  IsInjective(t) /\ Head(s) \notin ToSet(t)
  <2>1. \A i, j \in 1..n : s[i] = s[j] => i = j
    BY <1>2, <1>7 DEF IsInjective
  <2>2. IsInjective(t)
    <3> SUFFICES ASSUME NEW i \in 1..(n - 1), NEW j \in 1..(n - 1), t[i] = t[j] PROVE i = j
      BY <1>4 DEF IsInjective
    <3>1. i + 1 = j + 1
      BY <1>4, <2>1
    <3> QED
      BY <3>1
  <2>3. \A i \in 1..(n - 1) : t[i] # s[1]
    <3> TAKE i \in 1..(n - 1)
    <3>1. i + 1 \in 1..n /\ i + 1 # 1 /\ 1 \in 1..n /\ t[i] = s[i + 1]
      BY <1>2, <1>4
    <3> QED
      BY <2>1, <3>1
  <2> QED
    BY <1>2, <1>4, <2>2, <2>3 DEF ToSet
<1> QED
  BY <1>1, <1>2, <1>3, <1>6, <1>7 DEF t, n

\* Two of them that have nothing in common.
LEMMA OneAfterTheOther ==
    ASSUME NEW S, NEW s \in Seq(S), NEW t \in Seq(S)
    PROVE  /\ s \o t \in Seq(S) /\ Len(s \o t) = Len(s) + Len(t)
           /\ ToSet(s \o t) = ToSet(s) \cup ToSet(t)
           /\ IsInjective(s) /\ IsInjective(t) /\ ToSet(s) \cap ToSet(t) = {} => IsInjective(s \o t)
<1>1. Joined(s, t, S, S)
  BY JoinLists
<1>2. s \o t \in Seq(S)
  BY ConcatProperties
<1>3. ToSet(s) \cap ToSet(t) = {} => \A i \in DOMAIN s, j \in DOMAIN t : s[i] # t[j]
  BY DEF ToSet
<1> QED
  BY <1>1, <1>2, <1>3 DEF Joined

\* They are as many as their members.
LEMMA InjectiveCounts ==
    ASSUME NEW S, NEW s \in Seq(S), IsInjective(s)
    PROVE  IsFiniteSet(ToSet(s)) /\ Cardinality(ToSet(s)) = Len(s) /\ Len(s) \in Nat
<1>1. Len(s) \in Nat /\ DOMAIN s = 1..Len(s)
  BY LenProperties
<1>2. s \in [1..Len(s) -> ToSet(s)]
  <2>1. s \in [1..Len(s) -> S]
    BY LenProperties
  <2> QED
    BY <1>1, <2>1 DEF ToSet
<1>3. s \in Bijection(1..Len(s), ToSet(s))
  <2>1. s \in Injection(1..Len(s), ToSet(s))
    BY <1>2 DEF Injection
  <2>2. s \in Surjection(1..Len(s), ToSet(s))
    BY <1>1, <1>2 DEF Surjection, ToSet
  <2> QED
    BY <2>1, <2>2 DEF Bijection
<1>4. ExistsBijection(1..Len(s), ToSet(s))
  BY <1>3 DEF ExistsBijection
<1>5. IsFiniteSet(1..Len(s))
  BY <1>1, FS_Interval
<1>6. IsFiniteSet(ToSet(s))
  BY <1>4, <1>5, FS_Bijection
<1> QED
  BY <1>1, <1>4, <1>6, FS_CountingElements

LEMMA InjectiveFits ==
    ASSUME NEW S, NEW s \in Seq(S), NEW t \in Seq(S), IsInjective(s), IsInjective(t),
           ToSet(s) \subseteq ToSet(t)
    PROVE  Len(s) <= Len(t)
<1>1. /\ Cardinality(ToSet(s)) = Len(s) /\ Cardinality(ToSet(t)) = Len(t)
      /\ IsFiniteSet(ToSet(t))
  BY InjectiveCounts
<1>2. ToSet(s) \in SUBSET ToSet(t)
  OBVIOUS
<1>3. Cardinality(ToSet(s)) <= Cardinality(ToSet(t))
  BY <1>1, <1>2, FS_Subset
<1> QED
  BY <1>1, <1>3

-----------------------------------------------------------------------------
(* Control flow.                                                            *)

LEMMA CallsAreFinite ==
    ASSUME NEW p \in Programs
    PROVE  p.calls \in SUBSET (Nat \X Nat) /\ IsFiniteSet(p.calls)
  BY ProgramsAssumption, Zenon

\* A finite set of pairs has finitely many first and second members.
LEMMA PairEnds ==
    ASSUME NEW C \in SUBSET (Nat \X Nat), IsFiniteSet(C)
    PROVE  /\ {c[1] : c \in C} \in SUBSET Int /\ IsFiniteSet({c[1] : c \in C})
           /\ {c[2] : c \in C} \in SUBSET Int /\ IsFiniteSet({c[2] : c \in C})
<1>1. \A c \in C : c[1] \in Nat /\ c[2] \in Nat
  OBVIOUS
<1>2. [c \in C |-> c[1]] \in Surjection(C, {c[1] : c \in C})
  BY DEF Surjection
<1>3. [c \in C |-> c[2]] \in Surjection(C, {c[2] : c \in C})
  BY DEF Surjection
<1> QED
  BY <1>1, <1>2, <1>3, FS_Surjection

\* The calls that are read at a function begin, or end, there.
LEMMA CallsAre ==
    ASSUME NEW p \in Programs, NEW f \in Nat
    PROVE  /\ CallsFrom(p, f) \in Seq(Nat \X Nat)
           /\ \A i \in DOMAIN CallsFrom(p, f) : CallsFrom(p, f)[i][1] = f
           /\ CallsTo(p, f) \in Seq(Nat \X Nat)
           /\ \A i \in DOMAIN CallsTo(p, f) : CallsTo(p, f)[i][2] = f
<1>1. ASSUME NEW C \in SUBSET p.calls
      PROVE  /\ IsFiniteSet(C)
             /\ \A S : S \in {{c[1] : c \in C}, {c[2] : c \in C}} =>
                    Ascending(S) \in Seq(Nat)
  <2>1. IsFiniteSet(C) /\ C \in SUBSET (Nat \X Nat)
    BY CallsAreFinite, FS_Subset
  <2>2. ASSUME NEW S \in SUBSET Nat, IsFiniteSet(S)
        PROVE  Ascending(S) \in Seq(Nat)
    <3>1. Ascending(S) \in [1..Cardinality(S) -> S] /\ Cardinality(S) \in Nat
      BY <2>2, AscendingLists
    <3>2. Ascending(S) \in [1..Cardinality(S) -> Nat]
      BY <3>1
    <3> QED
      BY <3>1, <3>2, SeqDef
  <2>3. {c[1] : c \in C} \in SUBSET Nat /\ {c[2] : c \in C} \in SUBSET Nat
    BY <2>1
  <2>4. IsFiniteSet({c[1] : c \in C}) /\ IsFiniteSet({c[2] : c \in C})
    BY <2>1, PairEnds
  <2>5. Ascending({c[1] : c \in C}) \in Seq(Nat)
    BY <2>2, <2>3, <2>4
  <2>6. Ascending({c[2] : c \in C}) \in Seq(Nat)
    BY <2>2, <2>3, <2>4
  <2> QED
    BY <2>1, <2>5, <2>6
<1> DEFINE out == {d \in p.calls : d[1] = f}
           in  == {d \in p.calls : d[2] = f}
           to  == Ascending({c[2] : c \in out})
           from == Ascending({c[1] : c \in in})
<1>2. to \in Seq(Nat)
  <2>1. out \in SUBSET p.calls
    OBVIOUS
  <2> HIDE DEF out
  <2> QED
    BY <1>1, <2>1
<1>3. from \in Seq(Nat)
  <2>1. in \in SUBSET p.calls
    OBVIOUS
  <2> HIDE DEF in
  <2> QED
    BY <1>1, <2>1
<1>4. CallsFrom(p, f) = [i \in DOMAIN to |-> <<f, to[i]>>]
  BY DEF CallsFrom
<1>5. CallsTo(p, f) = [i \in DOMAIN from |-> <<from[i], f>>]
  BY DEF CallsTo
<1> HIDE DEF to, from
<1>6. ASSUME NEW s \in Seq(Nat)
      PROVE  /\ DOMAIN s = 1..Len(s) /\ Len(s) \in Nat
             /\ [i \in DOMAIN s |-> <<f, s[i]>>] \in Seq(Nat \X Nat)
             /\ [i \in DOMAIN s |-> <<s[i], f>>] \in Seq(Nat \X Nat)
  <2>1. DOMAIN s = 1..Len(s) /\ Len(s) \in Nat /\ \A i \in DOMAIN s : s[i] \in Nat
    BY LenProperties, ElementOfSeq
  <2>2. /\ [i \in DOMAIN s |-> <<f, s[i]>>] \in [1..Len(s) -> Nat \X Nat]
        /\ [i \in DOMAIN s |-> <<s[i], f>>] \in [1..Len(s) -> Nat \X Nat]
    BY <2>1
  <2> QED
    BY <2>1, <2>2, SeqDef
<1>7. CallsFrom(p, f) \in Seq(Nat \X Nat) /\ CallsTo(p, f) \in Seq(Nat \X Nat)
  BY <1>2, <1>3, <1>4, <1>5, <1>6
<1>8. \A i \in DOMAIN CallsFrom(p, f) : CallsFrom(p, f)[i][1] = f
  BY <1>4
<1>9. \A i \in DOMAIN CallsTo(p, f) : CallsTo(p, f)[i][2] = f
  BY <1>5
<1> QED
  BY <1>7, <1>8, <1>9

\* What has been collected of the first k blocks.
FlowRecord ==
    [blocks : Seq(Nat), edges : Seq(Nat \X Nat), reason : {"none", "block_limit", "edge_limit"}]
Flowed(p, r, k) ==
    {g \in FlowRecord :
        /\ IsInjective(g.blocks) /\ ToSet(g.blocks) \subseteq 1..k
        /\ Len(g.blocks) <= r.max_blocks /\ Len(g.edges) <= r.max_edges
        /\ \A i \in DOMAIN g.edges : g.edges[i][1] \in ToSet(g.blocks)}

LEMMA FlowKeeps ==
    ASSUME NEW p \in Programs, NEW r \in ControlFlowParams, NEW k \in Nat \ {0},
           NEW g \in Flowed(p, r, k - 1)
    PROVE  FlowStep(p, r, g, k) \in Flowed(p, r, k)
<1> DEFINE out == CallsFrom(p, k)
           room == r.max_edges - Len(g.edges)
           blocks == Append(g.blocks, k)
           taken == Take(out, 0, room)
           edges == g.edges \o taken
<1>1. /\ g.blocks \in Seq(Nat) /\ g.edges \in Seq(Nat \X Nat)
      /\ g.reason \in {"none", "block_limit", "edge_limit"}
      /\ IsInjective(g.blocks) /\ ToSet(g.blocks) \subseteq 1..(k - 1)
      /\ Len(g.blocks) <= r.max_blocks /\ Len(g.edges) <= r.max_edges
      /\ \A i \in DOMAIN g.edges : g.edges[i][1] \in ToSet(g.blocks)
  BY DEF Flowed, FlowRecord
<1>2. g = [blocks |-> g.blocks, edges |-> g.edges, reason |-> g.reason]
  BY DEF Flowed, FlowRecord
<1>3. Len(g.blocks) \in Nat /\ Len(g.edges) \in Nat /\ r.max_edges \in Nat /\ r.max_blocks \in Nat
  <2>1. r.max_edges \in Limit(2048)
    BY DEF ControlFlowParams
  <2>2. Len(g.blocks) \in Nat /\ Len(g.edges) \in Nat
    BY <1>1, LenProperties
  <2>3. r.max_edges \in Nat
    BY <2>1, LimitsAreNumbers
  <2>4. r.max_blocks \in Nat
    BY DEF ControlFlowParams
  <2> QED
    BY <2>2, <2>3, <2>4
<1>4. 1..(k - 1) \subseteq 1..k /\ k \notin 1..(k - 1) /\ k \in 1..k
  OBVIOUS
<1>5. CASE g.reason # "none"
  <2>1. FlowStep(p, r, g, k) = g
    BY <1>5 DEF FlowStep
  <2> QED
    BY <1>1, <1>4, <2>1 DEF Flowed
<1>6. CASE g.reason = "none" /\ Len(g.blocks) = r.max_blocks
  <2> DEFINE h == [blocks |-> g.blocks, edges |-> g.edges, reason |-> "block_limit"]
  <2>1. FlowStep(p, r, g, k) = h
    BY <1>2, <1>6 DEF FlowStep
  <2>2. h \in FlowRecord
    BY <1>1 DEF FlowRecord
  <2>3. h.blocks = g.blocks /\ h.edges = g.edges
    OBVIOUS
  <2> HIDE DEF h
  <2> QED
    BY <1>1, <1>4, <2>1, <2>2, <2>3 DEF Flowed
<1>7. CASE g.reason = "none" /\ Len(g.blocks) # r.max_blocks
  <2>0. room \in Nat
    BY <1>1, <1>3
  <2> DEFINE h == [blocks |-> blocks, edges |-> edges,
                   reason |-> IF Len(out) > room THEN "edge_limit" ELSE "none"]
  <2>1. FlowStep(p, r, g, k) = h
    BY <1>7 DEF FlowStep
  <2>2. /\ blocks \in Seq(Nat) /\ Len(blocks) = Len(g.blocks) + 1
        /\ ToSet(blocks) = ToSet(g.blocks) \cup {k} /\ IsInjective(blocks)
    <3>1. k \notin ToSet(g.blocks)
      BY <1>1, <1>4
    <3> QED
      BY <1>1, <3>1, OneMore
  <2>3. out \in Seq(Nat \X Nat) /\ \A i \in DOMAIN out : out[i][1] = k
    BY CallsAre
  <2> HIDE DEF out, room, blocks
  <2>4. /\ taken \in Seq(Nat \X Nat) /\ Len(taken) \in Nat /\ Len(taken) <= room
        /\ \A i \in 1..Len(taken) : i \in DOMAIN out /\ taken[i] = out[i]
    <3>1. Len(out) \in Nat
      BY <2>3, LenProperties
    <3> DEFINE m == IF room <= Len(out) THEN room ELSE Len(out)
    <3>2. /\ taken \in Seq(Nat \X Nat) /\ Len(taken) = m
          /\ \A i \in 1..m : i \in DOMAIN out /\ taken[i] = out[i]
      <4> HIDE DEF m
      <4>1. /\ Take(out, 0, room) \in Seq(Nat \X Nat) /\ Len(Take(out, 0, room)) = m
            /\ \A i \in 1..m : i \in DOMAIN out /\ Take(out, 0, room)[i] = out[i]
        BY <2>0, <2>3, TakeFirst DEF m
      <4> QED
        BY <4>1
    <3>3. m \in Nat /\ m <= room
      BY <2>0, <3>1
    <3> QED
      BY <3>2, <3>3
  <2> HIDE DEF taken
  <2>5. Joined(g.edges, taken, Nat \X Nat, Nat \X Nat) /\ edges \in Seq(Nat \X Nat)
    BY <1>1, <2>4, JoinLists, ConcatProperties
  <2>6. Len(edges) <= r.max_edges
    <3>1. Len(edges) = Len(g.edges) + Len(taken)
      BY <2>5 DEF Joined
    <3> HIDE DEF edges
    <3> QED
      BY <1>3, <2>4, <3>1 DEF room
  <2>7. ASSUME NEW i \in DOMAIN edges
        PROVE  edges[i][1] \in ToSet(blocks)
    <3>1. CASE i > Len(g.edges)
      <4>1. i - Len(g.edges) \in DOMAIN taken /\ edges[i] = taken[i - Len(g.edges)]
        BY <2>5, <3>1 DEF Joined
      <4>2. DOMAIN taken = 1..Len(taken)
        BY <2>4, LenProperties
      <4>3. edges[i][1] = k
        BY <2>3, <2>4, <4>1, <4>2
      <4> QED
        BY <2>2, <4>3
    <3>2. CASE ~ (i > Len(g.edges))
      <4>1. DOMAIN edges = 1..(Len(g.edges) + Len(taken))
        BY <2>5 DEF Joined
      <4>2. i \in 1..Len(g.edges)
        BY <1>3, <2>4, <3>2, <4>1
      <4>3. edges[i] = g.edges[i] /\ i \in DOMAIN g.edges
        BY <1>1, <2>5, <4>2, LenProperties DEF Joined
      <4> QED
        BY <1>1, <2>2, <4>3
    <3> QED
      BY <3>1, <3>2
  <2> HIDE DEF edges
  <2>8. h \in FlowRecord /\ h.blocks = blocks /\ h.edges = edges
    BY <2>2, <2>5 DEF FlowRecord, edges
  <2> HIDE DEF h
  <2>9. Len(blocks) <= r.max_blocks
    BY <1>1, <1>3, <1>7, <2>2
  <2>10. ToSet(blocks) \subseteq 1..k
    BY <1>1, <1>4, <2>2
  <2> QED
    BY <2>1, <2>2, <2>6, <2>7, <2>8, <2>9, <2>10 DEF Flowed
<1> QED
  BY <1>5, <1>6, <1>7

FlowStart == [blocks |-> <<>>, edges |-> <<>>, reason |-> "none"]
FlowOf(p, r, n) ==
    LET flow[b \in 0..n] == IF b = 0 THEN FlowStart ELSE FlowStep(p, r, flow[b - 1], b)
    IN flow[n]

LEMMA NothingFlowed ==
    ASSUME NEW p, NEW r \in ControlFlowParams
    PROVE  FlowStart \in Flowed(p, r, 0)
<1>1. /\ FlowStart.blocks = <<>> /\ FlowStart.edges = <<>> /\ FlowStart \in FlowRecord
  BY EmptySeq DEF FlowStart, FlowRecord
<1>2. IsInjective(<<>>) /\ ToSet(<<>>) = {} /\ DOMAIN <<>> = {} /\ Len(<<>>) = 0
  BY EmptySeq DEF IsInjective, ToSet
<1>3. r.max_blocks >= 0 /\ r.max_edges >= 0
  <2>1. r.max_edges \in Limit(2048) /\ r.max_blocks \in 1..256
    BY DEF ControlFlowParams
  <2> QED
    BY <2>1, LimitsAreNumbers
<1> QED
  BY <1>1, <1>2, <1>3 DEF Flowed

LEMMA FlowsTo ==
    ASSUME NEW p \in Programs, NEW r \in ControlFlowParams, NEW m \in Nat
    PROVE  FlowOf(p, r, m) \in Flowed(p, r, m)
<1> DEFINE n == m
           D == FlowRecord
           start == FlowStart
           I == [k \in 0..n |-> Flowed(p, r, k)]
           F == [q \in D \X (1..n) |-> FlowStep(p, r, q[1], q[2])]
           states(f) == [k \in 0..n |-> IF k = 0 THEN start ELSE FlowStep(p, r, f[k - 1], k)]
           run == CHOOSE f : f = states(f)
<1>0. n \in Nat
  OBVIOUS
<1>1. \A k \in Nat : Flowed(p, r, k) \in SUBSET D
  BY DEF Flowed
<1>2. I \in [0..n -> SUBSET D] /\ \A k \in 0..n : I[k] = Flowed(p, r, k)
  BY <1>1
<1>3. start \in Flowed(p, r, 0)
  BY NothingFlowed
<1>4. ASSUME NEW k \in 1..n, NEW x \in Flowed(p, r, k - 1)
      PROVE  x \in D /\ FlowStep(p, r, x, k) \in Flowed(p, r, k)
  <2>1. k - 1 \in Nat /\ (k - 1) + 1 = k
    BY <1>0
  <2>2. FlowStep(p, r, x, k) \in Flowed(p, r, k)
    BY <2>1, FlowKeeps
  <2> QED
    BY <1>1, <2>1, <2>2
<1>5. \A k \in 1..n : \A x \in Flowed(p, r, k - 1) : F[<<x, k>>] = FlowStep(p, r, x, k)
  BY <1>4
<1> HIDE DEF D, F, start
<1>6. PICK f : /\ f \in [0..n -> D] /\ f[0] = start
               /\ \A k \in 1..n : f[k - 1] \in Flowed(p, r, k - 1) /\ f[k] = F[<<f[k - 1], k>>]
  <2>1. \A k \in 1..n : I[k] = Flowed(p, r, k) /\ I[k - 1] = Flowed(p, r, k - 1) /\ k - 1 \in 0..n
    BY <1>0, <1>2
  <2>2. I[0] = Flowed(p, r, 0)
    BY <1>0, <1>2
  <2> HIDE DEF I
  <2>3. Leads(n, D, I, start, F)
    BY <1>0, <1>2, <1>3, <1>4, <1>5, <2>1, <2>2 DEF Leads
  <2>4. PICK f : Follows(f, n, D, I, start, F)
    BY <2>3, Repetition
  <2> QED
    BY <2>1, <2>4 DEF Follows
<1>7. f = states(f)
  <2>1. \A k \in 1..n : f[k] = FlowStep(p, r, f[k - 1], k)
    BY <1>5, <1>6
  <2> QED
    BY <1>6, <2>1
<1>8. run = states(run)
  <2> HIDE DEF states
  <2> QED
    BY <1>7
<1>9. run[n] \in Flowed(p, r, n)
  <2> HIDE DEF run
  <2> DEFINE S == {k \in 0..n : run[k] \in Flowed(p, r, k)}
  <2>1. run[0] = start /\ \A k \in 1..n : run[k] = FlowStep(p, r, run[k - 1], k)
    BY <1>0, <1>8
  <2>2. 0 \in S
    BY <1>0, <1>3, <2>1
  <2>3. \A k \in 1..n : k - 1 \in S => k \in S
    BY <1>0, <1>4, <2>1
  <2> HIDE DEF S
  <2>4. 0..n \subseteq S
    BY <1>0, <2>2, <2>3, Upwards
  <2>5. n \in S
    BY <1>0, <2>4
  <2> QED
    BY <2>5 DEF S
<1>10. FlowOf(p, r, m) = run[n]
  BY DEF FlowOf, start
<1> QED
  BY <1>9, <1>10

\* The basic blocks of a function are accepted, whatever ends them.
LEMMA ControlFlowAccepted ==
    ASSUME NEW p \in Programs, NEW r \in ControlFlowParams, NEW time \in Nat
    PROVE  AcceptsControlFlow(r, ControlFlow(p, r, time))
<1> DEFINE n == Min({p.size, time})
           g == FlowOf(p, r, n)
           v == ControlFlow(p, r, time)
           why == IF time < p.size /\ g.reason = "none" THEN "time_limit" ELSE g.reason
<1>1. n \in Nat
  BY ProgramIs, MinOfTwo
<1>2. g \in Flowed(p, r, n)
  <2> HIDE DEF n
  <2> QED
    BY <1>1, FlowsTo
<1>3. /\ v.address = r.address /\ v.rows = g.blocks /\ v.edges = g.edges
      /\ v.status = Status(why)
  BY DEF ControlFlow, FlowOf, FlowStart
<1> HIDE DEF n, g, v
<1>4. /\ g.reason \in {"none", "block_limit", "edge_limit"}
      /\ IsInjective(g.blocks)
      /\ Len(g.blocks) <= r.max_blocks /\ Len(g.edges) <= r.max_edges
      /\ \A i \in DOMAIN g.edges : g.edges[i][1] \in ToSet(g.blocks)
  BY <1>2 DEF Flowed, FlowRecord
<1>5. why \in {"none", "block_limit", "edge_limit", "time_limit"}
  BY <1>4
<1> HIDE DEF why
<1>6. v.status.reason = why /\ v.status.truncated = (why # "none")
  BY <1>3 DEF Status
<1>7. Early(v, {"scan_limit", "time_limit", "block_limit", "edge_limit", "block_range_limit"})
  BY <1>5, <1>6 DEF Early
<1>8. AcceptsControlFlow(r, v)
  BY <1>3, <1>4, <1>7 DEF AcceptsControlFlow
<1> QED
  BY <1>8 DEF v

-----------------------------------------------------------------------------
(* Call graphs.                                                             *)

Graph(nodes, depth, edges, queue, frontier, limit, reason) ==
    [nodes |-> nodes, depth |-> depth, edges |-> edges, queue |-> queue,
     frontier |-> frontier, depthLimit |-> limit, reason |-> reason]

\* The changes of several fields that a walk makes.
WithFunction(g, w, x, y, z) == [g EXCEPT !.edges = y, !.nodes = w, !.depth = x, !.queue = z]
AtDepthLimit(g, x, y) == [g EXCEPT !.frontier = x, !.depthLimit = y]
GivenUp(g, x, y) == [g EXCEPT !.frontier = x, !.queue = y]
Late(g, x, y) == [g EXCEPT !.reason = x, !.frontier = y]

LEMMA WithFunctionIs ==
    ASSUME NEW a, NEW b, NEW c, NEW d, NEW e, NEW h, NEW i, NEW g,
           g = Graph(a, b, c, d, e, h, i), NEW w, NEW x, NEW y, NEW z
    PROVE  WithFunction(g, w, x, y, z) = Graph(w, x, y, z, e, h, i)
<1>1. PICK g1 : g1 = [g EXCEPT !.edges = y]
  OBVIOUS
<1>2. PICK g2 : g2 = [g1 EXCEPT !.nodes = w]
  OBVIOUS
<1>3. PICK g3 : g3 = [g2 EXCEPT !.depth = x]
  OBVIOUS
<1>4. g1 = Graph(a, b, y, d, e, h, i)
  BY <1>1 DEF Graph
<1>5. g2 = Graph(w, b, y, d, e, h, i)
  BY <1>2, <1>4 DEF Graph
<1>6. g3 = Graph(w, x, y, d, e, h, i)
  BY <1>3, <1>5 DEF Graph
<1>7. [g3 EXCEPT !.queue = z] = Graph(w, x, y, z, e, h, i)
  BY <1>6 DEF Graph
<1>8. [g EXCEPT !.edges = y, !.nodes = w, !.depth = x, !.queue = z] = [g3 EXCEPT !.queue = z]
  BY <1>1, <1>2, <1>3
<1> QED
  BY <1>7, <1>8 DEF WithFunction

LEMMA AtDepthLimitIs ==
    ASSUME NEW a, NEW b, NEW c, NEW d, NEW e, NEW h, NEW i, NEW g,
           g = Graph(a, b, c, d, e, h, i), NEW x, NEW y
    PROVE  AtDepthLimit(g, x, y) = Graph(a, b, c, d, x, y, i)
<1>1. PICK g1 : g1 = [g EXCEPT !.frontier = x]
  OBVIOUS
<1>2. g1 = Graph(a, b, c, d, x, h, i)
  BY <1>1 DEF Graph
<1>3. [g1 EXCEPT !.depthLimit = y] = Graph(a, b, c, d, x, y, i)
  BY <1>2 DEF Graph
<1>4. [g EXCEPT !.frontier = x, !.depthLimit = y] = [g1 EXCEPT !.depthLimit = y]
  BY <1>1
<1> QED
  BY <1>3, <1>4 DEF AtDepthLimit

LEMMA GivenUpIs ==
    ASSUME NEW a, NEW b, NEW c, NEW d, NEW e, NEW h, NEW i, NEW g,
           g = Graph(a, b, c, d, e, h, i), NEW x, NEW y
    PROVE  GivenUp(g, x, y) = Graph(a, b, c, y, x, h, i)
<1>1. PICK g1 : g1 = [g EXCEPT !.frontier = x]
  OBVIOUS
<1>2. g1 = Graph(a, b, c, d, x, h, i)
  BY <1>1 DEF Graph
<1>3. [g1 EXCEPT !.queue = y] = Graph(a, b, c, y, x, h, i)
  BY <1>2 DEF Graph
<1>4. [g EXCEPT !.frontier = x, !.queue = y] = [g1 EXCEPT !.queue = y]
  BY <1>1
<1> QED
  BY <1>3, <1>4 DEF GivenUp

LEMMA LateIs ==
    ASSUME NEW a, NEW b, NEW c, NEW d, NEW e, NEW h, NEW i, NEW g,
           g = Graph(a, b, c, d, e, h, i), NEW x, NEW y
    PROVE  Late(g, x, y) = Graph(a, b, c, d, y, h, x)
<1>1. PICK g1 : g1 = [g EXCEPT !.reason = x]
  OBVIOUS
<1>2. g1 = Graph(a, b, c, d, e, h, x)
  BY <1>1 DEF Graph
<1>3. [g1 EXCEPT !.frontier = y] = Graph(a, b, c, d, y, h, x)
  BY <1>2 DEF Graph
<1>4. [g EXCEPT !.reason = x, !.frontier = y] = [g1 EXCEPT !.frontier = y]
  BY <1>1
<1> QED
  BY <1>3, <1>4 DEF Late

GraphLimits(r) ==
    r.max_depth \in Nat \ {0} /\ r.max_nodes \in Nat \ {0} /\ r.max_edges \in Nat \ {0}
Depths == UNION {[S -> Nat] : S \in SUBSET Nat}
GraphRecord ==
    [nodes : Seq(Nat), depth : Depths, edges : Seq(Nat \X Nat), queue : Seq(Nat),
     frontier : Seq(Nat), depthLimit : BOOLEAN, reason : {"none", "edge_limit", "node_limit", "time_limit"}]
\* The functions found, and the calls between them.
Found(r, root, nodes, depth, edges) ==
    /\ IsInjective(nodes) /\ Len(nodes) \in 1..r.max_nodes /\ root \in ToSet(nodes)
    /\ DOMAIN depth = ToSet(nodes) /\ \A n \in ToSet(nodes) : depth[n] <= r.max_depth
    /\ Len(edges) <= r.max_edges
    /\ \A i \in DOMAIN edges : edges[i][1] \in ToSet(nodes) /\ edges[i][2] \in ToSet(nodes)
\* Those that wait to be visited, and those that were given up.
Waits(nodes, queue, frontier) ==
    /\ IsInjective(queue) /\ IsInjective(frontier) /\ ToSet(queue) \cap ToSet(frontier) = {}
    /\ ToSet(queue) \cup ToSet(frontier) \subseteq ToSet(nodes)
GraphIn(r, root) ==
    {g \in GraphRecord : Found(r, root, g.nodes, g.depth, g.edges) /\ Waits(g.nodes, g.queue, g.frontier)}
\* While function f is visited.
Visiting(r, root, f) ==
    {g \in GraphIn(r, root) :
        f \in ToSet(g.nodes) \ (ToSet(g.queue) \cup ToSet(g.frontier)) /\ g.depth[f] < r.max_depth}

LEMMA GraphIs ==
    ASSUME NEW r, NEW root, NEW g \in GraphIn(r, root)
    PROVE  /\ g.nodes \in Seq(Nat) /\ g.depth \in Depths /\ g.edges \in Seq(Nat \X Nat)
           /\ g.queue \in Seq(Nat) /\ g.frontier \in Seq(Nat) /\ g.depthLimit \in BOOLEAN
           /\ g.reason \in {"none", "edge_limit", "node_limit", "time_limit"}
           /\ g = Graph(g.nodes, g.depth, g.edges, g.queue, g.frontier, g.depthLimit, g.reason)
           /\ Found(r, root, g.nodes, g.depth, g.edges) /\ Waits(g.nodes, g.queue, g.frontier)
  BY DEF GraphIn, GraphRecord, Graph

LEMMA DepthIs ==
    ASSUME NEW d \in Depths
    PROVE  /\ DOMAIN d \in SUBSET Nat /\ \A n \in DOMAIN d : d[n] \in Nat
           /\ \A n \in Nat : \A k \in Nat :
                /\ WithDepth(d, n, k) \in Depths /\ DOMAIN WithDepth(d, n, k) = DOMAIN d \cup {n}
                /\ WithDepth(d, n, k)[n] = k
                /\ \A m \in DOMAIN d : m # n => WithDepth(d, n, k)[m] = d[m]
<1>1. PICK S \in SUBSET Nat : d \in [S -> Nat]
  BY DEF Depths
<1>2. DOMAIN d = S /\ \A n \in S : d[n] \in Nat
  BY <1>1
<1>3. ASSUME NEW n \in Nat, NEW k \in Nat
      PROVE  /\ WithDepth(d, n, k) \in Depths /\ DOMAIN WithDepth(d, n, k) = DOMAIN d \cup {n}
             /\ WithDepth(d, n, k)[n] = k
             /\ \A m \in DOMAIN d : m # n => WithDepth(d, n, k)[m] = d[m]
  <2>1. WithDepth(d, n, k) \in [S \cup {n} -> Nat]
    BY <1>2 DEF WithDepth
  <2>2. S \cup {n} \in SUBSET Nat
    OBVIOUS
  <2>3. WithDepth(d, n, k) \in Depths
    BY <2>1, <2>2 DEF Depths
  <2> QED
    BY <1>2, <2>3 DEF WithDepth
<1> QED
  BY <1>2, <1>3

\* One call more between functions that are known.
LEMMA EdgeFound ==
    ASSUME NEW r, NEW root, GraphLimits(r), NEW nodes, NEW depth, NEW edges \in Seq(Nat \X Nat),
           Found(r, root, nodes, depth, edges), Len(edges) # r.max_edges,
           NEW c \in Nat \X Nat, c[1] \in ToSet(nodes), c[2] \in ToSet(nodes)
    PROVE  Found(r, root, nodes, depth, Append(edges, c))
<1> DEFINE more == Append(edges, c)
           n == Len(edges)
<1>1. /\ Len(more) = n + 1 /\ DOMAIN more = 1..(n + 1)
      /\ \A i \in 1..n : more[i] = edges[i]
      /\ more[n + 1] = c
  BY OneMore
<1>2. n \in Nat /\ DOMAIN edges = 1..n /\ n <= r.max_edges /\ n # r.max_edges /\ r.max_edges \in Nat
  BY LenProperties DEF Found, GraphLimits
<1> HIDE DEF more, n
<1>3. Len(more) <= r.max_edges
  BY <1>1, <1>2
<1>4. \A i \in 1..(n + 1) : more[i][1] \in ToSet(nodes) /\ more[i][2] \in ToSet(nodes)
  <2> TAKE i \in 1..(n + 1)
  <2>1. CASE i \in 1..n
    BY <1>1, <1>2, <2>1 DEF Found
  <2>2. CASE i = n + 1
    BY <1>1, <2>2
  <2> QED
    BY <1>2, <2>1, <2>2
<1> QED
  BY <1>1, <1>3, <1>4 DEF Found, more

\* One function more, one call away from a known one.
LEMMA NodeFound ==
    ASSUME NEW r, NEW root, GraphLimits(r), NEW nodes \in Seq(Nat), NEW depth \in Depths, NEW edges,
           Found(r, root, nodes, depth, edges), Len(nodes) # r.max_nodes,
           NEW n \in Nat, n \notin ToSet(nodes), NEW k \in Nat, k <= r.max_depth
    PROVE  Found(r, root, Append(nodes, n), WithDepth(depth, n, k), edges)
<1> DEFINE more == Append(nodes, n)
           deep == WithDepth(depth, n, k)
<1>1. /\ Len(more) = Len(nodes) + 1 /\ ToSet(more) = ToSet(nodes) \cup {n} /\ IsInjective(more)
  BY OneMore DEF Found
<1>2. /\ DOMAIN deep = DOMAIN depth \cup {n} /\ deep[n] = k
      /\ \A m \in DOMAIN depth : m # n => deep[m] = depth[m]
  BY DepthIs
<1> HIDE DEF more, deep
<1>3. Len(more) \in 1..r.max_nodes
  <2>1. Len(nodes) \in 1..r.max_nodes /\ r.max_nodes \in Nat
    BY DEF Found, GraphLimits
  <2> QED
    BY <1>1, <2>1
<1>4. DOMAIN deep = ToSet(more) /\ \A m \in ToSet(more) : deep[m] <= r.max_depth
  BY <1>1, <1>2 DEF Found
<1>5. \A i \in DOMAIN edges : edges[i][1] \in ToSet(more) /\ edges[i][2] \in ToSet(more)
  BY <1>1 DEF Found
<1> QED
  BY <1>1, <1>3, <1>4, <1>5 DEF Found, more, deep

LEMMA QueueGrows ==
    ASSUME NEW s \in Seq(Nat), NEW n \in Nat
    PROVE  Append(s, n) \in Seq(Nat) /\ ToSet(Append(s, n)) = ToSet(s) \cup {n}
  BY OneMore

\* What a visit makes of a graph.
GraphOf(g, nodes, depth, edges, queue, reason) ==
    Graph(nodes, depth, edges, queue, g.frontier, g.depthLimit, reason)

LEMMA StillVisiting ==
    ASSUME NEW r, NEW root, NEW f, NEW g \in Visiting(r, root, f),
           NEW nodes \in Seq(Nat), NEW depth \in Depths, NEW edges \in Seq(Nat \X Nat),
           NEW queue \in Seq(Nat), NEW reason \in {"none", "edge_limit", "node_limit", "time_limit"},
           Found(r, root, nodes, depth, edges), Waits(nodes, queue, g.frontier),
           f \in ToSet(nodes), f \notin ToSet(queue), depth[f] < r.max_depth
    PROVE  GraphOf(g, nodes, depth, edges, queue, reason) \in Visiting(r, root, f)
<1> DEFINE m == GraphOf(g, nodes, depth, edges, queue, reason)
<1>1. g \in GraphIn(r, root) /\ f \notin ToSet(g.frontier)
  BY DEF Visiting
<1>2. g.frontier \in Seq(Nat) /\ g.depthLimit \in BOOLEAN
  BY <1>1, GraphIs
<1>3. /\ m.nodes = nodes /\ m.depth = depth /\ m.edges = edges /\ m.queue = queue
      /\ m.frontier = g.frontier
  BY DEF GraphOf, Graph
<1>4. m \in GraphRecord
  BY <1>2 DEF GraphRecord, GraphOf, Graph
<1> HIDE DEF m
<1>5. m \in GraphIn(r, root)
  BY <1>3, <1>4 DEF GraphIn
<1>6. m \in Visiting(r, root, f)
  BY <1>1, <1>3, <1>5 DEF Visiting
<1> QED
  BY <1>6 DEF m

\* A call to a function that is known, and one to a function that is not.
LEMMA CallAdded ==
    ASSUME NEW r, NEW root, GraphLimits(r), NEW f \in Nat, NEW g \in Visiting(r, root, f),
           NEW c \in Nat \X Nat, Len(g.edges) # r.max_edges,
           c[1] \in ToSet(g.nodes), c[2] \in ToSet(g.nodes)
    PROVE  GraphOf(g, g.nodes, g.depth, Append(g.edges, c), g.queue, g.reason)
                \in Visiting(r, root, f)
<1>1. /\ g \in GraphIn(r, root) /\ g.depth[f] < r.max_depth
      /\ f \in ToSet(g.nodes) /\ f \notin ToSet(g.queue)
  BY DEF Visiting
<1>2. /\ g.nodes \in Seq(Nat) /\ g.depth \in Depths /\ g.edges \in Seq(Nat \X Nat)
      /\ g.queue \in Seq(Nat) /\ g.reason \in {"none", "edge_limit", "node_limit", "time_limit"}
      /\ Found(r, root, g.nodes, g.depth, g.edges) /\ Waits(g.nodes, g.queue, g.frontier)
  BY <1>1, GraphIs
<1> DEFINE edges == Append(g.edges, c)
<1>3. edges \in Seq(Nat \X Nat)
  BY <1>2, AppendProperties
<1>4. Found(r, root, g.nodes, g.depth, edges)
  BY <1>2, EdgeFound
<1> HIDE DEF edges
<1>5. GraphOf(g, g.nodes, g.depth, edges, g.queue, g.reason) \in Visiting(r, root, f)
  BY <1>1, <1>2, <1>3, <1>4, StillVisiting
<1> QED
  BY <1>5 DEF edges

LEMMA FunctionAdded ==
    ASSUME NEW r, NEW root, GraphLimits(r), NEW f \in Nat, NEW g \in Visiting(r, root, f),
           NEW n \in Nat, n \notin ToSet(g.nodes), Len(g.nodes) # r.max_nodes,
           NEW c \in Nat \X Nat, Len(g.edges) # r.max_edges,
           c[1] \in {f, n}, c[2] \in {f, n}
    PROVE  GraphOf(g, Append(g.nodes, n), WithDepth(g.depth, n, g.depth[f] + 1), Append(g.edges, c),
                   Append(g.queue, n), g.reason) \in Visiting(r, root, f)
<1>1. /\ g \in GraphIn(r, root) /\ g.depth[f] < r.max_depth
      /\ f \in ToSet(g.nodes) /\ f \notin ToSet(g.queue)
  BY DEF Visiting
<1>2. /\ g.nodes \in Seq(Nat) /\ g.depth \in Depths /\ g.edges \in Seq(Nat \X Nat)
      /\ g.queue \in Seq(Nat) /\ g.reason \in {"none", "edge_limit", "node_limit", "time_limit"}
      /\ Found(r, root, g.nodes, g.depth, g.edges) /\ Waits(g.nodes, g.queue, g.frontier)
  BY <1>1, GraphIs
<1> DEFINE nodes == Append(g.nodes, n)
           edges == Append(g.edges, c)
           queue == Append(g.queue, n)
           far == g.depth[f] + 1
           depth == WithDepth(g.depth, n, far)
<1>3. far \in Nat /\ far <= r.max_depth /\ f \in DOMAIN g.depth /\ n # f
  <2>1. f \in DOMAIN g.depth /\ n # f
    BY <1>1, <1>2 DEF Found
  <2>2. g.depth[f] \in Nat /\ r.max_depth \in Nat
    BY <1>2, <2>1, DepthIs DEF GraphLimits
  <2> QED
    BY <1>1, <2>1, <2>2
<1> HIDE DEF far
<1>4. nodes \in Seq(Nat) /\ ToSet(nodes) = ToSet(g.nodes) \cup {n}
  BY <1>2, QueueGrows
<1>5. edges \in Seq(Nat \X Nat)
  BY <1>2, AppendProperties
<1>6. queue \in Seq(Nat) /\ ToSet(queue) = ToSet(g.queue) \cup {n} /\ IsInjective(queue)
  <2>1. IsInjective(g.queue) /\ n \notin ToSet(g.queue)
    BY <1>2 DEF Waits
  <2>2. g.queue \in Seq(Nat)
    BY <1>2
  <2>3. queue \in Seq(Nat) /\ ToSet(queue) = ToSet(g.queue) \cup {n}
    BY <2>2, QueueGrows
  <2>4. IsInjective(queue)
    BY <2>1, <2>2, OneMore
  <2> QED
    BY <2>3, <2>4
<1>7. depth \in Depths /\ depth[f] = g.depth[f]
  <2>1. g.depth \in Depths /\ far \in Nat
    BY <1>2, <1>3
  <2>2. depth \in Depths
    BY <2>1, DepthIs
  <2>3. \A m \in DOMAIN g.depth : m # n => depth[m] = g.depth[m]
    BY DEF WithDepth
  <2> QED
    BY <1>3, <2>2, <2>3
<1>8. Found(r, root, nodes, depth, edges)
  <2>1. Found(r, root, nodes, depth, g.edges)
    BY <1>2, <1>3, NodeFound
  <2>2. c[1] \in ToSet(nodes) /\ c[2] \in ToSet(nodes)
    BY <1>1, <1>4
  <2> HIDE DEF nodes, depth
  <2> QED
    BY <1>2, <2>1, <2>2, EdgeFound
<1> HIDE DEF nodes, edges, queue, depth
<1>9. Waits(nodes, queue, g.frontier)
  BY <1>2, <1>4, <1>6 DEF Waits
<1>10. f \in ToSet(nodes) /\ f \notin ToSet(queue) /\ depth[f] < r.max_depth
  BY <1>1, <1>3, <1>4, <1>6, <1>7
<1>11. GraphOf(g, nodes, depth, edges, queue, g.reason) \in Visiting(r, root, f)
  BY <1>2, <1>4, <1>5, <1>6, <1>7, <1>8, <1>9, <1>10, StillVisiting
<1> QED
  BY <1>11 DEF nodes, edges, queue, depth, far

\* When a limit is reached.
LEMMA GraphEnded ==
    ASSUME NEW r, NEW root, NEW f, NEW g \in Visiting(r, root, f),
           NEW reason \in {"edge_limit", "node_limit", "time_limit"}
    PROVE  GraphOf(g, g.nodes, g.depth, g.edges, g.queue, reason) \in Visiting(r, root, f)
<1>1. /\ g \in GraphIn(r, root) /\ g.depth[f] < r.max_depth
      /\ f \in ToSet(g.nodes) /\ f \notin ToSet(g.queue)
  BY DEF Visiting
<1>2. /\ g.nodes \in Seq(Nat) /\ g.depth \in Depths /\ g.edges \in Seq(Nat \X Nat)
      /\ g.queue \in Seq(Nat)
      /\ Found(r, root, g.nodes, g.depth, g.edges) /\ Waits(g.nodes, g.queue, g.frontier)
  BY <1>1, GraphIs
<1> QED
  BY <1>1, <1>2, StillVisiting

LEMMA EdgeKeeps ==
    ASSUME NEW r, NEW root, GraphLimits(r), NEW f \in Nat, NEW g \in Visiting(r, root, f),
           NEW c \in Nat \X Nat, c[1] = f \/ c[2] = f
    PROVE  AddEdge(r, f, g, c) \in Visiting(r, root, f)
<1> DEFINE n == Neighbour(f, c)
<1>1. g \in GraphIn(r, root) /\ f \in ToSet(g.nodes)
  BY DEF Visiting
<1>2. g = Graph(g.nodes, g.depth, g.edges, g.queue, g.frontier, g.depthLimit, g.reason)
  BY <1>1, GraphIs
<1>3. n \in Nat /\ c[1] \in {f, n} /\ c[2] \in {f, n}
  BY DEF Neighbour
<1>4. AddEdge(r, f, g, c) =
        IF g.reason # "none" \/ c \in ToSet(g.edges) THEN g
        ELSE IF Len(g.edges) = r.max_edges
        THEN GraphOf(g, g.nodes, g.depth, g.edges, g.queue, "edge_limit")
        ELSE IF n \in ToSet(g.nodes)
        THEN GraphOf(g, g.nodes, g.depth, Append(g.edges, c), g.queue, g.reason)
        ELSE IF Len(g.nodes) = r.max_nodes
        THEN GraphOf(g, g.nodes, g.depth, g.edges, g.queue, "node_limit")
        ELSE GraphOf(g, Append(g.nodes, n), WithDepth(g.depth, n, g.depth[f] + 1), Append(g.edges, c),
                     Append(g.queue, n), g.reason)
  <2> HIDE DEF n
  <2>1. [g EXCEPT !.reason = "edge_limit"] =
            GraphOf(g, g.nodes, g.depth, g.edges, g.queue, "edge_limit")
    BY <1>2 DEF GraphOf, Graph
  <2>2. [g EXCEPT !.edges = Append(@, c)] =
            GraphOf(g, g.nodes, g.depth, Append(g.edges, c), g.queue, g.reason)
    BY <1>2 DEF GraphOf, Graph
  <2>3. [g EXCEPT !.reason = "node_limit"] =
            GraphOf(g, g.nodes, g.depth, g.edges, g.queue, "node_limit")
    BY <1>2 DEF GraphOf, Graph
  <2>4. [g EXCEPT !.edges = Append(@, c), !.nodes = Append(@, n),
                  !.depth = WithDepth(@, n, g.depth[f] + 1), !.queue = Append(@, n)] =
            GraphOf(g, Append(g.nodes, n), WithDepth(g.depth, n, g.depth[f] + 1), Append(g.edges, c),
                    Append(g.queue, n), g.reason)
    <3>1. PICK nodes, depth, edges, queue :
            /\ nodes = Append(g.nodes, n) /\ depth = WithDepth(g.depth, n, g.depth[f] + 1)
            /\ edges = Append(g.edges, c) /\ queue = Append(g.queue, n)
      OBVIOUS
    <3>2. WithFunction(g, nodes, depth, edges, queue) =
            GraphOf(g, nodes, depth, edges, queue, g.reason)
      BY <1>2, WithFunctionIs DEF GraphOf
    <3> QED
      BY <3>1, <3>2, Zenon DEF WithFunction
  <2> QED
    BY <2>1, <2>2, <2>3, <2>4 DEF AddEdge, n
<1> HIDE DEF n
<1>5. ASSUME n \in ToSet(g.nodes)
      PROVE  c[1] \in ToSet(g.nodes) /\ c[2] \in ToSet(g.nodes)
  BY <1>1, <1>3, <1>5
<1>6. CASE g.reason # "none" \/ c \in ToSet(g.edges)
  BY <1>4, <1>6
<1>7. CASE Len(g.edges) = r.max_edges /\ ~(g.reason # "none" \/ c \in ToSet(g.edges))
  <2>1. AddEdge(r, f, g, c) = GraphOf(g, g.nodes, g.depth, g.edges, g.queue, "edge_limit")
    BY <1>4, <1>7
  <2> QED
    BY <2>1, GraphEnded
<1>8. CASE Len(g.edges) # r.max_edges /\ ~(g.reason # "none" \/ c \in ToSet(g.edges))
  <2>1. CASE n \in ToSet(g.nodes)
    <3>1. AddEdge(r, f, g, c) =
            GraphOf(g, g.nodes, g.depth, Append(g.edges, c), g.queue, g.reason)
      BY <1>4, <1>8, <2>1
    <3> QED
      BY <1>5, <1>8, <2>1, <3>1, CallAdded
  <2>2. CASE n \notin ToSet(g.nodes) /\ Len(g.nodes) = r.max_nodes
    <3>1. AddEdge(r, f, g, c) = GraphOf(g, g.nodes, g.depth, g.edges, g.queue, "node_limit")
      BY <1>4, <1>8, <2>2
    <3> QED
      BY <3>1, GraphEnded
  <2>3. CASE n \notin ToSet(g.nodes) /\ Len(g.nodes) # r.max_nodes
    <3>1. AddEdge(r, f, g, c) =
            GraphOf(g, Append(g.nodes, n), WithDepth(g.depth, n, g.depth[f] + 1), Append(g.edges, c),
                    Append(g.queue, n), g.reason)
      BY <1>4, <1>8, <2>3
    <3> QED
      BY <1>3, <1>8, <2>3, <3>1, FunctionAdded
  <2> QED
    BY <2>1, <2>2, <2>3
<1> QED
  BY <1>6, <1>7, <1>8

\* The calls of one function, followed.
FollowedStart(g) == [g EXCEPT !.queue = Tail(@)]
CallsAt(f, calls, n) ==
    \A i \in 1..n : calls[i] \in Nat \X Nat /\ (calls[i][1] = f \/ calls[i][2] = f)
CallFollowed(r, f, calls, g, k) == AddEdge(r, f, g, calls[k])
Followed(r, f, g, calls, n) ==
    LET followed[k \in 0..n] ==
            IF k = 0 THEN FollowedStart(g) ELSE AddEdge(r, f, followed[k - 1], calls[k])
    IN followed[n]


LEMMA CallsFollowed ==
    ASSUME NEW r, NEW root, GraphLimits(r), NEW at \in Nat, NEW g, FollowedStart(g) \in Visiting(r, root, at),
           NEW calls, NEW m \in Nat, CallsAt(at, calls, m)
    PROVE  Followed(r, at, g, calls, m) \in Visiting(r, root, at)
<1> DEFINE n == m
           D == GraphIn(r, root)
           start == FollowedStart(g)
           I == [k \in 0..n |-> Visiting(r, root, at)]
           F == [q \in D \X (1..n) |-> CallFollowed(r, at, calls, q[1], q[2])]
           states(f) == [k \in 0..n |-> IF k = 0 THEN start ELSE CallFollowed(r, at, calls, f[k - 1], k)]
           run == CHOOSE f : f = states(f)
<1>0. n \in Nat
  OBVIOUS
<1>1. \A k \in Nat : Visiting(r, root, at) \in SUBSET D
  BY DEF Visiting
<1>2. I \in [0..n -> SUBSET D] /\ \A k \in 0..n : I[k] = Visiting(r, root, at)
  BY <1>1
<1>3. start \in Visiting(r, root, at)
  OBVIOUS
<1>4. ASSUME NEW k \in 1..n, NEW x \in Visiting(r, root, at)
      PROVE  x \in D /\ CallFollowed(r, at, calls, x, k) \in Visiting(r, root, at)
  <2>1. k - 1 \in Nat /\ (k - 1) + 1 = k
    BY <1>0
  <2>2. CallFollowed(r, at, calls, x, k) \in Visiting(r, root, at)
    <3>2. calls[k] \in Nat \X Nat /\ (calls[k][1] = at \/ calls[k][2] = at)
      BY DEF CallsAt
    <3> QED
      BY <3>2, EdgeKeeps DEF CallFollowed
  <2> QED
    BY <1>1, <2>1, <2>2
<1>5. \A k \in 1..n : \A x \in Visiting(r, root, at) : F[<<x, k>>] = CallFollowed(r, at, calls, x, k)
  BY <1>4
<1> HIDE DEF D, F, start
<1>6. PICK f : /\ f \in [0..n -> D] /\ f[0] = start
               /\ \A k \in 1..n : f[k - 1] \in Visiting(r, root, at) /\ f[k] = F[<<f[k - 1], k>>]
  <2>1. \A k \in 1..n : I[k] = Visiting(r, root, at) /\ I[k - 1] = Visiting(r, root, at) /\ k - 1 \in 0..n
    BY <1>0, <1>2
  <2>2. I[0] = Visiting(r, root, at)
    BY <1>0, <1>2
  <2> HIDE DEF I
  <2>3. Leads(n, D, I, start, F)
    <3>1. \A k \in 1..n : \A x \in I[k - 1] : F[<<x, k>>] \in I[k]
      <4> SUFFICES ASSUME NEW k \in 1..n, NEW x \in I[k - 1] PROVE F[<<x, k>>] \in I[k]
        OBVIOUS
      <4>1. x \in Visiting(r, root, at)
        BY <2>1
      <4>2. CallFollowed(r, at, calls, x, k) \in Visiting(r, root, at)
        BY <1>4, <4>1
      <4>3. F[<<x, k>>] = CallFollowed(r, at, calls, x, k)
        BY <1>5, <4>1
      <4> QED
        BY <2>1, <4>2, <4>3
    <3> QED
      BY <1>0, <1>2, <1>3, <2>2, <3>1 DEF Leads
  <2>4. PICK f : Follows(f, n, D, I, start, F)
    BY <2>3, Repetition
  <2> QED
    BY <2>1, <2>4 DEF Follows
<1>7. f = states(f)
  <2>1. \A k \in 1..n : f[k] = CallFollowed(r, at, calls, f[k - 1], k)
    BY <1>5, <1>6
  <2> QED
    BY <1>6, <2>1
<1>8. run = states(run)
  <2> HIDE DEF states
  <2> QED
    BY <1>7
<1>9. run[n] \in Visiting(r, root, at)
  <2> HIDE DEF run
  <2> DEFINE S == {k \in 0..n : run[k] \in Visiting(r, root, at)}
  <2>1. run[0] = start /\ \A k \in 1..n : run[k] = CallFollowed(r, at, calls, run[k - 1], k)
    BY <1>0, <1>8
  <2>2. 0 \in S
    BY <1>0, <1>3, <2>1
  <2>3. \A k \in 1..n : k - 1 \in S => k \in S
    BY <1>0, <1>4, <2>1
  <2> HIDE DEF S
  <2>4. 0..n \subseteq S
    BY <1>0, <2>2, <2>3, Upwards
  <2>5. n \in S
    BY <1>0, <2>4
  <2> QED
    BY <2>5 DEF S
<1>10. Followed(r, at, g, calls, m) = run[n]
  BY DEF Followed, CallFollowed, start
<1> QED
  BY <1>9, <1>10

LEMMA GraphMade ==
    ASSUME NEW r, NEW root, NEW nodes \in Seq(Nat), NEW depth \in Depths,
           NEW edges \in Seq(Nat \X Nat), NEW queue \in Seq(Nat), NEW frontier \in Seq(Nat),
           NEW limit \in BOOLEAN, NEW reason \in {"none", "edge_limit", "node_limit", "time_limit"},
           Found(r, root, nodes, depth, edges), Waits(nodes, queue, frontier)
    PROVE  LET g == Graph(nodes, depth, edges, queue, frontier, limit, reason)
           IN /\ g \in GraphIn(r, root)
              /\ g.nodes = nodes /\ g.depth = depth /\ g.queue = queue /\ g.frontier = frontier
<1> DEFINE g == Graph(nodes, depth, edges, queue, frontier, limit, reason)
<1>1. /\ g.nodes = nodes /\ g.depth = depth /\ g.edges = edges
      /\ g.queue = queue /\ g.frontier = frontier
  BY DEF Graph
<1>2. g \in GraphRecord
  BY DEF GraphRecord, Graph
<1> HIDE DEF g
<1>3. g \in GraphIn(r, root)
  BY <1>1, <1>2 DEF GraphIn
<1> QED
  BY <1>1, <1>3 DEF g

\* The function whose turn it is, and what is left.
LEMMA NextFunction ==
    ASSUME NEW r, NEW root, NEW g \in GraphIn(r, root), g.queue # <<>>
    PROVE  LET f == Head(g.queue)
               rest == FollowedStart(g)
           IN /\ f \in Nat /\ f \in ToSet(g.nodes)
              /\ Tail(g.queue) \in Seq(Nat) /\ Waits(g.nodes, Tail(g.queue), g.frontier)
              /\ f \notin ToSet(Tail(g.queue)) \cup ToSet(g.frontier)
              /\ rest = Graph(g.nodes, g.depth, g.edges, Tail(g.queue), g.frontier,
                              g.depthLimit, g.reason)
              /\ rest \in GraphIn(r, root)
              /\ g.depth[f] < r.max_depth => rest \in Visiting(r, root, f)
<1> DEFINE f == Head(g.queue)
           others == Tail(g.queue)
           rest == FollowedStart(g)
<1>1. /\ g.nodes \in Seq(Nat) /\ g.depth \in Depths /\ g.edges \in Seq(Nat \X Nat)
      /\ g.queue \in Seq(Nat) /\ g.frontier \in Seq(Nat) /\ g.depthLimit \in BOOLEAN
      /\ g.reason \in {"none", "edge_limit", "node_limit", "time_limit"}
      /\ Found(r, root, g.nodes, g.depth, g.edges) /\ Waits(g.nodes, g.queue, g.frontier)
  BY GraphIs
<1>2. g = Graph(g.nodes, g.depth, g.edges, g.queue, g.frontier, g.depthLimit, g.reason)
  BY GraphIs
<1>3. IsInjective(g.queue) /\ g.queue \in Seq(Nat)
  BY <1>1 DEF Waits
<1>4. /\ f \in Nat /\ others \in Seq(Nat) /\ ToSet(g.queue) = {f} \cup ToSet(others)
      /\ IsInjective(others) /\ f \notin ToSet(others)
  BY <1>3, FirstAndRest
<1>5. rest = Graph(g.nodes, g.depth, g.edges, others, g.frontier, g.depthLimit, g.reason)
  <2> HIDE DEF others
  <2>1. rest = [g EXCEPT !.queue = others]
    BY DEF FollowedStart, others
  <2>2. [g EXCEPT !.queue = others] =
            Graph(g.nodes, g.depth, g.edges, others, g.frontier, g.depthLimit, g.reason)
    BY <1>2 DEF Graph
  <2> QED
    BY <2>1, <2>2
<1> HIDE DEF f, others, rest
<1>6. f \in ToSet(g.nodes) /\ f \notin ToSet(g.frontier) /\ Waits(g.nodes, others, g.frontier)
  BY <1>1, <1>4 DEF Waits
<1>7. /\ rest \in GraphIn(r, root)
      /\ rest.nodes = g.nodes /\ rest.depth = g.depth /\ rest.queue = others
      /\ rest.frontier = g.frontier
  BY <1>1, <1>4, <1>5, <1>6, GraphMade
<1>8. g.depth[f] < r.max_depth => rest \in Visiting(r, root, f)
  BY <1>4, <1>6, <1>7 DEF Visiting
<1> QED
  BY <1>4, <1>5, <1>6, <1>7, <1>8 DEF f, others, rest

LEMMA MembersGiven ==
    ASSUME NEW S, NEW T, NEW u \in Seq(S), \A i \in DOMAIN u : u[i] \in T
    PROVE  u \in Seq(T)
<1>1. DOMAIN u = 1..Len(u) /\ Len(u) \in Nat
  BY LenProperties
<1>2. u \in [1..Len(u) -> T]
  BY <1>1, LenProperties
<1> QED
  BY <1>1, <1>2, SeqDef

LEMMA ThreeInARow ==
    ASSUME NEW s \in Seq(Nat), NEW t \in Seq(Nat), NEW f \in Nat,
           IsInjective(s), IsInjective(t), ToSet(s) \cap ToSet(t) = {},
           f \notin ToSet(s), f \notin ToSet(t)
    PROVE  /\ s \o <<f>> \o t \in Seq(Nat) /\ IsInjective(s \o <<f>> \o t)
           /\ ToSet(s \o <<f>> \o t) = ToSet(s) \cup {f} \cup ToSet(t)
<1>1. PICK one : one = <<f>>
  OBVIOUS
<1>2. one \in Seq(Nat) /\ ToSet(one) = {f} /\ IsInjective(one)
  BY <1>1 DEF ToSet, IsInjective
<1>3. PICK half : half = s \o one
  OBVIOUS
<1>4. ToSet(s) \cap ToSet(one) = {}
  BY <1>2
<1>5. half \in Seq(Nat) /\ ToSet(half) = ToSet(s) \cup {f} /\ IsInjective(half)
  BY <1>2, <1>3, <1>4, OneAfterTheOther
<1>6. ToSet(half) \cap ToSet(t) = {}
  BY <1>5
<1>7. /\ half \o t \in Seq(Nat) /\ IsInjective(half \o t)
      /\ ToSet(half \o t) = ToSet(half) \cup ToSet(t)
  BY <1>5, <1>6, OneAfterTheOther
<1> QED
  BY <1>1, <1>3, <1>5, <1>7

\* The calls that a visit follows are the function's own.
LEMMA CallsOfAre ==
    ASSUME NEW p \in Programs, NEW f \in Nat, NEW direction
    PROVE  /\ CallsOf(p, f, direction) \in Seq(Nat \X Nat)
           /\ \A i \in DOMAIN CallsOf(p, f, direction) :
                CallsOf(p, f, direction)[i][1] = f \/ CallsOf(p, f, direction)[i][2] = f
<1> DEFINE s == IF direction # "callers" THEN CallsFrom(p, f) ELSE <<>>
           t == IF direction # "callees" THEN CallsTo(p, f) ELSE <<>>
           all == CallsOf(p, f, direction)
           mine == {c \in Nat \X Nat : c[1] = f \/ c[2] = f}
<1>1. /\ CallsFrom(p, f) \in Seq(Nat \X Nat) /\ CallsTo(p, f) \in Seq(Nat \X Nat)
      /\ \A i \in DOMAIN CallsFrom(p, f) : CallsFrom(p, f)[i][1] = f
      /\ \A i \in DOMAIN CallsTo(p, f) : CallsTo(p, f)[i][2] = f
  BY CallsAre
<1>2. ASSUME NEW u \in Seq(Nat \X Nat), \A i \in DOMAIN u : u[i][1] = f \/ u[i][2] = f
      PROVE  u \in Seq(mine)
  <2>1. \A i \in DOMAIN u : u[i] \in Nat \X Nat
    BY LenProperties, ElementOfSeq
  <2>2. \A i \in DOMAIN u : u[i] \in mine
    BY <1>2, <2>1
  <2> HIDE DEF mine
  <2>3. u \in Seq(mine)
    BY <2>2, MembersGiven
  <2> QED
    BY <2>3 DEF mine
<1>3. CallsFrom(p, f) \in Seq(mine) /\ CallsTo(p, f) \in Seq(mine) /\ <<>> \in Seq(mine)
  <2> HIDE DEF mine
  <2> QED
    BY <1>1, <1>2
<1>4. all = s \o t /\ s \in Seq(mine) /\ t \in Seq(mine)
  BY <1>3 DEF CallsOf
<1> HIDE DEF s, t, all, mine
<1>5. all \in Seq(mine)
  BY <1>4, ConcatProperties
<1>6. \A i \in DOMAIN all : all[i] \in mine
  BY <1>5, LenProperties, ElementOfSeq
<1>7. all \in Seq(Nat \X Nat)
  <2>1. mine \subseteq Nat \X Nat
    BY DEF mine
  <2>2. all \in [1..Len(all) -> mine] /\ Len(all) \in Nat
    BY <1>5, LenProperties
  <2>3. all \in [1..Len(all) -> Nat \X Nat]
    BY <2>1, <2>2
  <2> QED
    BY <2>2, <2>3, SeqDef
<1> QED
  BY <1>6, <1>7 DEF all, mine

LEMMA VisitKeeps ==
    ASSUME NEW p \in Programs, NEW r, NEW root, GraphLimits(r), NEW direction,
           NEW g \in GraphIn(r, root), g.queue # <<>>, NEW time \in Nat
    PROVE  Visit(p, r, direction, g, time) \in GraphIn(r, root)
<1> DEFINE f == Head(g.queue)
           others == Tail(g.queue)
           rest == FollowedStart(g)
           calls == CallsOf(p, f, direction)
           n == Min({Len(calls), time})
           begun == Followed(r, f, g, calls, n)
           after == IF begun.reason = "none" /\ n < Len(calls)
                    THEN [begun EXCEPT !.reason = "time_limit"] ELSE begun
<1>1. /\ g.nodes \in Seq(Nat) /\ g.depth \in Depths /\ g.edges \in Seq(Nat \X Nat)
      /\ g.frontier \in Seq(Nat) /\ g.reason \in {"none", "edge_limit", "node_limit", "time_limit"}
      /\ Found(r, root, g.nodes, g.depth, g.edges) /\ g.depthLimit \in BOOLEAN
  BY GraphIs
<1>2. /\ f \in Nat /\ f \in ToSet(g.nodes)
      /\ others \in Seq(Nat) /\ Waits(g.nodes, others, g.frontier)
      /\ f \notin ToSet(others) \cup ToSet(g.frontier)
      /\ rest = Graph(g.nodes, g.depth, g.edges, others, g.frontier, g.depthLimit, g.reason)
      /\ g.depth[f] < r.max_depth => rest \in Visiting(r, root, f)
  BY NextFunction
<1>3. Visit(p, r, direction, g, time) =
        IF g.depth[f] = r.max_depth THEN AtDepthLimit(rest, Append(rest.frontier, f), TRUE)
        ELSE IF after.reason = "none" THEN after
        ELSE GivenUp(after, after.frontier \o <<f>> \o after.queue, <<>>)
  BY DEF Visit, FollowCalls, GiveUp, AtDepthLimit, GivenUp, Followed, FollowedStart
<1> HIDE DEF f, others, rest, begun, after
<1>4. CASE g.depth[f] = r.max_depth
  <2> DEFINE frontier == Append(g.frontier, f)
  <2>1. rest.frontier = g.frontier
    BY <1>2 DEF Graph
  <2>3. IsInjective(g.frontier) /\ f \notin ToSet(g.frontier)
    BY <1>2 DEF Waits
  <2>4. frontier \in Seq(Nat) /\ ToSet(frontier) = ToSet(g.frontier) \cup {f} /\ IsInjective(frontier)
    BY <1>1, <1>2, <2>3, OneMore
  <2> HIDE DEF frontier
  <2>5. PICK yes \in BOOLEAN : yes = TRUE
    OBVIOUS
  <2>6. AtDepthLimit(rest, frontier, yes) =
            Graph(g.nodes, g.depth, g.edges, others, frontier, yes, g.reason)
    BY <1>2, AtDepthLimitIs
  <2>7. Waits(g.nodes, others, frontier)
    BY <1>2, <2>4 DEF Waits
  <2>8. AtDepthLimit(rest, frontier, yes) \in GraphIn(r, root)
    BY <1>1, <1>2, <2>4, <2>6, <2>7, GraphMade
  <2>9. Visit(p, r, direction, g, time) = AtDepthLimit(rest, frontier, TRUE)
    BY <1>3, <1>4, <2>1 DEF frontier
  <2>10. Visit(p, r, direction, g, time) = AtDepthLimit(rest, frontier, yes)
    BY <2>5, <2>9, Zenon
  <2> QED
    BY <2>8, <2>10
<1>5. CASE g.depth[f] # r.max_depth
  <2>1. g.depth[f] < r.max_depth
    <3>1. f \in DOMAIN g.depth /\ g.depth[f] <= r.max_depth
      BY <1>1, <1>2 DEF Found
    <3>2. g.depth[f] \in Nat /\ r.max_depth \in Nat
      BY <1>1, <3>1, DepthIs DEF GraphLimits
    <3> QED
      BY <1>5, <3>1, <3>2
  <2>2. calls \in Seq(Nat \X Nat) /\ \A i \in DOMAIN calls : calls[i][1] = f \/ calls[i][2] = f
    BY <1>2, CallsOfAre
  <2>3. after \in Visiting(r, root, f)
    <3> HIDE DEF calls
    <3>1. FollowedStart(g) \in Visiting(r, root, f)
      BY <1>2, <2>1 DEF rest
    <3>2. begun \in Visiting(r, root, f)
      <4>1. Len(calls) \in Nat /\ DOMAIN calls = 1..Len(calls)
        BY <2>2, LenProperties
      <4>2. \A i \in DOMAIN calls : calls[i] \in Nat \X Nat
        BY <2>2, LenProperties, ElementOfSeq
      <4>3. n \in Nat /\ n <= Len(calls)
        BY <4>1, MinOfTwo
      <4> HIDE DEF n
      <4>4. CallsAt(f, calls, n)
        BY <2>2, <4>1, <4>2, <4>3 DEF CallsAt
      <4> QED
        BY <1>2, <3>1, <4>3, <4>4, CallsFollowed DEF begun
    <3>3. [begun EXCEPT !.reason = "time_limit"] \in Visiting(r, root, f)
      <4>1. begun \in GraphIn(r, root)
        BY <3>2 DEF Visiting
      <4>2. begun = Graph(begun.nodes, begun.depth, begun.edges, begun.queue, begun.frontier,
                          begun.depthLimit, begun.reason)
        BY <4>1, GraphIs
      <4>3. [begun EXCEPT !.reason = "time_limit"] =
                GraphOf(begun, begun.nodes, begun.depth, begun.edges, begun.queue, "time_limit")
        BY <4>2 DEF GraphOf, Graph
      <4> QED
        BY <3>2, <4>3, GraphEnded
    <3> QED
      BY <3>2, <3>3 DEF after
  <2>4. after \in GraphIn(r, root) /\ f \in ToSet(after.nodes)
        /\ f \notin ToSet(after.queue) \cup ToSet(after.frontier)
    BY <2>3 DEF Visiting
  <2>5. CASE after.reason = "none"
    BY <1>3, <1>5, <2>4, <2>5
  <2>6. CASE after.reason # "none"
    <3> DEFINE frontier == after.frontier \o <<f>> \o after.queue
    <3>1. /\ after.nodes \in Seq(Nat) /\ after.depth \in Depths /\ after.edges \in Seq(Nat \X Nat)
          /\ after.queue \in Seq(Nat) /\ after.frontier \in Seq(Nat) /\ after.depthLimit \in BOOLEAN
          /\ after.reason \in {"none", "edge_limit", "node_limit", "time_limit"}
          /\ Found(r, root, after.nodes, after.depth, after.edges)
          /\ Waits(after.nodes, after.queue, after.frontier)
      BY <2>4, GraphIs
    <3>2. after = Graph(after.nodes, after.depth, after.edges, after.queue, after.frontier,
                       after.depthLimit, after.reason)
      BY <2>4, GraphIs
    <3>3. /\ IsInjective(after.queue) /\ IsInjective(after.frontier)
          /\ ToSet(after.queue) \cap ToSet(after.frontier) = {}
      BY <3>1 DEF Waits
    <3>4. /\ frontier \in Seq(Nat) /\ IsInjective(frontier)
          /\ ToSet(frontier) = ToSet(after.frontier) \cup {f} \cup ToSet(after.queue)
      <4>1. f \notin ToSet(after.queue) /\ f \notin ToSet(after.frontier)
        BY <2>4
      <4> QED
        BY <1>2, <3>1, <3>3, <4>1, ThreeInARow
    <3> HIDE DEF frontier
    <3>8. <<>> \in Seq(Nat) /\ ToSet(<<>>) = {} /\ IsInjective(<<>>)
      BY DEF ToSet, IsInjective
    <3>9. Waits(after.nodes, <<>>, frontier)
      BY <2>4, <3>1, <3>4, <3>8 DEF Waits
    <3>10. Graph(after.nodes, after.depth, after.edges, <<>>, frontier, after.depthLimit, after.reason)
                \in GraphIn(r, root)
      <4>1. PICK none \in Seq(Nat) : none = <<>>
        BY <3>8
      <4>2. Waits(after.nodes, none, frontier) /\ frontier \in Seq(Nat)
        BY <3>4, <3>9, <4>1
      <4>3. Graph(after.nodes, after.depth, after.edges, none, frontier, after.depthLimit, after.reason)
                \in GraphIn(r, root)
        BY <3>1, <4>2, GraphMade
      <4> QED
        BY <4>1, <4>3
    <3>11. GivenUp(after, frontier, <<>>) =
            Graph(after.nodes, after.depth, after.edges, <<>>, frontier, after.depthLimit, after.reason)
      BY <3>2, GivenUpIs
    <3> QED
      BY <1>3, <1>5, <2>6, <3>10, <3>11 DEF frontier
  <2> QED
    BY <2>5, <2>6
<1> QED
  BY <1>4, <1>5

\* A walk, visit after visit.
NextGraph(p, r, direction, g, time) == IF g.queue = <<>> THEN g ELSE Visit(p, r, direction, g, time)
GraphAfter(p, r, direction, root, n, time) ==
    LET graph[k \in 0..n] ==
            IF k = 0 THEN NewGraph(root)
            ELSE LET g == graph[k - 1] IN IF g.queue = <<>> THEN g ELSE Visit(p, r, direction, g, time)
    IN graph[n]

LEMMA FirstGraph ==
    ASSUME NEW r, GraphLimits(r), NEW root \in Nat
    PROVE  NewGraph(root) \in GraphIn(r, root)
<1> DEFINE one == <<root>>
           none == <<>>
           depth == [f \in {root} |-> 0]
<1>1. /\ one \in Seq(Nat) /\ Len(one) = 1 /\ ToSet(one) = {root} /\ IsInjective(one)
  BY DEF ToSet, IsInjective
<1>2. /\ none \in Seq(Nat) /\ ToSet(none) = {} /\ IsInjective(none)
  BY DEF ToSet, IsInjective
<1>3. /\ none \in Seq(Nat \X Nat) /\ Len(none) = 0 /\ DOMAIN none = {}
  OBVIOUS
<1>4. depth \in Depths /\ DOMAIN depth = {root} /\ depth[root] = 0
  <2>1. depth \in [{root} -> Nat] /\ {root} \in SUBSET Nat
    OBVIOUS
  <2> QED
    BY <2>1 DEF Depths
<1>5. NewGraph(root) = Graph(one, depth, none, one, none, FALSE, "none")
  BY DEF NewGraph, Graph
<1> HIDE DEF one, none, depth
<1>6. Found(r, root, one, depth, none)
  <2>1. 1 \in 1..r.max_nodes /\ 0 <= r.max_depth /\ 0 <= r.max_edges
    BY DEF GraphLimits
  <2> QED
    BY <1>1, <1>3, <1>4, <2>1 DEF Found
<1>7. Waits(one, one, none)
  BY <1>1, <1>2 DEF Waits
<1>8. PICK no \in BOOLEAN : no = FALSE
  OBVIOUS
<1>9. Graph(one, depth, none, one, none, no, "none") \in GraphIn(r, root)
  BY <1>1, <1>2, <1>3, <1>4, <1>6, <1>7, GraphMade
<1> QED
  BY <1>5, <1>8, <1>9, Zenon

LEMMA NextGraphKeeps ==
    ASSUME NEW p \in Programs, NEW r, NEW root, GraphLimits(r), NEW direction,
           NEW g \in GraphIn(r, root), NEW time \in Nat
    PROVE  NextGraph(p, r, direction, g, time) \in GraphIn(r, root)
  BY VisitKeeps DEF NextGraph


LEMMA GraphReached ==
    ASSUME NEW p \in Programs, NEW r, NEW root \in Nat, GraphLimits(r), NEW direction,
           NEW m \in Nat, NEW time \in Nat
    PROVE  GraphAfter(p, r, direction, root, m, time) \in GraphIn(r, root)
<1> DEFINE n == m
           D == GraphIn(r, root)
           start == NewGraph(root)
           I == [k \in 0..n |-> GraphIn(r, root)]
           F == [q \in D \X (1..n) |-> NextGraph(p, r, direction, q[1], time)]
           states(f) == [k \in 0..n |-> IF k = 0 THEN start ELSE NextGraph(p, r, direction, f[k - 1], time)]
           run == CHOOSE f : f = states(f)
<1>0. n \in Nat
  OBVIOUS
<1>1. \A k \in Nat : GraphIn(r, root) \in SUBSET D
  OBVIOUS
<1>2. I \in [0..n -> SUBSET D] /\ \A k \in 0..n : I[k] = GraphIn(r, root)
  BY <1>1
<1>3. start \in GraphIn(r, root)
  BY FirstGraph
<1>4. ASSUME NEW k \in 1..n, NEW x \in GraphIn(r, root)
      PROVE  x \in D /\ NextGraph(p, r, direction, x, time) \in GraphIn(r, root)
  <2>1. k - 1 \in Nat /\ (k - 1) + 1 = k
    BY <1>0
  <2>2. NextGraph(p, r, direction, x, time) \in GraphIn(r, root)
    BY NextGraphKeeps
  <2> QED
    BY <1>1, <2>1, <2>2
<1>5. \A k \in 1..n : \A x \in GraphIn(r, root) : F[<<x, k>>] = NextGraph(p, r, direction, x, time)
  BY <1>4
<1> HIDE DEF D, F, start
<1>6. PICK f : /\ f \in [0..n -> D] /\ f[0] = start
               /\ \A k \in 1..n : f[k - 1] \in GraphIn(r, root) /\ f[k] = F[<<f[k - 1], k>>]
  <2>1. \A k \in 1..n : I[k] = GraphIn(r, root) /\ I[k - 1] = GraphIn(r, root) /\ k - 1 \in 0..n
    BY <1>0, <1>2
  <2>2. I[0] = GraphIn(r, root)
    BY <1>0, <1>2
  <2> HIDE DEF I
  <2>3. Leads(n, D, I, start, F)
    <3>1. \A k \in 1..n : \A x \in I[k - 1] : F[<<x, k>>] \in I[k]
      <4> SUFFICES ASSUME NEW k \in 1..n, NEW x \in I[k - 1] PROVE F[<<x, k>>] \in I[k]
        OBVIOUS
      <4>1. x \in GraphIn(r, root)
        BY <2>1
      <4>2. NextGraph(p, r, direction, x, time) \in GraphIn(r, root)
        BY <1>4, <4>1
      <4>3. F[<<x, k>>] = NextGraph(p, r, direction, x, time)
        BY <1>5, <4>1
      <4> QED
        BY <2>1, <4>2, <4>3
    <3> QED
      BY <1>0, <1>2, <1>3, <2>2, <3>1 DEF Leads
  <2>4. PICK f : Follows(f, n, D, I, start, F)
    BY <2>3, Repetition
  <2> QED
    BY <2>1, <2>4 DEF Follows
<1>7. f = states(f)
  <2>1. \A k \in 1..n : f[k] = NextGraph(p, r, direction, f[k - 1], time)
    BY <1>5, <1>6
  <2> QED
    BY <1>6, <2>1
<1>8. run = states(run)
  <2> HIDE DEF states
  <2> QED
    BY <1>7
<1>9. run[n] \in GraphIn(r, root)
  <2> HIDE DEF run
  <2> DEFINE S == {k \in 0..n : run[k] \in GraphIn(r, root)}
  <2>1. run[0] = start /\ \A k \in 1..n : run[k] = NextGraph(p, r, direction, run[k - 1], time)
    BY <1>0, <1>8
  <2>2. 0 \in S
    BY <1>0, <1>3, <2>1
  <2>3. \A k \in 1..n : k - 1 \in S => k \in S
    BY <1>0, <1>4, <2>1
  <2> HIDE DEF S
  <2>4. 0..n \subseteq S
    BY <1>0, <2>2, <2>3, Upwards
  <2>5. n \in S
    BY <1>0, <2>4
  <2> QED
    BY <2>5 DEF S
<1>10. GraphAfter(p, r, direction, root, m, time) = run[n]
  BY DEF GraphAfter, NextGraph, start
<1> QED
  BY <1>9, <1>10

\* What a walk has found when it ends.
LEMMA Explored ==
    ASSUME NEW p \in Programs, NEW r, NEW root \in Nat, GraphLimits(r), NEW direction,
           NEW time \in Nat
    PROVE  LET g == Explore(p, r, direction, root, time)
           IN /\ g.nodes \in Seq(Nat) /\ Found(r, root, g.nodes, g.depth, g.edges)
              /\ g.frontier \in Seq(Nat) /\ IsInjective(g.frontier)
              /\ ToSet(g.frontier) \subseteq ToSet(g.nodes)
              /\ g.reason \in {"none", "edge_limit", "node_limit", "time_limit"}
<1> DEFINE last == GraphAfter(p, r, direction, root, time, time)
           g == Explore(p, r, direction, root, time)
           frontier == last.frontier \o last.queue
<1>1. last \in GraphIn(r, root)
  BY GraphReached
<1>2. g = IF last.queue = <<>> THEN last ELSE Late(last, "time_limit", frontier)
  BY DEF Explore, GraphAfter, Late
<1> HIDE DEF last, g
<1>3. /\ last.nodes \in Seq(Nat) /\ last.queue \in Seq(Nat) /\ last.frontier \in Seq(Nat)
      /\ last.reason \in {"none", "edge_limit", "node_limit", "time_limit"}
      /\ Found(r, root, last.nodes, last.depth, last.edges)
      /\ Waits(last.nodes, last.queue, last.frontier)
  BY <1>1, GraphIs
<1>4. /\ IsInjective(last.queue) /\ IsInjective(last.frontier)
      /\ ToSet(last.queue) \cap ToSet(last.frontier) = {}
      /\ ToSet(last.queue) \cup ToSet(last.frontier) \subseteq ToSet(last.nodes)
  BY <1>3 DEF Waits
<1> DEFINE Result == /\ g.nodes \in Seq(Nat) /\ Found(r, root, g.nodes, g.depth, g.edges)
                     /\ g.frontier \in Seq(Nat) /\ IsInjective(g.frontier)
                     /\ ToSet(g.frontier) \subseteq ToSet(g.nodes)
                     /\ g.reason \in {"none", "edge_limit", "node_limit", "time_limit"}
<1>5. ASSUME last.queue = <<>>
      PROVE  Result
  <2>1. g = last
    BY <1>2, <1>5
  <2> QED
    BY <1>3, <1>4, <2>1
<1>6. ASSUME last.queue # <<>>
      PROVE  Result
  <2>1. /\ frontier \in Seq(Nat) /\ ToSet(frontier) = ToSet(last.frontier) \cup ToSet(last.queue)
        /\ IsInjective(frontier)
    BY <1>3, <1>4, OneAfterTheOther
  <2> HIDE DEF frontier
  <2>2. last = Graph(last.nodes, last.depth, last.edges, last.queue, last.frontier,
                     last.depthLimit, last.reason)
    BY <1>1, GraphIs
  <2>3. g = Late(last, "time_limit", frontier)
    BY <1>2, <1>6
  <2>4. Late(last, "time_limit", frontier) =
            Graph(last.nodes, last.depth, last.edges, last.queue, frontier, last.depthLimit,
                  "time_limit")
    BY <2>2, LateIs
  <2>5. /\ g.nodes = last.nodes /\ g.depth = last.depth /\ g.edges = last.edges
        /\ g.frontier = frontier /\ g.reason = "time_limit"
    BY <2>3, <2>4 DEF Graph
  <2> QED
    BY <1>3, <1>4, <2>1, <2>5
<1>7. Result
  BY <1>5, <1>6
<1> QED
  BY <1>7 DEF g

LEMMA GraphAccepted ==
    ASSUME NEW p \in Programs, NEW r, NEW root \in Nat, GraphLimits(r), NEW direction,
           NEW time \in Nat, NEW v,
           LET g == Explore(p, r, direction, root, time)
           IN /\ v.direction = direction /\ v.root = root /\ v.nodes = g.nodes
              /\ v.depth = g.depth /\ v.edges = g.edges /\ v.frontier = g.frontier,
           NEW why \in {"none", "edge_limit", "node_limit", "time_limit", "path_limit"},
           v.status = Status(why)
    PROVE  AcceptsGraph(r, direction, v)
<1> DEFINE g == Explore(p, r, direction, root, time)
<1>1. /\ g.nodes \in Seq(Nat) /\ Found(r, root, g.nodes, g.depth, g.edges)
      /\ g.frontier \in Seq(Nat) /\ IsInjective(g.frontier)
      /\ ToSet(g.frontier) \subseteq ToSet(g.nodes)
  BY Explored
<1>2. /\ v.direction = direction /\ v.root = root /\ v.nodes = g.nodes
      /\ v.depth = g.depth /\ v.edges = g.edges /\ v.frontier = g.frontier
  OBVIOUS
<1> HIDE DEF g
<1>3. v.status.reason = why /\ v.status.truncated = (why # "none")
  BY DEF Status
<1>4. Early(v, GraphReasons)
  BY <1>3 DEF Early, GraphReasons
<1>5. Len(g.frontier) <= Len(g.nodes)
  <2>1. IsInjective(g.nodes)
    BY <1>1 DEF Found
  <2> QED
    BY <1>1, <2>1, InjectiveFits
<1>6. \A i \in DOMAIN g.edges : {g.edges[i][1], g.edges[i][2]} \subseteq ToSet(g.nodes)
  BY <1>1 DEF Found
<1> QED
  BY <1>1, <1>2, <1>4, <1>5, <1>6 DEF AcceptsGraph, Found

\* A call graph is accepted, whatever ends the walk.
LEMMA CallGraphAccepted ==
    ASSUME NEW p \in Programs, NEW r \in CallGraphParams, NEW time \in Nat
    PROVE  AcceptsCallGraph(r, CallGraph(p, r, time))
<1> DEFINE v == CallGraph(p, r, time)
           g == Explore(p, r, r.direction, r.address, time)
<1>1. r.address \in Nat
  <2>1. r.address \in Offset
    BY DEF CallGraphParams
  <2> QED
    BY <2>1, OffsetIs
<1>2. GraphLimits(r)
  <2>1. r.max_edges \in Limit(2048)
    BY DEF CallGraphParams
  <2>2. r.max_edges \in Nat \ {0}
    BY <2>1, LimitsArePositive
  <2>3. r.max_depth \in 1..8 /\ r.max_nodes \in 1..256
    BY DEF CallGraphParams
  <2>4. r.max_depth \in Nat \ {0} /\ r.max_nodes \in Nat \ {0}
    BY <2>3
  <2> QED
    BY <2>2, <2>4 DEF GraphLimits
<1>3. g.reason \in {"none", "edge_limit", "node_limit", "time_limit"}
  BY <1>1, <1>2, Explored
<1>4. /\ v.address = r.address /\ v.root = r.address /\ v.direction = r.direction
      /\ v.nodes = g.nodes /\ v.depth = g.depth /\ v.edges = g.edges
      /\ v.frontier = g.frontier /\ v.status = Status(g.reason)
  BY DEF CallGraph
<1> HIDE DEF v
<1>5. AcceptsGraph(r, r.direction, v)
  BY <1>1, <1>2, <1>3, <1>4, GraphAccepted
<1> QED
  BY <1>4, <1>5 DEF AcceptsCallGraph, v

-----------------------------------------------------------------------------
(* Comparing the memory of two programs.                                    *)

\* The beginning of a sequence sums up to no more than all of it.
LEMMA BeginningSums ==
    ASSUME NEW s \in Seq(Nat), NEW t \in Seq(Nat), Len(t) <= Len(s),
           \A k \in 1..Len(t) : t[k] = s[k]
    PROVE  /\ SumOf(s) \in Nat /\ SumOf(t) \in Nat /\ SumOf(t) <= SumOf(s)
           /\ Len(t) = Len(s) => SumOf(t) = SumOf(s)
<1> DEFINE n == Len(s)
           m == Len(t)
<1>0. /\ n \in Nat /\ m \in Nat /\ m <= n
      /\ \A k \in 1..n : s[k] \in Nat
  BY LenProperties, ElementOfSeq
<1>1. s \in Seq(Int) /\ t \in Seq(Int)
  OBVIOUS
<1>2. PICK f : Sums(f, s) /\ SumOf(s) = f[n]
  BY <1>1, SumIs
<1>3. PICK g : Sums(g, t) /\ SumOf(t) = g[m]
  BY <1>1, SumIs
<1>4. f \in [0..n -> Int] /\ f[0] = 0 /\ \A k \in 1..n : f[k] = f[k - 1] + s[k]
  BY <1>2 DEF Sums
<1>5. \A k \in 1..m : t[k] = s[k]
  OBVIOUS
<1>6. g[0] = 0 /\ \A k \in 1..m : g[k] = g[k - 1] + t[k]
  BY <1>3 DEF Sums
<1> HIDE DEF n, m
<1>7. f[m] = g[m]
  <2>1. Adds(f, s, m)
    BY <1>0, <1>4 DEF Adds
  <2>2. Adds(g, s, m)
    BY <1>5, <1>6 DEF Adds
  <2> QED
    BY <1>0, <2>1, <2>2, SumsAgree
<1> DEFINE S == {k \in 0..n : f[k] \in Nat /\ (k >= m => f[m] <= f[k])}
<1>8. 0..n \subseteq S
  <2>1. 0 \in S
    BY <1>0, <1>4
  <2>2. ASSUME NEW k \in 1..n, k - 1 \in S
        PROVE  k \in S
    <3>1. f[k - 1] \in Nat /\ (k - 1 >= m => f[m] <= f[k - 1]) /\ k \in 0..n
      BY <1>0, <2>2
    <3>2. f[k] = f[k - 1] + s[k] /\ s[k] \in Nat
      BY <1>0, <1>4
    <3>3. f[k] \in Nat /\ f[k - 1] <= f[k]
      BY <3>1, <3>2
    <3>4. CASE k = m
      BY <1>0, <3>1, <3>3, <3>4
    <3>5. CASE k # m
      <4>1. k >= m => k - 1 >= m
        BY <1>0, <3>5
      <4>2. f[m] \in Int
        BY <1>0, <1>4
      <4>3. k >= m => f[m] <= f[k]
        BY <3>1, <3>3, <4>1, <4>2
      <4> QED
        BY <3>1, <3>3, <4>3
    <3> QED
      BY <3>4, <3>5
  <2> HIDE DEF S
  <2> QED
    BY <1>0, <2>1, <2>2, Upwards
<1>9. f[n] \in Nat /\ f[m] \in Nat /\ f[m] <= f[n]
  BY <1>0, <1>8
<1> QED
  BY <1>2, <1>3, <1>7, <1>9 DEF n, m

RunRecord == [offset : Nat, length : Nat]
RunLengths(runs) == [k \in DOMAIN runs |-> runs[k].length]
\* Runs one behind the other, the last of which ends at or in front of e.
RunsTo(runs, e) ==
    /\ runs \in Seq(RunRecord)
    /\ \A k \in DOMAIN runs :
        /\ runs[k].length > 0 /\ runs[k].offset + runs[k].length <= e
        /\ k > 1 => runs[k].offset >= runs[k - 1].offset + runs[k - 1].length
    /\ SumOf(RunLengths(runs)) \in Nat /\ Len(runs) <= SumOf(RunLengths(runs))

LEMMA LengthsAre ==
    ASSUME NEW runs \in Seq(RunRecord)
    PROVE  /\ RunLengths(runs) \in Seq(Nat) /\ Len(RunLengths(runs)) = Len(runs)
           /\ DOMAIN RunLengths(runs) = DOMAIN runs /\ DOMAIN runs = 1..Len(runs)
           /\ Len(runs) \in Nat
           /\ \A k \in DOMAIN runs : RunLengths(runs)[k] = runs[k].length /\ runs[k] \in RunRecord
<1>1. DOMAIN runs = 1..Len(runs) /\ Len(runs) \in Nat /\ \A k \in DOMAIN runs : runs[k] \in RunRecord
  BY LenProperties, ElementOfSeq
<1>2. RunLengths(runs) \in [1..Len(runs) -> Nat]
  BY <1>1 DEF RunLengths, RunRecord
<1>3. RunLengths(runs) \in Seq(Nat)
  BY <1>1, <1>2, SeqDef
<1>4. DOMAIN RunLengths(runs) = DOMAIN runs
      /\ \A k \in DOMAIN runs : RunLengths(runs)[k] = runs[k].length
  BY DEF RunLengths
<1>5. Len(RunLengths(runs)) = Len(runs)
  BY <1>1, <1>2, <1>3, LenProperties
<1> QED
  BY <1>1, <1>3, <1>4, <1>5

LEMMA NoRuns == \A e : RunsTo(<<>>, e) /\ SumOf(RunLengths(<<>>)) = 0
<1>1. RunLengths(<<>>) = <<>>
  BY DEF RunLengths
<1>2. SumOf(RunLengths(<<>>)) = 0
  BY <1>1, NothingSums
<1>3. /\ <<>> \in Seq(RunRecord) /\ Len(<<>>) = 0 /\ DOMAIN <<>> = {}
  OBVIOUS
<1> QED
  BY <1>2, <1>3 DEF RunsTo

\* One run more, behind the others.
LEMMA RunAdded ==
    ASSUME NEW runs, NEW o \in Nat, RunsTo(runs, o), NEW n \in Nat \ {0}
    PROVE  LET more == Append(runs, [offset |-> o, length |-> n])
           IN /\ RunsTo(more, o + n)
              /\ SumOf(RunLengths(more)) = SumOf(RunLengths(runs)) + n
<1> DEFINE x == [offset |-> o, length |-> n]
           more == Append(runs, x)
           m == Len(runs)
           sum == SumOf(RunLengths(runs))
<1>1. /\ runs \in Seq(RunRecord) /\ sum \in Nat /\ m <= sum
      /\ \A k \in DOMAIN runs :
            /\ runs[k].length > 0 /\ runs[k].offset + runs[k].length <= o
            /\ k > 1 => runs[k].offset >= runs[k - 1].offset + runs[k - 1].length
  BY DEF RunsTo
<1>2. x \in RunRecord /\ x.offset = o /\ x.length = n
  BY DEF RunRecord
<1> HIDE DEF x
<1>3. /\ more \in Seq(RunRecord) /\ Len(more) = m + 1 /\ DOMAIN more = 1..(m + 1)
      /\ more[m + 1] = x /\ \A k \in 1..m : more[k] = runs[k]
  BY <1>1, <1>2, OneMore
<1>4. /\ RunLengths(runs) \in Seq(Nat) /\ Len(RunLengths(runs)) = m /\ DOMAIN runs = 1..m /\ m \in Nat
      /\ \A k \in 1..m : RunLengths(runs)[k] = runs[k].length /\ runs[k] \in RunRecord
  BY <1>1, LengthsAre
<1> HIDE DEF more, m
<1>5. /\ RunLengths(more) \in Seq(Nat) /\ Len(RunLengths(more)) = m + 1
      /\ \A k \in 1..(m + 1) : RunLengths(more)[k] = more[k].length
  BY <1>3, LengthsAre
<1>6. /\ \A k \in 1..m : RunLengths(more)[k] = RunLengths(runs)[k]
      /\ RunLengths(more)[m + 1] = n
  <2>1. \A k \in 1..m : k \in 1..(m + 1)
    BY <1>4
  <2>2. m + 1 \in 1..(m + 1)
    BY <1>4
  <2> QED
    BY <1>2, <1>3, <1>4, <1>5, <2>1, <2>2
<1>7. SumOf(RunLengths(more)) = sum + n
  <2>1. RunLengths(runs) \in Seq(Int) /\ RunLengths(more) \in Seq(Int)
    BY <1>4, <1>5
  <2> QED
    BY <1>4, <1>5, <1>6, <2>1, OneMoreSums
<1> HIDE DEF sum
<1>8. ASSUME NEW k \in 1..(m + 1)
      PROVE  /\ more[k].length > 0 /\ more[k].offset + more[k].length <= o + n
             /\ k > 1 => more[k].offset >= more[k - 1].offset + more[k - 1].length
  <2>1. CASE k \in 1..m
    <3>1. more[k] = runs[k] /\ runs[k] \in RunRecord /\ (k > 1 => more[k - 1] = runs[k - 1])
      BY <1>3, <1>4, <2>1
    <3>2. runs[k].offset \in Nat /\ runs[k].length \in Nat
      BY <3>1 DEF RunRecord
    <3>3. /\ runs[k].length > 0 /\ runs[k].offset + runs[k].length <= o
          /\ k > 1 => runs[k].offset >= runs[k - 1].offset + runs[k - 1].length
      BY <1>1, <1>4, <2>1
    <3> QED
      BY <3>1, <3>2, <3>3
  <2>2. CASE k = m + 1
    <3>1. more[k] = x
      BY <1>3, <2>2
    <3>2. k > 1 => k - 1 \in 1..m /\ more[k - 1] = runs[k - 1]
      BY <1>3, <1>4, <2>2
    <3>3. k > 1 => runs[k - 1].offset + runs[k - 1].length <= o
      BY <1>1, <1>4, <3>2
    <3>4. k > 1 => more[k].offset >= more[k - 1].offset + more[k - 1].length
      <4> SUFFICES ASSUME k > 1 PROVE more[k].offset >= more[k - 1].offset + more[k - 1].length
        OBVIOUS
      <4>1. runs[k - 1].offset \in Nat /\ runs[k - 1].length \in Nat
        BY <1>4, <3>2 DEF RunRecord
      <4> QED
        BY <1>2, <3>1, <3>2, <3>3, <4>1
    <3> QED
      BY <1>2, <3>1, <3>4
  <2> QED
    BY <1>4, <2>1, <2>2
<1>9. RunsTo(more, o + n)
  <2>1. sum + n \in Nat /\ Len(more) <= sum + n
    BY <1>1, <1>3, <1>4 DEF m
  <2> QED
    BY <1>3, <1>7, <1>8, <2>1 DEF RunsTo
<1> QED
  BY <1>7, <1>9 DEF more, x, sum

Scan(open, runs, changed) == [open |-> open, runs |-> runs, changed |-> changed]
ScanRecord == [open : Int, runs : Seq(RunRecord), changed : Nat]
\* How far the runs go, and what they are without the one that is not closed.
ScanEnd(s, k)  == IF s.open = -1 THEN k ELSE s.open
ScanOpen(s, k) == IF s.open = -1 THEN 0 ELSE k - s.open
\* After k of len bytes.
Scanned(len, k) ==
    {s \in ScanRecord :
        /\ s.open = -1 \/ (s.open \in 0..(k - 1) /\ k # len)
        /\ RunsTo(s.runs, ScanEnd(s, k))
        /\ SumOf(RunLengths(s.runs)) + ScanOpen(s, k) = s.changed
        /\ s.changed <= k}

ClosedAt(s, run) == [s EXCEPT !.open = -1, !.runs = Append(@, run)]
OpenedAt(s, o, c) == [s EXCEPT !.open = o, !.changed = c]

LEMMA ClosedAtIs ==
    ASSUME NEW a, NEW b, NEW c, NEW s, s = Scan(a, b, c), NEW x
    PROVE  ClosedAt(s, x) = Scan(-1, Append(b, x), c)
<1>1. PICK s1, bx : s1 = [s EXCEPT !.open = -1] /\ bx = Append(b, x)
  OBVIOUS
<1>2. s1 = Scan(-1, b, c)
  BY <1>1 DEF Scan
<1>3. s1.runs = b /\ s.runs = b
  BY <1>2 DEF Scan
<1>4. [s1 EXCEPT !.runs = bx] = Scan(-1, bx, c)
  BY <1>2 DEF Scan
<1>5. ClosedAt(s, x) = [s1 EXCEPT !.runs = bx]
  BY <1>1, <1>3 DEF ClosedAt
<1> QED
  BY <1>1, <1>4, <1>5

LEMMA OpenedAtIs ==
    ASSUME NEW a, NEW b, NEW c, NEW s, s = Scan(a, b, c), NEW x, NEW y
    PROVE  OpenedAt(s, x, y) = Scan(x, b, y)
<1>1. PICK s1 : s1 = [s EXCEPT !.open = x]
  OBVIOUS
<1>2. s1 = Scan(x, b, c)
  BY <1>1 DEF Scan
<1>3. [s1 EXCEPT !.changed = y] = Scan(x, b, y)
  BY <1>2 DEF Scan
<1>4. OpenedAt(s, x, y) = [s1 EXCEPT !.changed = y]
  BY <1>1 DEF OpenedAt
<1> QED
  BY <1>3, <1>4

LEMMA ScanIs ==
    ASSUME NEW len, NEW k, NEW s \in Scanned(len, k)
    PROVE  /\ s = Scan(s.open, s.runs, s.changed)
           /\ s.open \in Int /\ s.runs \in Seq(RunRecord) /\ s.changed \in Nat
           /\ s.open = -1 \/ (s.open \in 0..(k - 1) /\ k # len)
           /\ RunsTo(s.runs, ScanEnd(s, k))
           /\ SumOf(RunLengths(s.runs)) + ScanOpen(s, k) = s.changed
           /\ s.changed <= k
  BY DEF Scanned, ScanRecord, Scan

LEMMA ScanMade ==
    ASSUME NEW len, NEW k, NEW o \in Int, NEW runs \in Seq(RunRecord), NEW c \in Nat,
           o = -1 \/ (o \in 0..(k - 1) /\ k # len),
           RunsTo(runs, IF o = -1 THEN k ELSE o),
           SumOf(RunLengths(runs)) + (IF o = -1 THEN 0 ELSE k - o) = c, c <= k
    PROVE  Scan(o, runs, c) \in Scanned(len, k)
<1>1. PICK s : s = Scan(o, runs, c)
  OBVIOUS
<1>2. s.open = o /\ s.runs = runs /\ s.changed = c /\ s \in ScanRecord
  BY <1>1 DEF Scan, ScanRecord
<1>3. s \in Scanned(len, k)
  BY <1>2 DEF Scanned, ScanEnd, ScanOpen
<1> QED
  BY <1>1, <1>3

\* A run may end earlier than where the runs are known to end.
LEMMA RunsFurther ==
    ASSUME NEW runs, NEW e \in Nat, NEW further \in Nat, e <= further, RunsTo(runs, e)
    PROVE  RunsTo(runs, further)
<1>1. runs \in Seq(RunRecord)
  BY DEF RunsTo
<1>2. \A k \in DOMAIN runs : runs[k].offset \in Nat /\ runs[k].length \in Nat
  BY <1>1, LengthsAre DEF RunRecord
<1>3. \A k \in DOMAIN runs : runs[k].offset + runs[k].length <= further
  BY <1>2 DEF RunsTo
<1> QED
  BY <1>3 DEF RunsTo

LEMMA ByteKeeps ==
    ASSUME NEW d, NEW len \in Nat, NEW k \in 1..len, NEW s \in Scanned(len, k - 1)
    PROVE  ScanByte(d, len, s, k - 1) \in Scanned(len, k)
<1> DEFINE i == k - 1
           sum == SumOf(RunLengths(s.runs))
           new == ScanByte(d, len, s, i)
<1>0. i \in Nat /\ i + 1 = k /\ k \in Nat
  OBVIOUS
<1>1. /\ s = Scan(s.open, s.runs, s.changed)
      /\ s.open \in Int /\ s.runs \in Seq(RunRecord) /\ s.changed \in Nat
      /\ s.open = -1 \/ s.open \in 0..(i - 1)
      /\ RunsTo(s.runs, ScanEnd(s, i)) /\ s.changed <= i
      /\ sum + ScanOpen(s, i) = s.changed
  BY ScanIs
<1>2. sum \in Nat
  BY <1>1 DEF RunsTo
<1> HIDE DEF sum
\* What was open already, or opens here.
<1> DEFINE o == IF s.open = -1 THEN i ELSE s.open
           c == s.changed + 1
           opened == OpenedAt(s, o, c)
<1>3. o \in 0..i /\ RunsTo(s.runs, o) /\ c \in Nat /\ c <= k /\ sum + (i - o) + 1 = c
  <2>1. CASE s.open = -1
    BY <1>0, <1>1, <1>2, <2>1 DEF ScanEnd, ScanOpen
  <2>2. CASE s.open # -1
    BY <1>0, <1>1, <1>2, <2>2 DEF ScanEnd, ScanOpen
  <2> QED
    BY <2>1, <2>2
<1>4. opened = Scan(o, s.runs, c) /\ opened.open = o
  <2>1. PICK x, y : x = o /\ y = c
    OBVIOUS
  <2>2. OpenedAt(s, x, y) = Scan(x, s.runs, y)
    BY <1>1, OpenedAtIs
  <2>3. OpenedAt(s, x, y).open = x
    BY <2>2 DEF Scan
  <2> QED
    BY <2>1, <2>2, <2>3
<1>5. i \in d => new = IF k = len THEN ClosedAt(opened, [offset |-> o, length |-> k - o])
                       ELSE opened
  <2> SUFFICES ASSUME i \in d
               PROVE  new = IF k = len THEN ClosedAt(opened, [offset |-> o, length |-> k - o])
                            ELSE opened
    OBVIOUS
  <2>1. o # -1
    BY <1>0, <1>3
  <2>2. opened = [s EXCEPT !.open = IF @ = -1 THEN i ELSE @, !.changed = @ + 1]
    BY DEF OpenedAt
  <2>3. new = IF opened.open # -1 /\ k = len THEN Close(opened, k) ELSE opened
    BY <1>0, <2>2 DEF ScanByte
  <2>4. Close(opened, k) = ClosedAt(opened, [offset |-> opened.open, length |-> k - opened.open])
    BY DEF Close, ClosedAt
  <2> HIDE DEF opened, new, o
  <2> QED
    BY <1>4, <2>1, <2>3, <2>4
<1>6. i \notin d => new = IF s.open # -1
                          THEN ClosedAt(s, [offset |-> s.open, length |-> i - s.open])
                          ELSE s
  BY DEF ScanByte, Close, ClosedAt
<1> HIDE DEF opened, new, o, c
<1>7. CASE i \in d /\ k = len
  <2> DEFINE run == [offset |-> o, length |-> k - o]
             runs == Append(s.runs, run)
  <2>1. o \in Nat /\ k - o \in Nat \ {0} /\ o + (k - o) = k
    BY <1>0, <1>3
  <2>2. RunsTo(runs, k) /\ SumOf(RunLengths(runs)) = sum + (k - o)
    BY <1>3, <2>1, RunAdded DEF sum
  <2>3. runs \in Seq(RunRecord)
    BY <2>2 DEF RunsTo
  <2>4. new = ClosedAt(opened, run)
    BY <1>5, <1>7
  <2> HIDE DEF run
  <2>5. ClosedAt(opened, run) = Scan(-1, runs, c)
    BY <1>4, ClosedAtIs
  <2> HIDE DEF runs
  <2>6. SumOf(RunLengths(runs)) = c
    BY <1>0, <1>2, <1>3, <2>1, <2>2
  <2>7. Scan(-1, runs, c) \in Scanned(len, k)
    <3>1. -1 \in Int /\ SumOf(RunLengths(runs)) + 0 = c
      BY <1>3, <2>6
    <3> QED
      BY <1>3, <2>2, <2>3, <3>1, ScanMade
  <2> QED
    BY <2>4, <2>5, <2>7 DEF new
<1>8. CASE i \in d /\ k # len
  <2>1. new = Scan(o, s.runs, c)
    BY <1>4, <1>5, <1>8
  <2>2. o \in Int /\ o # -1 /\ o \in 0..(k - 1) /\ sum + (k - o) = c
    BY <1>0, <1>2, <1>3
  <2>3. Scan(o, s.runs, c) \in Scanned(len, k)
    BY <1>1, <1>3, <1>8, <2>2, ScanMade DEF sum
  <2> QED
    BY <2>1, <2>3 DEF new
<1>9. CASE i \notin d /\ s.open # -1
  <2> DEFINE run == [offset |-> s.open, length |-> i - s.open]
             runs == Append(s.runs, run)
  <2>1. s.open \in Nat /\ i - s.open \in Nat \ {0} /\ s.open + (i - s.open) = i
    BY <1>0, <1>1, <1>9
  <2>2. RunsTo(s.runs, s.open)
    BY <1>1, <1>9 DEF ScanEnd
  <2>3. RunsTo(runs, i) /\ SumOf(RunLengths(runs)) = sum + (i - s.open)
    BY <2>1, <2>2, RunAdded DEF sum
  <2>4. RunsTo(runs, k)
    BY <1>0, <2>3, RunsFurther
  <2>5. runs \in Seq(RunRecord)
    BY <2>4 DEF RunsTo
  <2>6. new = ClosedAt(s, run)
    BY <1>6, <1>9
  <2> HIDE DEF run
  <2>7. ClosedAt(s, run) = Scan(-1, runs, s.changed)
    <3>1. PICK a, b, c1 : a = s.open /\ b = s.runs /\ c1 = s.changed
      OBVIOUS
    <3>2. s = Scan(a, b, c1)
      BY <1>1, <3>1
    <3>3. ClosedAt(s, run) = Scan(-1, Append(b, run), c1)
      BY <3>2, ClosedAtIs
    <3> QED
      BY <3>1, <3>3
  <2> HIDE DEF runs
  <2>8. SumOf(RunLengths(runs)) = s.changed /\ s.changed <= k
    BY <1>0, <1>1, <1>9, <2>3 DEF ScanOpen
  <2>9. Scan(-1, runs, s.changed) \in Scanned(len, k)
    <3>1. -1 \in Int /\ SumOf(RunLengths(runs)) + 0 = s.changed
      BY <1>1, <2>8
    <3> QED
      BY <1>1, <2>4, <2>5, <2>8, <3>1, ScanMade
  <2> QED
    BY <2>6, <2>7, <2>9 DEF new
<1>10. CASE i \notin d /\ s.open = -1
  <2>1. new = Scan(-1, s.runs, s.changed)
    BY <1>1, <1>6, <1>10
  <2>2. RunsTo(s.runs, i) /\ sum + 0 = s.changed /\ s.changed <= k
    BY <1>0, <1>1, <1>10 DEF ScanEnd, ScanOpen
  <2>3. RunsTo(s.runs, k)
    BY <1>0, <2>2, RunsFurther
  <2>4. -1 \in Int
    OBVIOUS
  <2>5. Scan(-1, s.runs, s.changed) \in Scanned(len, k)
    BY <1>1, <2>2, <2>3, <2>4, ScanMade DEF sum
  <2> QED
    BY <2>1, <2>5 DEF new
<1> QED
  BY <1>7, <1>8, <1>9, <1>10 DEF new

\* All the bytes, one after the other.
NextByte(d, len, s, k) == ScanByte(d, len, s, k - 1)
ScanOf(d, len) ==
    LET scanned[i \in 0..len] ==
            IF i = 0 THEN [open |-> -1, runs |-> <<>>, changed |-> 0]
            ELSE ScanByte(d, len, scanned[i - 1], i - 1)
    IN scanned[len]

LEMMA NothingScanned == \A len \in Nat : Scan(-1, <<>>, 0) \in Scanned(len, 0)
<1> TAKE len \in Nat
<1>1. PICK o \in Int : o = -1
  OBVIOUS
<1>2. PICK none : none = <<>>
  OBVIOUS
<1>3. PICK c \in Nat : c = 0
  OBVIOUS
<1>4. RunsTo(none, c) /\ SumOf(RunLengths(none)) = c
  BY <1>2, <1>3, NoRuns
<1>5. /\ RunsTo(none, IF o = -1 THEN c ELSE o)
      /\ SumOf(RunLengths(none)) + (IF o = -1 THEN 0 ELSE c - o) = c /\ c <= c
  BY <1>1, <1>4
<1>6. Scan(o, none, c) \in Scanned(len, c)
  <2>1. none \in Seq(RunRecord)
    BY <1>4 DEF RunsTo
  <2> QED
    BY <1>1, <1>5, <2>1, ScanMade
<1> QED
  BY <1>1, <1>2, <1>3, <1>6


LEMMA BytesScanned ==
    ASSUME NEW d, NEW m \in Nat
    PROVE  ScanOf(d, m) \in Scanned(m, m)
<1> DEFINE n == m
           D == ScanRecord
           start == Scan(-1, <<>>, 0)
           I == [k \in 0..n |-> Scanned(m, k)]
           F == [q \in D \X (1..n) |-> NextByte(d, m, q[1], q[2])]
           states(f) == [k \in 0..n |-> IF k = 0 THEN start ELSE NextByte(d, m, f[k - 1], k)]
           run == CHOOSE f : f = states(f)
<1>0. n \in Nat
  OBVIOUS
<1>1. \A k \in Nat : Scanned(m, k) \in SUBSET D
  BY DEF Scanned
<1>2. I \in [0..n -> SUBSET D] /\ \A k \in 0..n : I[k] = Scanned(m, k)
  BY <1>1
<1>3. start \in Scanned(m, 0)
  BY NothingScanned
<1>4. ASSUME NEW k \in 1..n, NEW x \in Scanned(m, k - 1)
      PROVE  x \in D /\ NextByte(d, m, x, k) \in Scanned(m, k)
  <2>1. k - 1 \in Nat /\ (k - 1) + 1 = k
    BY <1>0
  <2>2. NextByte(d, m, x, k) \in Scanned(m, k)
    BY ByteKeeps DEF NextByte
  <2> QED
    BY <1>1, <2>1, <2>2
<1>5. \A k \in 1..n : \A x \in Scanned(m, k - 1) : F[<<x, k>>] = NextByte(d, m, x, k)
  BY <1>4
<1> HIDE DEF D, F, start
<1>6. PICK f : /\ f \in [0..n -> D] /\ f[0] = start
               /\ \A k \in 1..n : f[k - 1] \in Scanned(m, k - 1) /\ f[k] = F[<<f[k - 1], k>>]
  <2>1. \A k \in 1..n : I[k] = Scanned(m, k) /\ I[k - 1] = Scanned(m, k - 1) /\ k - 1 \in 0..n
    BY <1>0, <1>2
  <2>2. I[0] = Scanned(m, 0)
    BY <1>0, <1>2
  <2> HIDE DEF I
  <2>3. Leads(n, D, I, start, F)
    <3>1. \A k \in 1..n : \A x \in I[k - 1] : F[<<x, k>>] \in I[k]
      <4> SUFFICES ASSUME NEW k \in 1..n, NEW x \in I[k - 1] PROVE F[<<x, k>>] \in I[k]
        OBVIOUS
      <4>1. x \in Scanned(m, k - 1)
        BY <2>1
      <4>2. NextByte(d, m, x, k) \in Scanned(m, k)
        BY <1>4, <4>1
      <4>3. F[<<x, k>>] = NextByte(d, m, x, k)
        BY <1>5, <4>1
      <4> QED
        BY <2>1, <4>2, <4>3
    <3> QED
      BY <1>0, <1>2, <1>3, <2>2, <3>1 DEF Leads
  <2>4. PICK f : Follows(f, n, D, I, start, F)
    BY <2>3, Repetition
  <2> QED
    BY <2>1, <2>4 DEF Follows
<1>7. f = states(f)
  <2>1. \A k \in 1..n : f[k] = NextByte(d, m, f[k - 1], k)
    BY <1>5, <1>6
  <2> QED
    BY <1>6, <2>1
<1>8. run = states(run)
  <2> HIDE DEF states
  <2> QED
    BY <1>7
<1>9. run[n] \in Scanned(m, n)
  <2> HIDE DEF run
  <2> DEFINE S == {k \in 0..n : run[k] \in Scanned(m, k)}
  <2>1. run[0] = start /\ \A k \in 1..n : run[k] = NextByte(d, m, run[k - 1], k)
    BY <1>0, <1>8
  <2>2. 0 \in S
    BY <1>0, <1>3, <2>1
  <2>3. \A k \in 1..n : k - 1 \in S => k \in S
    BY <1>0, <1>4, <2>1
  <2> HIDE DEF S
  <2>4. 0..n \subseteq S
    BY <1>0, <2>2, <2>3, Upwards
  <2>5. n \in S
    BY <1>0, <2>4
  <2> QED
    BY <2>5 DEF S
<1>10. ScanOf(d, m) = run[n]
  BY DEF ScanOf, NextByte, Scan, start
<1> QED
  BY <1>9, <1>10

\* A comparison is accepted, however its ranges lie.
LEMMA DifferencesAccepted ==
    ASSUME NEW p \in Programs, NEW r \in CompareProgramMemoryParams
    PROVE  AcceptsDifferences(r, Differences(p, r))
<1> DEFINE v == Differences(p, r)
           d == {i \in 0..(r.length - 1) : r.address + i \in p.marks}
           s == ScanOf(d, r.length)
           at(x) == [offset |-> x.offset, length |-> x.length,
                     address |-> r.address + x.offset,
                     other_address |-> r.other_address + x.offset]
           rows == [k \in DOMAIN s.runs |-> at(s.runs[k])]
           n == Len(s.runs)
           taken == Take(rows, 0, r.limit)
           m == IF r.limit <= n THEN r.limit ELSE n
<1>1. r.length \in Nat /\ r.limit \in Nat
  <2>1. r.length \in Limit(1048576)
    BY DEF CompareProgramMemoryParams
  <2>2. r.length \in Nat
    BY <2>1, LimitsAreNumbers
  <2>3. r.limit \in 1..256
    BY DEF CompareProgramMemoryParams
  <2> QED
    BY <2>2, <2>3
<1>2. s \in Scanned(r.length, r.length)
  <2> HIDE DEF d
  <2> QED
    BY <1>1, BytesScanned
<1>3. /\ v.address = r.address /\ v.other_address = r.other_address /\ v.length = r.length
      /\ v.other_program_path = r.other_program_path /\ v.changed_bytes = s.changed
      /\ v.rows = taken /\ v.total_changed_ranges = Len(rows)
      /\ v.truncated = (Len(rows) > r.limit)
  BY DEF Differences, ScanOf
<1> HIDE DEF v, d, s
<1>4. /\ s.runs \in Seq(RunRecord) /\ s.changed \in Nat /\ s.changed <= r.length
      /\ RunsTo(s.runs, r.length) /\ SumOf(RunLengths(s.runs)) = s.changed
  <2>1. /\ s.runs \in Seq(RunRecord) /\ s.changed \in Nat /\ s.open = -1
        /\ RunsTo(s.runs, ScanEnd(s, r.length)) /\ s.changed <= r.length
        /\ SumOf(RunLengths(s.runs)) + ScanOpen(s, r.length) = s.changed
    BY <1>2, ScanIs
  <2>2. SumOf(RunLengths(s.runs)) \in Nat
    BY <2>1 DEF RunsTo
  <2> QED
    BY <2>1, <2>2 DEF ScanEnd, ScanOpen
<1>5. /\ n \in Nat /\ DOMAIN s.runs = 1..n /\ n <= s.changed
      /\ \A k \in 1..n : s.runs[k] \in RunRecord
  BY <1>4, LengthsAre DEF RunsTo
<1>6. \A k \in 1..n : s.runs[k].offset \in Nat /\ s.runs[k].length \in Nat
  BY <1>5 DEF RunRecord
<1>7. /\ \E S : rows \in Seq(S)
      /\ Len(rows) = n
      /\ \A k \in 1..n : rows[k] = at(s.runs[k])
  <2>1. DOMAIN rows = 1..n /\ rows \in [1..n -> {rows[k] : k \in 1..n}]
    BY <1>5
  <2>2. \A k \in 1..n : rows[k] = at(s.runs[k])
    BY <1>5
  <2> HIDE DEF rows, n
  <2>3. rows \in Seq({rows[k] : k \in 1..n})
    BY <1>5, <2>1, SeqDef
  <2> QED
    BY <1>5, <2>1, <2>2, <2>3, LenProperties
<1> HIDE DEF rows, n
<1>8. /\ m \in Nat /\ Len(taken) = m /\ DOMAIN taken = 1..m
      /\ \A i \in 1..m : taken[i] = rows[i]
  <2>1. PICK S : rows \in Seq(S)
    BY <1>7
  <2>2. m = IF r.limit <= Len(rows) THEN r.limit ELSE Len(rows)
    BY <1>7
  <2> HIDE DEF m, taken
  <2>3. /\ Take(rows, 0, r.limit) \in Seq(S) /\ Len(Take(rows, 0, r.limit)) = m /\ m \in Nat
        /\ \A i \in 1..m : Take(rows, 0, r.limit)[i] = rows[i]
    BY <1>1, <2>1, <2>2, TakeFirst
  <2>4. DOMAIN Take(rows, 0, r.limit) = 1..m
    BY <2>3, LenProperties
  <2> QED
    BY <2>3, <2>4 DEF taken
<1>9. m <= n /\ m <= r.limit /\ (n > r.limit <=> n > m)
  BY <1>1, <1>5
<1> HIDE DEF taken, m
<1>10. \A i \in 1..m : i \in 1..n /\ taken[i] = at(s.runs[i])
  BY <1>5, <1>7, <1>8, <1>9
<1> DEFINE lengths == [i \in DOMAIN v.rows |-> v.rows[i].length]
           sum == SumOf(lengths)
<1>11. sum \in Nat /\ sum <= s.changed /\ (m = n => sum = s.changed)
  <2>1. DOMAIN lengths = 1..m /\ \A i \in 1..m : lengths[i] = s.runs[i].length
    BY <1>3, <1>8, <1>10
  <2> HIDE DEF lengths
  <2>2. lengths = [i \in 1..m |-> s.runs[i].length]
    BY <1>3, <1>8, <1>10 DEF lengths
  <2>3. lengths \in [1..m -> Nat]
    BY <1>6, <1>10, <2>2
  <2>4. lengths \in Seq(Nat) /\ Len(lengths) = m
    BY <1>8, <2>1, <2>3, SeqDef, LenProperties
  <2>5. RunLengths(s.runs) \in Seq(Nat) /\ Len(RunLengths(s.runs)) = n
        /\ \A i \in 1..m : lengths[i] = RunLengths(s.runs)[i]
    BY <1>4, <1>5, <1>10, <2>1, LengthsAre DEF n
  <2> QED
    BY <1>4, <1>9, <2>4, <2>5, BeginningSums
<1> HIDE DEF lengths
<1>12. ASSUME NEW i \in DOMAIN v.rows
       PROVE  LET x == v.rows[i]
              IN /\ x.length > 0 /\ x.offset + x.length <= r.length
                 /\ i > 1 => x.offset >= v.rows[i - 1].offset + v.rows[i - 1].length
                 /\ x.address = r.address + x.offset
                 /\ x.other_address = r.other_address + x.offset
  <2>1. i \in 1..m /\ v.rows[i] = at(s.runs[i])
    BY <1>3, <1>8, <1>10, <1>12
  <2>2. i > 1 => v.rows[i - 1] = at(s.runs[i - 1])
    <3>1. i > 1 => i - 1 \in 1..m
      BY <1>8, <2>1
    <3> QED
      BY <1>3, <1>10, <3>1
  <2>3. i \in DOMAIN s.runs
    BY <1>5, <1>10, <2>1
  <2>4. /\ s.runs[i].length > 0 /\ s.runs[i].offset + s.runs[i].length <= r.length
        /\ i > 1 => s.runs[i].offset >= s.runs[i - 1].offset + s.runs[i - 1].length
    BY <1>4, <2>3 DEF RunsTo
  <2> QED
    BY <2>1, <2>2, <2>4
<1>13. v.truncated = (v.total_changed_ranges > Len(v.rows))
  <2>1. (Len(rows) > r.limit) = (v.total_changed_ranges > Len(v.rows))
    BY <1>3, <1>7, <1>8, <1>9
  <2> QED
    BY <1>3, <2>1, Zenon
<1>14. /\ v.changed_bytes \in 0..r.length /\ v.total_changed_ranges \in 0..r.length
       /\ Len(v.rows) <= r.limit /\ v.total_changed_ranges >= Len(v.rows)
       /\ v.changed_bytes >= sum
       /\ v.total_changed_ranges = Len(v.rows) => v.changed_bytes = sum
  <2>1. v.changed_bytes = s.changed /\ v.total_changed_ranges = n /\ Len(v.rows) = m
    BY <1>3, <1>7, <1>8
  <2> QED
    BY <1>1, <1>4, <1>5, <1>9, <1>11, <2>1
<1>15. /\ v.address = r.address /\ v.other_address = r.other_address /\ v.length = r.length
       /\ v.other_program_path = r.other_program_path
  BY <1>3
<1>16. AcceptsDifferences(r, v)
  BY <1>12, <1>13, <1>14, <1>15, Zenon DEF AcceptsDifferences, sum, lengths
<1> QED
  BY <1>16 DEF v

-----------------------------------------------------------------------------
(* Data flow.                                                               *)

TraceLimits(r) == r.max_depth \in Nat \ {0} /\ r.max_nodes \in Nat \ {0}
Terminals == Nat \X {"no_ssa_edge", "depth_limit"}
Flag(x) == x \in BOOLEAN
TraceOf(nodes, depth, edges, terminals, queue, truncated) ==
    [nodes |-> nodes, depth |-> depth, edges |-> edges, terminals |-> terminals,
     queue |-> queue, truncated |-> truncated]
TraceRecord ==
    [nodes : Seq(Nat), depth : Depths, edges : Seq(Nat \X Nat), terminals : Seq(Terminals),
     queue : Seq(Nat), truncated : BOOLEAN]
\* The varnodes found, and the links between them.
Known(r, root, depth, edges) ==
    /\ root \in DOMAIN depth
    /\ IsFiniteSet(DOMAIN depth) /\ Cardinality(DOMAIN depth) <= r.max_nodes
    /\ \A n \in DOMAIN depth : depth[n] <= r.max_depth
    /\ Len(edges) <= EdgeLimit
    /\ \A i \in DOMAIN edges : edges[i][1] \in DOMAIN depth /\ edges[i][2] \in DOMAIN depth
\* Those that were followed, and those that are still to be.
Divided(nodes, depth, terminals, queue) ==
    /\ IsInjective(nodes) /\ IsInjective(queue) /\ ToSet(nodes) \cap ToSet(queue) = {}
    /\ ToSet(nodes) \cup ToSet(queue) = DOMAIN depth
    /\ \A i \in DOMAIN terminals : terminals[i][1] \in ToSet(nodes)
TraceIn(r, root) ==
    {t \in TraceRecord : /\ Known(r, root, t.depth, t.edges)
                         /\ Divided(t.nodes, t.depth, t.terminals, t.queue)}
\* After k of them, and while one is followed.
Traced(r, root, k) == {t \in TraceIn(r, root) : t.queue = <<>> \/ Len(t.nodes) = k}
Linking(r, root, k, n) ==
    {t \in TraceIn(r, root) :
        Len(t.nodes) = k /\ n \in ToSet(t.nodes) /\ t.depth[n] < r.max_depth}

LEMMA TraceIs ==
    ASSUME NEW r, NEW root, NEW t \in TraceIn(r, root)
    PROVE  /\ t = TraceOf(t.nodes, t.depth, t.edges, t.terminals, t.queue, t.truncated)
           /\ t.nodes \in Seq(Nat) /\ t.depth \in Depths /\ t.edges \in Seq(Nat \X Nat)
           /\ t.terminals \in Seq(Terminals) /\ t.queue \in Seq(Nat) /\ Flag(t.truncated)
           /\ Known(r, root, t.depth, t.edges) /\ Divided(t.nodes, t.depth, t.terminals, t.queue)
  BY DEF TraceIn, TraceRecord, TraceOf, Flag

\* What those fields must be.
TraceFields(r, root, nodes, depth, edges, terminals, queue, truncated) ==
    /\ nodes \in Seq(Nat) /\ depth \in Depths /\ edges \in Seq(Nat \X Nat)
    /\ terminals \in Seq(Terminals) /\ queue \in Seq(Nat) /\ Flag(truncated)
    /\ Known(r, root, depth, edges) /\ Divided(nodes, depth, terminals, queue)

LEMMA TraceMade ==
    ASSUME NEW r, NEW root, NEW nodes, NEW depth, NEW edges, NEW terminals, NEW queue,
           NEW truncated,
           TraceFields(r, root, nodes, depth, edges, terminals, queue, truncated)
    PROVE  \E t \in TraceIn(r, root) :
               /\ t = TraceOf(nodes, depth, edges, terminals, queue, truncated)
               /\ t.nodes = nodes /\ t.queue = queue /\ t.depth = depth
<1>1. PICK t : t = TraceOf(nodes, depth, edges, terminals, queue, truncated)
  OBVIOUS
<1>2. /\ t.nodes = nodes /\ t.depth = depth /\ t.edges = edges /\ t.terminals = terminals
      /\ t.queue = queue /\ t \in TraceRecord
  BY <1>1 DEF TraceOf, TraceRecord, Flag, TraceFields
<1>3. t \in TraceIn(r, root)
  BY <1>2 DEF TraceIn, TraceFields
<1> QED
  BY <1>1, <1>2, <1>3

\* The changes of several fields.
WithLink(t, x, y, z) == [t EXCEPT !.edges = x, !.depth = y, !.queue = z]
WithTurn(t, x, y) == [t EXCEPT !.queue = x, !.nodes = y]
WithEnd(t, x, y) == [t EXCEPT !.terminals = x, !.truncated = y]

LEMMA WithLinkIs ==
    ASSUME NEW a, NEW b, NEW c, NEW d, NEW e, NEW f, NEW t, t = TraceOf(a, b, c, d, e, f),
           NEW x, NEW y, NEW z
    PROVE  WithLink(t, x, y, z) = TraceOf(a, y, x, d, z, f)
<1>1. PICK t1 : t1 = [t EXCEPT !.edges = x]
  OBVIOUS
<1>2. PICK t2 : t2 = [t1 EXCEPT !.depth = y]
  OBVIOUS
<1>3. t1 = TraceOf(a, b, x, d, e, f)
  BY <1>1 DEF TraceOf
<1>4. t2 = TraceOf(a, y, x, d, e, f)
  BY <1>2, <1>3 DEF TraceOf
<1>5. [t2 EXCEPT !.queue = z] = TraceOf(a, y, x, d, z, f)
  BY <1>4 DEF TraceOf
<1>6. WithLink(t, x, y, z) = [t2 EXCEPT !.queue = z]
  BY <1>1, <1>2 DEF WithLink
<1> QED
  BY <1>5, <1>6

LEMMA WithTurnIs ==
    ASSUME NEW a, NEW b, NEW c, NEW d, NEW e, NEW f, NEW t, t = TraceOf(a, b, c, d, e, f),
           NEW x, NEW y
    PROVE  WithTurn(t, x, y) = TraceOf(y, b, c, d, x, f)
<1>1. PICK t1 : t1 = [t EXCEPT !.queue = x]
  OBVIOUS
<1>2. t1 = TraceOf(a, b, c, d, x, f)
  BY <1>1 DEF TraceOf
<1>3. [t1 EXCEPT !.nodes = y] = TraceOf(y, b, c, d, x, f)
  BY <1>2 DEF TraceOf
<1>4. WithTurn(t, x, y) = [t1 EXCEPT !.nodes = y]
  BY <1>1 DEF WithTurn
<1> QED
  BY <1>3, <1>4

LEMMA WithEndIs ==
    ASSUME NEW a, NEW b, NEW c, NEW d, NEW e, NEW f, NEW t, t = TraceOf(a, b, c, d, e, f),
           NEW x, NEW y
    PROVE  WithEnd(t, x, y) = TraceOf(a, b, c, x, e, y)
<1>1. PICK t1 : t1 = [t EXCEPT !.terminals = x]
  OBVIOUS
<1>2. t1 = TraceOf(a, b, c, x, e, f)
  BY <1>1 DEF TraceOf
<1>3. [t1 EXCEPT !.truncated = y] = TraceOf(a, b, c, x, e, y)
  BY <1>2 DEF TraceOf
<1>4. WithEnd(t, x, y) = [t1 EXCEPT !.truncated = y]
  BY <1>1 DEF WithEnd
<1> QED
  BY <1>3, <1>4

LEMMA LinkAdded ==
    ASSUME NEW r, NEW root, NEW depth, NEW edges \in Seq(Nat \X Nat), Known(r, root, depth, edges),
           Len(edges) # EdgeLimit, NEW m \in DOMAIN depth, NEW n \in DOMAIN depth,
           m \in Nat, n \in Nat
    PROVE  Append(edges, <<m, n>>) \in Seq(Nat \X Nat) /\ Known(r, root, depth, Append(edges, <<m, n>>))
<1>0. PICK c : c = <<m, n>>
  OBVIOUS
<1>1. c \in Nat \X Nat /\ c[1] = m /\ c[2] = n
  BY <1>0
<1> DEFINE more == Append(edges, c)
           k == Len(edges)
<1>4. /\ more \in Seq(Nat \X Nat) /\ Len(more) = k + 1 /\ DOMAIN more = 1..(k + 1)
      /\ \A i \in 1..k : more[i] = edges[i]
      /\ more[k + 1] = c
  BY <1>1, OneMore
<1>3. k \in Nat /\ DOMAIN edges = 1..k
  BY LenProperties
<1> HIDE DEF more, k
<1>5. k \in Nat /\ DOMAIN edges = 1..k /\ k <= EdgeLimit /\ k # EdgeLimit /\ EdgeLimit \in Nat
  BY <1>3, FlowAssumption DEF Known, k
<1>6. Len(more) <= EdgeLimit
  BY <1>4, <1>5
<1>7. \A i \in 1..(k + 1) : more[i][1] \in DOMAIN depth /\ more[i][2] \in DOMAIN depth
  <2> TAKE i \in 1..(k + 1)
  <2>1. CASE i \in 1..k
    BY <1>4, <1>5, <2>1 DEF Known
  <2>2. CASE i = k + 1
    BY <1>1, <1>4, <2>2
  <2> QED
    BY <1>5, <2>1, <2>2
<1>8. Known(r, root, depth, more)
  BY <1>4, <1>6, <1>7 DEF Known
<1> QED
  BY <1>0, <1>4, <1>8 DEF more

LEMMA VarnodeFound ==
    ASSUME NEW r, NEW root, TraceLimits(r), NEW depth \in Depths, NEW edges,
           Known(r, root, depth, edges), Cardinality(DOMAIN depth) # r.max_nodes,
           NEW n \in Nat, n \notin DOMAIN depth, NEW k \in Nat, k <= r.max_depth
    PROVE  Known(r, root, WithDepth(depth, n, k), edges)
<1> DEFINE deep == WithDepth(depth, n, k)
<1>2. /\ DOMAIN deep = DOMAIN depth \cup {n} /\ deep[n] = k
      /\ \A m \in DOMAIN depth : m # n => deep[m] = depth[m]
  BY DepthIs
<1> HIDE DEF deep
<1>3. /\ IsFiniteSet(DOMAIN deep)
      /\ Cardinality(DOMAIN deep) = Cardinality(DOMAIN depth) + 1
      /\ Cardinality(DOMAIN depth) \in Nat
  BY <1>2, FS_AddElement, FS_CardinalityType DEF Known
<1>4. Cardinality(DOMAIN deep) <= r.max_nodes
  <2>1. Cardinality(DOMAIN depth) <= r.max_nodes /\ r.max_nodes \in Nat
    BY DEF Known, TraceLimits
  <2> QED
    BY <1>3, <2>1
<1>5. \A m \in DOMAIN deep : deep[m] <= r.max_depth
  BY <1>2 DEF Known
<1>6. Known(r, root, deep, edges)
  BY <1>2, <1>3, <1>4, <1>5 DEF Known
<1> QED
  BY <1>6 DEF deep

\* One link of the varnode that is followed.
LEMMA LinkKeeps ==
    ASSUME NEW r, NEW root, TraceLimits(r), NEW k, NEW n \in Nat, NEW t \in Linking(r, root, k, n),
           NEW next \in Nat
    PROVE  TraceLink(r, n, t, next) \in Linking(r, root, k, n)
<1>1. /\ t \in TraceIn(r, root) /\ Len(t.nodes) = k /\ n \in ToSet(t.nodes)
      /\ t.depth[n] < r.max_depth
  BY DEF Linking
<1>2. t = TraceOf(t.nodes, t.depth, t.edges, t.terminals, t.queue, t.truncated)
  BY <1>1, TraceIs
<1>3. /\ t.nodes \in Seq(Nat) /\ t.depth \in Depths /\ t.edges \in Seq(Nat \X Nat)
      /\ t.terminals \in Seq(Terminals) /\ t.queue \in Seq(Nat) /\ Flag(t.truncated)
      /\ Known(r, root, t.depth, t.edges) /\ Divided(t.nodes, t.depth, t.terminals, t.queue)
  BY <1>1, TraceIs
<1>4. n \in DOMAIN t.depth
  BY <1>1, <1>3 DEF Divided
<1> DEFINE new == next \notin DOMAIN t.depth
           edges == Append(t.edges, <<n, next>>)
           far == t.depth[n] + 1
           depth == WithDepth(t.depth, next, far)
           queue == Append(t.queue, next)
           full == Len(t.edges) = EdgeLimit \/ (new /\ Cardinality(DOMAIN t.depth) = r.max_nodes)
<1>5. CASE full
  <2>1. PICK yes : yes = TRUE /\ Flag(yes)
    BY Zenon DEF Flag
  <2>2. TraceLink(r, n, t, next) = [t EXCEPT !.truncated = TRUE]
    BY <1>5 DEF TraceLink
  <2>3. [t EXCEPT !.truncated = yes] =
            TraceOf(t.nodes, t.depth, t.edges, t.terminals, t.queue, yes)
    BY <1>2 DEF TraceOf
  <2>4. TraceOf(t.nodes, t.depth, t.edges, t.terminals, t.queue, yes) \in Linking(r, root, k, n)
    <3>1. PICK u \in TraceIn(r, root) :
                 /\ u = TraceOf(t.nodes, t.depth, t.edges, t.terminals, t.queue, yes)
                 /\ u.nodes = t.nodes /\ u.queue = t.queue /\ u.depth = t.depth
      <4>1. TraceFields(r, root, t.nodes, t.depth, t.edges, t.terminals, t.queue, yes)
        BY <1>3, <2>1 DEF TraceFields
      <4> QED
        BY <4>1, TraceMade
    <3> QED
      BY <1>1, <3>1 DEF Linking
  <2>5. TraceLink(r, n, t, next) = [t EXCEPT !.truncated = yes]
    BY <2>1, <2>2, Zenon
  <2> QED
    BY <2>3, <2>4, <2>5
<1>6. CASE ~ full /\ ~ new
  <2>1. TraceLink(r, n, t, next) = WithLink(t, edges, t.depth, t.queue)
    BY <1>6 DEF TraceLink, WithLink
  <2>2. edges \in Seq(Nat \X Nat) /\ Known(r, root, t.depth, edges)
    BY <1>3, <1>4, <1>6, LinkAdded
  <2> HIDE DEF edges
  <2>3. WithLink(t, edges, t.depth, t.queue) =
            TraceOf(t.nodes, t.depth, edges, t.terminals, t.queue, t.truncated)
    BY <1>2, WithLinkIs
  <2>4. TraceOf(t.nodes, t.depth, edges, t.terminals, t.queue, t.truncated)
            \in Linking(r, root, k, n)
    <3>1. PICK u \in TraceIn(r, root) :
                 /\ u = TraceOf(t.nodes, t.depth, edges, t.terminals, t.queue, t.truncated)
                 /\ u.nodes = t.nodes /\ u.queue = t.queue /\ u.depth = t.depth
      <4>1. TraceFields(r, root, t.nodes, t.depth, edges, t.terminals, t.queue, t.truncated)
        BY <1>3, <2>2 DEF TraceFields
      <4> QED
        BY <4>1, TraceMade
    <3> QED
      BY <1>1, <3>1 DEF Linking
  <2> QED
    BY <2>1, <2>3, <2>4
<1>7. CASE ~ full /\ new
  <2>1. TraceLink(r, n, t, next) = WithLink(t, edges, depth, queue)
    BY <1>7 DEF TraceLink, WithLink
  <2>2. t.depth[n] \in Nat /\ far \in Nat /\ far <= r.max_depth
    <3>1. t.depth[n] \in Nat /\ r.max_depth \in Nat
      BY <1>3, <1>4, DepthIs DEF TraceLimits
    <3> QED
      BY <1>1, <3>1
  <2> HIDE DEF far
  <2>3. /\ depth \in Depths /\ DOMAIN depth = DOMAIN t.depth \cup {next}
        /\ \A m \in DOMAIN t.depth : m # next => depth[m] = t.depth[m]
    <3>1. t.depth \in Depths
      BY <1>3
    <3> QED
      BY <2>2, <3>1, DepthIs
  <2>4. Known(r, root, depth, t.edges)
    BY <1>3, <1>7, <2>2, VarnodeFound
  <2> HIDE DEF depth
  <2>5. edges \in Seq(Nat \X Nat) /\ Known(r, root, depth, edges)
    <3>1. n \in DOMAIN depth /\ next \in DOMAIN depth /\ Len(t.edges) # EdgeLimit
      BY <1>4, <1>7, <2>3
    <3> QED
      BY <1>3, <2>4, <3>1, LinkAdded
  <2>6. queue \in Seq(Nat) /\ ToSet(queue) = ToSet(t.queue) \cup {next} /\ IsInjective(queue)
    <3>1. IsInjective(t.queue) /\ next \notin ToSet(t.queue)
      BY <1>3, <1>7 DEF Divided
    <3>2. t.queue \in Seq(Nat)
      BY <1>3
    <3>3. queue \in Seq(Nat) /\ ToSet(queue) = ToSet(t.queue) \cup {next}
      BY <3>2, QueueGrows
    <3>4. IsInjective(queue)
      BY <3>1, <3>2, OneMore
    <3> QED
      BY <3>3, <3>4
  <2> HIDE DEF edges, queue
  <2>7. Divided(t.nodes, depth, t.terminals, queue)
    BY <1>3, <1>7, <2>3, <2>6 DEF Divided
  <2>8. WithLink(t, edges, depth, queue) =
            TraceOf(t.nodes, depth, edges, t.terminals, queue, t.truncated)
    BY <1>2, WithLinkIs
  <2>9. PICK u \in TraceIn(r, root) :
               /\ u = TraceOf(t.nodes, depth, edges, t.terminals, queue, t.truncated)
               /\ u.nodes = t.nodes /\ u.queue = queue /\ u.depth = depth
    <3>1. TraceFields(r, root, t.nodes, depth, edges, t.terminals, queue, t.truncated)
      BY <1>3, <2>3, <2>5, <2>6, <2>7 DEF TraceFields
    <3> QED
      BY <3>1, TraceMade
  <2>10. depth[n] < r.max_depth
    BY <1>1, <1>4, <1>7, <2>3
  <2> QED
    BY <1>1, <2>1, <2>8, <2>9, <2>10 DEF Linking
<1> QED
  BY <1>5, <1>6, <1>7

LEMMA LinkedAre ==
    ASSUME NEW p \in Programs, NEW n, NEW direction
    PROVE  Linked(p, n, direction) \in Seq(Nat)
<1>1. ASSUME NEW C \in SUBSET p.calls
      PROVE  Ascending({c[1] : c \in C}) \in Seq(Nat) /\ Ascending({c[2] : c \in C}) \in Seq(Nat)
  <2>1. IsFiniteSet(C) /\ C \in SUBSET (Nat \X Nat)
    BY CallsAreFinite, FS_Subset
  <2>2. ASSUME NEW S \in SUBSET Nat, IsFiniteSet(S)
        PROVE  Ascending(S) \in Seq(Nat)
    <3>1. Ascending(S) \in [1..Cardinality(S) -> S] /\ Cardinality(S) \in Nat
      BY <2>2, AscendingLists
    <3>2. Ascending(S) \in [1..Cardinality(S) -> Nat]
      BY <3>1
    <3> QED
      BY <3>1, <3>2, SeqDef
  <2>3. {c[1] : c \in C} \in SUBSET Nat /\ {c[2] : c \in C} \in SUBSET Nat
    BY <2>1
  <2>4. IsFiniteSet({c[1] : c \in C}) /\ IsFiniteSet({c[2] : c \in C})
    BY <2>1, PairEnds
  <2>5. Ascending({c[1] : c \in C}) \in Seq(Nat)
    BY <2>2, <2>3, <2>4
  <2>6. Ascending({c[2] : c \in C}) \in Seq(Nat)
    BY <2>2, <2>3, <2>4
  <2> QED
    BY <2>5, <2>6
<1> DEFINE in  == {d \in p.calls : d[2] = n}
           out == {d \in p.calls : d[1] = n}
<1>2. in \in SUBSET p.calls /\ out \in SUBSET p.calls
  OBVIOUS
<1>3. \/ Linked(p, n, direction) = Ascending({c[1] : c \in in})
      \/ Linked(p, n, direction) = Ascending({c[2] : c \in out})
  BY DEF Linked
<1> HIDE DEF in, out
<1>4. Ascending({c[1] : c \in in}) \in Seq(Nat)
  BY <1>1, <1>2
<1>5. Ascending({c[2] : c \in out}) \in Seq(Nat)
  BY <1>1, <1>2
<1> QED
  BY <1>3, <1>4, <1>5

\* The links of one varnode, followed.
Targets(out, m) == \A k \in 1..m : out[k] \in Nat
OneLink(r, w, out, t, k) == TraceLink(r, w, t, out[k])
LinksAfter(r, w, here, out, m) ==
    LET linked[k \in 0..m] == IF k = 0 THEN here ELSE TraceLink(r, w, linked[k - 1], out[k])
    IN linked[m]


LEMMA LinksFollowed ==
    ASSUME NEW r, NEW root, TraceLimits(r), NEW c, NEW w \in Nat,
           NEW here \in Linking(r, root, c, w), NEW out, NEW m \in Nat, Targets(out, m)
    PROVE  LinksAfter(r, w, here, out, m) \in Linking(r, root, c, w)
<1> DEFINE n == m
           D == TraceIn(r, root)
           start == here
           I == [k \in 0..n |-> Linking(r, root, c, w)]
           F == [q \in D \X (1..n) |-> OneLink(r, w, out, q[1], q[2])]
           states(f) == [k \in 0..n |-> IF k = 0 THEN start ELSE OneLink(r, w, out, f[k - 1], k)]
           run == CHOOSE f : f = states(f)
<1>0. n \in Nat
  OBVIOUS
<1>1. \A k \in Nat : Linking(r, root, c, w) \in SUBSET D
  BY DEF Linking
<1>2. I \in [0..n -> SUBSET D] /\ \A k \in 0..n : I[k] = Linking(r, root, c, w)
  BY <1>1
<1>3. start \in Linking(r, root, c, w)
  OBVIOUS
<1>4. ASSUME NEW k \in 1..n, NEW x \in Linking(r, root, c, w)
      PROVE  x \in D /\ OneLink(r, w, out, x, k) \in Linking(r, root, c, w)
  <2>1. k - 1 \in Nat /\ (k - 1) + 1 = k
    BY <1>0
  <2>2. OneLink(r, w, out, x, k) \in Linking(r, root, c, w)
    BY LinkKeeps DEF OneLink, Targets
  <2> QED
    BY <1>1, <2>1, <2>2
<1>5. \A k \in 1..n : \A x \in Linking(r, root, c, w) : F[<<x, k>>] = OneLink(r, w, out, x, k)
  BY <1>4
<1> HIDE DEF D, F, start
<1>6. PICK f : /\ f \in [0..n -> D] /\ f[0] = start
               /\ \A k \in 1..n : f[k - 1] \in Linking(r, root, c, w) /\ f[k] = F[<<f[k - 1], k>>]
  <2>1. \A k \in 1..n : I[k] = Linking(r, root, c, w) /\ I[k - 1] = Linking(r, root, c, w) /\ k - 1 \in 0..n
    BY <1>0, <1>2
  <2>2. I[0] = Linking(r, root, c, w)
    BY <1>0, <1>2
  <2> HIDE DEF I
  <2>3. Leads(n, D, I, start, F)
    <3>1. \A k \in 1..n : \A x \in I[k - 1] : F[<<x, k>>] \in I[k]
      <4> SUFFICES ASSUME NEW k \in 1..n, NEW x \in I[k - 1] PROVE F[<<x, k>>] \in I[k]
        OBVIOUS
      <4>1. x \in Linking(r, root, c, w)
        BY <2>1
      <4>2. OneLink(r, w, out, x, k) \in Linking(r, root, c, w)
        BY <1>4, <4>1
      <4>3. F[<<x, k>>] = OneLink(r, w, out, x, k)
        BY <1>5, <4>1
      <4> QED
        BY <2>1, <4>2, <4>3
    <3> QED
      BY <1>0, <1>2, <1>3, <2>2, <3>1 DEF Leads
  <2>4. PICK f : Follows(f, n, D, I, start, F)
    BY <2>3, Repetition
  <2> QED
    BY <2>1, <2>4 DEF Follows
<1>7. f = states(f)
  <2>1. \A k \in 1..n : f[k] = OneLink(r, w, out, f[k - 1], k)
    BY <1>5, <1>6
  <2> QED
    BY <1>6, <2>1
<1>8. run = states(run)
  <2> HIDE DEF states
  <2> QED
    BY <1>7
<1>9. run[n] \in Linking(r, root, c, w)
  <2> HIDE DEF run
  <2> DEFINE S == {k \in 0..n : run[k] \in Linking(r, root, c, w)}
  <2>1. run[0] = start /\ \A k \in 1..n : run[k] = OneLink(r, w, out, run[k - 1], k)
    BY <1>0, <1>8
  <2>2. 0 \in S
    BY <1>0, <1>3, <2>1
  <2>3. \A k \in 1..n : k - 1 \in S => k \in S
    BY <1>0, <1>4, <2>1
  <2> HIDE DEF S
  <2>4. 0..n \subseteq S
    BY <1>0, <2>2, <2>3, Upwards
  <2>5. n \in S
    BY <1>0, <2>4
  <2> QED
    BY <2>5 DEF S
<1>10. LinksAfter(r, w, here, out, m) = run[n]
  BY DEF LinksAfter, OneLink, start
<1> QED
  BY <1>9, <1>10

\* Why a varnode is followed no further.
LEMMA TraceEnds ==
    ASSUME NEW r, NEW root, NEW t \in TraceIn(r, root), NEW c \in Terminals,
           c[1] \in ToSet(t.nodes), NEW flag, Flag(flag)
    PROVE  /\ WithEnd(t, Append(t.terminals, c), flag) \in TraceIn(r, root)
           /\ WithEnd(t, Append(t.terminals, c), flag).nodes = t.nodes
<1>1. t = TraceOf(t.nodes, t.depth, t.edges, t.terminals, t.queue, t.truncated)
  BY TraceIs
<1>2. /\ t.nodes \in Seq(Nat) /\ t.depth \in Depths /\ t.edges \in Seq(Nat \X Nat)
      /\ t.terminals \in Seq(Terminals) /\ t.queue \in Seq(Nat) /\ Flag(t.truncated)
      /\ Known(r, root, t.depth, t.edges) /\ Divided(t.nodes, t.depth, t.terminals, t.queue)
  BY TraceIs
<1> DEFINE ends == Append(t.terminals, c)
<1>5. /\ ends \in Seq(Terminals) /\ DOMAIN ends = 1..(Len(t.terminals) + 1)
      /\ \A i \in 1..Len(t.terminals) : ends[i] = t.terminals[i]
      /\ ends[Len(t.terminals) + 1] = c
  BY <1>2, OneMore
<1>6. Len(t.terminals) \in Nat /\ DOMAIN t.terminals = 1..Len(t.terminals)
  BY <1>2, LenProperties
<1> HIDE DEF ends
<1>7. \A i \in DOMAIN ends : ends[i][1] \in ToSet(t.nodes)
  <2> TAKE i \in DOMAIN ends
  <2>1. CASE i \in 1..Len(t.terminals)
    BY <1>2, <1>5, <1>6, <2>1 DEF Divided
  <2>2. CASE i = Len(t.terminals) + 1
    BY <1>5, <2>2
  <2> QED
    BY <1>5, <1>6, <2>1, <2>2
<1>8. Divided(t.nodes, t.depth, ends, t.queue)
  BY <1>2, <1>7 DEF Divided
<1>9. TraceFields(r, root, t.nodes, t.depth, t.edges, ends, t.queue, flag)
  BY <1>2, <1>5, <1>8 DEF TraceFields
<1>10. PICK u \in TraceIn(r, root) :
            /\ u = TraceOf(t.nodes, t.depth, t.edges, ends, t.queue, flag)
            /\ u.nodes = t.nodes /\ u.queue = t.queue /\ u.depth = t.depth
  BY <1>9, TraceMade
<1>11. WithEnd(t, ends, flag) = TraceOf(t.nodes, t.depth, t.edges, ends, t.queue, flag)
  BY <1>1, WithEndIs
<1>12. WithEnd(t, ends, flag) = u
  BY <1>10, <1>11
<1> QED
  BY <1>10, <1>12 DEF ends

\* The next varnode, taken from the queue.
LEMMA NextVarnode ==
    ASSUME NEW r, NEW root, NEW t \in TraceIn(r, root), t.queue # <<>>
    PROVE  LET n    == Head(t.queue)
               here == WithTurn(t, Tail(t.queue), Append(t.nodes, n))
           IN /\ n \in Nat /\ n \in DOMAIN t.depth /\ t.depth[n] \in Nat /\ t.depth[n] <= r.max_depth
              /\ here \in TraceIn(r, root) /\ n \in ToSet(here.nodes)
              /\ Len(here.nodes) = Len(t.nodes) + 1 /\ here.depth = t.depth
              /\ here.terminals = t.terminals /\ here.truncated = t.truncated
<1> DEFINE n == Head(t.queue)
           others == Tail(t.queue)
           nodes == Append(t.nodes, n)
           here == WithTurn(t, others, nodes)
<1>1. t = TraceOf(t.nodes, t.depth, t.edges, t.terminals, t.queue, t.truncated)
  BY TraceIs
<1>2. /\ t.nodes \in Seq(Nat) /\ t.depth \in Depths /\ t.edges \in Seq(Nat \X Nat)
      /\ t.terminals \in Seq(Terminals) /\ t.queue \in Seq(Nat) /\ Flag(t.truncated)
      /\ Known(r, root, t.depth, t.edges) /\ Divided(t.nodes, t.depth, t.terminals, t.queue)
  BY TraceIs
<1>3. /\ IsInjective(t.nodes) /\ IsInjective(t.queue) /\ ToSet(t.nodes) \cap ToSet(t.queue) = {}
      /\ ToSet(t.nodes) \cup ToSet(t.queue) = DOMAIN t.depth
      /\ \A i \in DOMAIN t.terminals : t.terminals[i][1] \in ToSet(t.nodes)
  BY <1>2 DEF Divided
<1>4. /\ n \in Nat /\ others \in Seq(Nat) /\ ToSet(t.queue) = {n} \cup ToSet(others)
      /\ IsInjective(others) /\ n \notin ToSet(others)
  BY <1>2, <1>3, FirstAndRest
<1> HIDE DEF n, others
<1>5. n \notin ToSet(t.nodes)
  BY <1>3, <1>4
<1>6. /\ nodes \in Seq(Nat) /\ Len(nodes) = Len(t.nodes) + 1
      /\ ToSet(nodes) = ToSet(t.nodes) \cup {n} /\ IsInjective(nodes)
  BY <1>2, <1>3, <1>4, <1>5, OneMore
<1> HIDE DEF nodes
<1>7. Divided(nodes, t.depth, t.terminals, others)
  BY <1>3, <1>4, <1>5, <1>6 DEF Divided
<1>8. TraceFields(r, root, nodes, t.depth, t.edges, t.terminals, others, t.truncated)
  BY <1>2, <1>4, <1>6, <1>7 DEF TraceFields
<1>9. PICK u \in TraceIn(r, root) :
            /\ u = TraceOf(nodes, t.depth, t.edges, t.terminals, others, t.truncated)
            /\ u.nodes = nodes /\ u.queue = others /\ u.depth = t.depth
  BY <1>8, TraceMade
<1>10. here = TraceOf(nodes, t.depth, t.edges, t.terminals, others, t.truncated)
  BY <1>1, WithTurnIs
<1>11. here = u
  BY <1>9, <1>10
<1>12. here.terminals = t.terminals /\ here.truncated = t.truncated
  <2>1. here.terminals = t.terminals
    BY <1>10 DEF TraceOf
  <2>2. PICK x : x = t.truncated
    OBVIOUS
  <2>3. TraceOf(nodes, t.depth, t.edges, t.terminals, others, x).truncated = x
    BY Zenon DEF TraceOf
  <2>4. here.truncated = x
    <3> HIDE DEF here
    <3>1. here = TraceOf(nodes, t.depth, t.edges, t.terminals, others, x)
      BY <1>10, <2>2, Zenon
    <3> QED
      BY <2>3, <3>1, Zenon
  <2> QED
    BY <2>1, <2>2, <2>4, Zenon
<1>13. n \in DOMAIN t.depth /\ t.depth[n] <= r.max_depth
  BY <1>2, <1>3, <1>4 DEF Known
<1>14. t.depth[n] \in Nat
  BY <1>2, <1>13, DepthIs
<1> HIDE DEF here
<1>15. /\ n \in Nat /\ n \in DOMAIN t.depth /\ t.depth[n] \in Nat /\ t.depth[n] <= r.max_depth
       /\ here \in TraceIn(r, root) /\ n \in ToSet(here.nodes)
       /\ Len(here.nodes) = Len(t.nodes) + 1 /\ here.depth = t.depth
       /\ here.terminals = t.terminals /\ here.truncated = t.truncated
  BY <1>4, <1>6, <1>9, <1>11, <1>12, <1>13, <1>14
<1> QED
  BY <1>15 DEF here, n, others, nodes

LEMMA FollowKeeps ==
    ASSUME NEW p \in Programs, NEW r, NEW root, TraceLimits(r), NEW t \in TraceIn(r, root),
           t.queue # <<>>
    PROVE  /\ FollowOne(p, r, t) \in TraceIn(r, root)
           /\ Len(FollowOne(p, r, t).nodes) = Len(t.nodes) + 1
<1> DEFINE n == Head(t.queue)
           here == WithTurn(t, Tail(t.queue), Append(t.nodes, n))
           out == Linked(p, n, r.direction)
           linked == LinksAfter(r, n, here, out, Len(out))
           k == Len(t.nodes) + 1
<1>1. /\ n \in Nat /\ n \in DOMAIN t.depth /\ t.depth[n] \in Nat /\ t.depth[n] <= r.max_depth
      /\ here \in TraceIn(r, root) /\ n \in ToSet(here.nodes)
      /\ Len(here.nodes) = k /\ here.depth = t.depth
  BY NextVarnode
<1>2. FollowOne(p, r, t) = IF out = <<>>
                           THEN [here EXCEPT !.terminals = Append(@, <<n, "no_ssa_edge">>)]
                           ELSE IF t.depth[n] = r.max_depth
                                THEN WithEnd(here, Append(here.terminals, <<n, "depth_limit">>), TRUE)
                                ELSE linked
  BY DEF FollowOne, WithTurn, WithEnd, LinksAfter
<1>3. out \in Seq(Nat)
  BY LinkedAre
<1>4. Flag(here.truncated)
  BY <1>1, TraceIs
<1> HIDE DEF n, here, out, k
<1>5. CASE out = <<>>
  <2>1. PICK c : c = <<n, "no_ssa_edge">>
    OBVIOUS
  <2>2. c \in Terminals /\ c[1] \in ToSet(here.nodes)
    BY <1>1, <2>1 DEF Terminals
  <2> DEFINE ends == Append(here.terminals, c)
             last == WithEnd(here, ends, here.truncated)
  <2>3. last \in TraceIn(r, root) /\ last.nodes = here.nodes
    BY <1>1, <1>4, <2>2, TraceEnds
  <2>4. here = TraceOf(here.nodes, here.depth, here.edges, here.terminals, here.queue, here.truncated)
    BY <1>1, TraceIs
  <2>5. [here EXCEPT !.terminals = ends] =
            TraceOf(here.nodes, here.depth, here.edges, ends, here.queue, here.truncated)
    <3> HIDE DEF ends
    <3> QED
      BY <2>4 DEF TraceOf
  <2>6. last = TraceOf(here.nodes, here.depth, here.edges, ends, here.queue, here.truncated)
    <3> HIDE DEF ends
    <3> QED
      BY <2>4, WithEndIs
  <2>7. FollowOne(p, r, t) = [here EXCEPT !.terminals = ends]
    BY <1>2, <1>5, <2>1
  <2> HIDE DEF last, ends
  <2> QED
    BY <1>1, <2>3, <2>5, <2>6, <2>7 DEF k
<1>6. CASE out # <<>> /\ t.depth[n] = r.max_depth
  <2>1. PICK c : c = <<n, "depth_limit">>
    OBVIOUS
  <2>2. c \in Terminals /\ c[1] \in ToSet(here.nodes)
    BY <1>1, <2>1 DEF Terminals
  <2>3. PICK yes : yes = TRUE /\ Flag(yes)
    BY Zenon DEF Flag
  <2> DEFINE last == WithEnd(here, Append(here.terminals, c), yes)
  <2>4. last \in TraceIn(r, root) /\ last.nodes = here.nodes
    <3>1. Flag(yes)
      BY <2>3
    <3> QED
      BY <1>1, <2>2, <3>1, TraceEnds
  <2>5. FollowOne(p, r, t) = WithEnd(here, Append(here.terminals, c), TRUE)
    BY <1>2, <1>6, <2>1
  <2>6. FollowOne(p, r, t) = last
    BY <2>3, <2>5, Zenon
  <2> HIDE DEF last
  <2> QED
    BY <1>1, <2>4, <2>6 DEF k
<1>7. CASE out # <<>> /\ t.depth[n] # r.max_depth
  <2>1. here.depth[n] < r.max_depth
    <3>1. r.max_depth \in Nat
      BY DEF TraceLimits
    <3> QED
      BY <1>1, <1>7, <3>1
  <2>2. here \in Linking(r, root, k, n)
    BY <1>1, <2>1 DEF Linking
  <2>3. Len(out) \in Nat /\ Targets(out, Len(out))
    BY <1>3, LenProperties, ElementOfSeq DEF Targets
  <2>4. linked \in Linking(r, root, k, n)
    BY <1>1, <2>2, <2>3, LinksFollowed
  <2> HIDE DEF linked
  <2>5. linked \in TraceIn(r, root) /\ Len(linked.nodes) = k
    BY <2>4 DEF Linking
  <2>6. FollowOne(p, r, t) = linked
    BY <1>2, <1>7
  <2> QED
    BY <2>5, <2>6 DEF k
<1> QED
  BY <1>5, <1>6, <1>7 DEF k

\* A trace, varnode after varnode.
NextTrace(p, r, t, k) == IF t.queue = <<>> THEN t ELSE FollowOne(p, r, t)
NewTrace(root) == TraceOf(<<>>, [n \in {root} |-> 0], <<>>, <<>>, <<root>>, FALSE)
TraceAfter(p, r, root, m) ==
    LET trace[k \in 0..m] ==
            IF k = 0 THEN NewTrace(root)
            ELSE LET t == trace[k - 1] IN IF t.queue = <<>> THEN t ELSE FollowOne(p, r, t)
    IN trace[m]

LEMMA FirstTrace ==
    ASSUME NEW r, TraceLimits(r), NEW root \in Nat
    PROVE  NewTrace(root) \in Traced(r, root, 0)
<1> DEFINE one == <<root>>
           none == <<>>
           depth == [n \in {root} |-> 0]
<1>1. /\ one \in Seq(Nat) /\ ToSet(one) = {root} /\ IsInjective(one)
  BY DEF ToSet, IsInjective
<1>2. /\ none \in Seq(Nat) /\ ToSet(none) = {} /\ IsInjective(none)
  BY DEF ToSet, IsInjective
<1>3. /\ none \in Seq(Nat \X Nat) /\ none \in Seq(Terminals) /\ Len(none) = 0 /\ DOMAIN none = {}
  OBVIOUS
<1>4. depth \in Depths /\ DOMAIN depth = {root} /\ depth[root] = 0
  <2>1. depth \in [{root} -> Nat] /\ {root} \in SUBSET Nat
    OBVIOUS
  <2> QED
    BY <2>1 DEF Depths
<1>5. NewTrace(root) = TraceOf(none, depth, none, none, one, FALSE)
  BY DEF NewTrace
<1> HIDE DEF one, none, depth
<1>6. Known(r, root, depth, none)
  <2>1. IsFiniteSet({root}) /\ Cardinality({root}) = 1
    BY FS_Singleton
  <2>2. 1 <= r.max_nodes /\ 0 <= r.max_depth /\ 0 <= EdgeLimit
    BY FlowAssumption DEF TraceLimits
  <2> QED
    BY <1>3, <1>4, <2>1, <2>2 DEF Known
<1>7. Divided(none, depth, none, one)
  BY <1>1, <1>2, <1>3, <1>4 DEF Divided
<1>8. PICK no : no = FALSE /\ Flag(no)
  BY Zenon DEF Flag
<1>9. TraceFields(r, root, none, depth, none, none, one, no)
  BY <1>1, <1>2, <1>3, <1>4, <1>6, <1>7, <1>8 DEF TraceFields
<1>10. PICK u \in TraceIn(r, root) :
            /\ u = TraceOf(none, depth, none, none, one, no)
            /\ u.nodes = none /\ u.queue = one /\ u.depth = depth
  BY <1>9, TraceMade
<1>11. u \in Traced(r, root, 0)
  BY <1>3, <1>10 DEF Traced
<1>12. NewTrace(root) = u
  BY <1>5, <1>8, <1>10, Zenon
<1> QED
  BY <1>11, <1>12

LEMMA NextTraceKeeps ==
    ASSUME NEW p \in Programs, NEW r, NEW root, TraceLimits(r), NEW k \in Nat, k - 1 \in Nat,
           NEW t \in Traced(r, root, k - 1)
    PROVE  NextTrace(p, r, t, k) \in Traced(r, root, k)
<1>1. CASE t.queue = <<>>
  BY <1>1 DEF NextTrace, Traced
<1>2. CASE t.queue # <<>>
  <2>1. t \in TraceIn(r, root) /\ Len(t.nodes) = k - 1
    BY <1>2 DEF Traced
  <2>2. /\ FollowOne(p, r, t) \in TraceIn(r, root)
        /\ Len(FollowOne(p, r, t).nodes) = Len(t.nodes) + 1
    BY <1>2, <2>1, FollowKeeps
  <2>3. Len(FollowOne(p, r, t).nodes) = k
    BY <2>1, <2>2
  <2> QED
    BY <1>2, <2>2, <2>3 DEF NextTrace, Traced
<1> QED
  BY <1>1, <1>2


LEMMA TraceReached ==
    ASSUME NEW p \in Programs, NEW r, NEW root \in Nat, TraceLimits(r), NEW m \in Nat
    PROVE  TraceAfter(p, r, root, m) \in Traced(r, root, m)
<1> DEFINE n == m
           D == TraceIn(r, root)
           start == NewTrace(root)
           I == [k \in 0..n |-> Traced(r, root, k)]
           F == [q \in D \X (1..n) |-> NextTrace(p, r, q[1], q[2])]
           states(f) == [k \in 0..n |-> IF k = 0 THEN start ELSE NextTrace(p, r, f[k - 1], k)]
           run == CHOOSE f : f = states(f)
<1>0. n \in Nat
  OBVIOUS
<1>1. \A k \in Nat : Traced(r, root, k) \in SUBSET D
  BY DEF Traced
<1>2. I \in [0..n -> SUBSET D] /\ \A k \in 0..n : I[k] = Traced(r, root, k)
  BY <1>1
<1>3. start \in Traced(r, root, 0)
  BY FirstTrace
<1>4. ASSUME NEW k \in 1..n, NEW x \in Traced(r, root, k - 1)
      PROVE  x \in D /\ NextTrace(p, r, x, k) \in Traced(r, root, k)
  <2>1. k - 1 \in Nat /\ (k - 1) + 1 = k
    BY <1>0
  <2>2. NextTrace(p, r, x, k) \in Traced(r, root, k)
    BY <1>0, <2>1, NextTraceKeeps
  <2> QED
    BY <1>1, <2>1, <2>2
<1>5. \A k \in 1..n : \A x \in Traced(r, root, k - 1) : F[<<x, k>>] = NextTrace(p, r, x, k)
  BY <1>4
<1> HIDE DEF D, F, start
<1>6. PICK f : /\ f \in [0..n -> D] /\ f[0] = start
               /\ \A k \in 1..n : f[k - 1] \in Traced(r, root, k - 1) /\ f[k] = F[<<f[k - 1], k>>]
  <2>1. \A k \in 1..n : I[k] = Traced(r, root, k) /\ I[k - 1] = Traced(r, root, k - 1) /\ k - 1 \in 0..n
    BY <1>0, <1>2
  <2>2. I[0] = Traced(r, root, 0)
    BY <1>0, <1>2
  <2> HIDE DEF I
  <2>3. Leads(n, D, I, start, F)
    <3>1. \A k \in 1..n : \A x \in I[k - 1] : F[<<x, k>>] \in I[k]
      <4> SUFFICES ASSUME NEW k \in 1..n, NEW x \in I[k - 1] PROVE F[<<x, k>>] \in I[k]
        OBVIOUS
      <4>1. x \in Traced(r, root, k - 1)
        BY <2>1
      <4>2. NextTrace(p, r, x, k) \in Traced(r, root, k)
        BY <1>4, <4>1
      <4>3. F[<<x, k>>] = NextTrace(p, r, x, k)
        BY <1>5, <4>1
      <4> QED
        BY <2>1, <4>2, <4>3
    <3> QED
      BY <1>0, <1>2, <1>3, <2>2, <3>1 DEF Leads
  <2>4. PICK f : Follows(f, n, D, I, start, F)
    BY <2>3, Repetition
  <2> QED
    BY <2>1, <2>4 DEF Follows
<1>7. f = states(f)
  <2>1. \A k \in 1..n : f[k] = NextTrace(p, r, f[k - 1], k)
    BY <1>5, <1>6
  <2> QED
    BY <1>6, <2>1
<1>8. run = states(run)
  <2> HIDE DEF states
  <2> QED
    BY <1>7
<1>9. run[n] \in Traced(r, root, n)
  <2> HIDE DEF run
  <2> DEFINE S == {k \in 0..n : run[k] \in Traced(r, root, k)}
  <2>1. run[0] = start /\ \A k \in 1..n : run[k] = NextTrace(p, r, run[k - 1], k)
    BY <1>0, <1>8
  <2>2. 0 \in S
    BY <1>0, <1>3, <2>1
  <2>3. \A k \in 1..n : k - 1 \in S => k \in S
    BY <1>0, <1>4, <2>1
  <2> HIDE DEF S
  <2>4. 0..n \subseteq S
    BY <1>0, <2>2, <2>3, Upwards
  <2>5. n \in S
    BY <1>0, <2>4
  <2> QED
    BY <2>5 DEF S
<1>10. TraceAfter(p, r, root, m) = run[n]
  BY DEF TraceAfter, NextTrace, start
<1> QED
  BY <1>9, <1>10

\* A trace is accepted: all the varnodes that were found were followed.
LEMMA TraceAccepted ==
    ASSUME NEW p \in Programs, NEW r \in TraceDataFlowParams, TraceAnswers(p, r)
    PROVE  AcceptsTrace(r, Trace(p, r))
<1> DEFINE root == r.operation_address
           t == TraceAfter(p, r, root, r.max_nodes)
           v == Trace(p, r)
<1>1. root \in Nat
  <2>1. root \in Offset
    BY DEF TraceDataFlowParams
  <2> QED
    BY <2>1, OffsetIs
<1>2. TraceLimits(r) /\ r.max_nodes \in Nat
  <2>1. r.max_depth \in 1..8 /\ r.max_nodes \in 1..128
    BY DEF TraceDataFlowParams
  <2> QED
    BY <2>1 DEF TraceLimits
<1> HIDE DEF root
<1>3. t \in Traced(r, root, r.max_nodes)
  BY <1>1, <1>2, TraceReached
<1>4. /\ v.address = r.address /\ v.snapshot_id = r.expected_snapshot_id
      /\ v.direction = r.direction /\ v.root = root /\ v.rows = t.nodes /\ v.depth = t.depth
      /\ v.edges = t.edges /\ v.terminals = t.terminals
  BY DEF Trace, TraceAnswers, Follow, TraceAfter, NewTrace, TraceOf, root
<1> HIDE DEF t, v
<1>5. /\ t \in TraceIn(r, root) /\ (t.queue = <<>> \/ Len(t.nodes) = r.max_nodes)
  BY <1>3 DEF Traced
<1>6. /\ t.nodes \in Seq(Nat) /\ t.queue \in Seq(Nat)
      /\ Known(r, root, t.depth, t.edges) /\ Divided(t.nodes, t.depth, t.terminals, t.queue)
  BY <1>5, TraceIs
<1>7. /\ IsInjective(t.nodes) /\ ToSet(t.nodes) \cap ToSet(t.queue) = {}
      /\ ToSet(t.nodes) \cup ToSet(t.queue) = DOMAIN t.depth
      /\ \A i \in DOMAIN t.terminals : t.terminals[i][1] \in ToSet(t.nodes)
  BY <1>6 DEF Divided
<1>8. /\ IsFiniteSet(ToSet(t.nodes)) /\ Cardinality(ToSet(t.nodes)) = Len(t.nodes)
      /\ Len(t.nodes) \in Nat
  BY <1>6, <1>7, InjectiveCounts
<1>9. /\ root \in DOMAIN t.depth /\ IsFiniteSet(DOMAIN t.depth)
      /\ Cardinality(DOMAIN t.depth) <= r.max_nodes
      /\ \A n \in DOMAIN t.depth : t.depth[n] <= r.max_depth
      /\ Len(t.edges) <= EdgeLimit
      /\ \A i \in DOMAIN t.edges : t.edges[i][1] \in DOMAIN t.depth /\ t.edges[i][2] \in DOMAIN t.depth
  BY <1>6 DEF Known
<1>10. ToSet(t.nodes) = DOMAIN t.depth
  <2>1. CASE t.queue = <<>>
    <3>1. ToSet(t.queue) = {}
      BY <2>1 DEF ToSet
    <3> QED
      BY <1>7, <3>1
  <2>2. CASE t.queue # <<>>
    <3>1. Len(t.nodes) = r.max_nodes
      BY <1>5, <2>2
    <3>2. Cardinality(DOMAIN t.depth) \in Nat
      BY <1>9, FS_CardinalityType
    <3>3. Cardinality(DOMAIN t.depth) <= Cardinality(ToSet(t.nodes))
      BY <1>8, <1>9, <3>1
    <3>4. ToSet(t.nodes) \in SUBSET DOMAIN t.depth
      BY <1>7
    <3>5. /\ Cardinality(ToSet(t.nodes)) <= Cardinality(DOMAIN t.depth)
          /\ Cardinality(DOMAIN t.depth) = Cardinality(ToSet(t.nodes)) =>
                ToSet(t.nodes) = DOMAIN t.depth
      BY <1>9, <3>4, FS_Subset
    <3>6. Cardinality(DOMAIN t.depth) = Cardinality(ToSet(t.nodes))
      BY <1>8, <3>2, <3>3, <3>5
    <3> QED
      BY <3>5, <3>6
  <2> QED
    BY <2>1, <2>2
<1>11. Len(t.nodes) \in 1..r.max_nodes
  <2>1. Cardinality(ToSet(t.nodes)) # 0
    BY <1>8, <1>9, <1>10, FS_EmptySet
  <2> QED
    BY <1>2, <1>8, <1>9, <1>10, <2>1
<1>12. \A i \in DOMAIN t.edges : {t.edges[i][1], t.edges[i][2]} \subseteq ToSet(t.nodes)
  BY <1>9, <1>10
<1>13. AcceptsTrace(r, v)
  BY <1>4, <1>7, <1>9, <1>10, <1>11, <1>12 DEF AcceptsTrace
<1> QED
  BY <1>13 DEF v

-----------------------------------------------------------------------------
(* The details of a function.                                               *)

\* Where the maximal runs of S begin, and where they end.
RunStarts(S) == {i \in S : i - 1 \notin S}
RunEnds(S) == {i \in S : i + 1 \notin S}
RunEnd(S, s) == CHOOSE e \in RunEnds(S) : s <= e /\ s..e \subseteq S
UpTo(S, b) == S \in SUBSET Nat /\ \A i \in S : i <= b

LEMMA RunHasEnd ==
    ASSUME NEW b \in Nat, NEW S, UpTo(S, b), NEW s \in S
    PROVE  RunEnd(S, s) \in RunEnds(S) /\ s <= RunEnd(S, s) /\ s..RunEnd(S, s) \subseteq S
<1> DEFINE T == {i \in Nat : i > s /\ i \notin S}
<1>0. S \subseteq Nat /\ s \in Nat /\ \A i \in S : i <= b
  BY DEF UpTo
<1>1. b + 1 \in T
  BY <1>0
<1>2. PICK m \in T : \A i \in T : m <= i
  <2>1. T \subseteq Nat /\ T # {}
    BY <1>1
  <2> HIDE DEF T
  <2> QED
    BY <2>1, Smallest
<1>3. m \in Nat /\ m > s /\ m \notin S
  BY <1>2
<1>4. \A j \in s..(m - 1) : j \in S
  <2> TAKE j \in s..(m - 1)
  <2>1. j \in Nat /\ j < m /\ j >= s
    BY <1>0, <1>3
  <2>2. j \notin T
    BY <1>2, <1>3, <2>1
  <2> QED
    BY <1>0, <2>1, <2>2
<1>5. m - 1 \in s..(m - 1) /\ (m - 1) + 1 = m
  BY <1>0, <1>3
<1>6. m - 1 \in RunEnds(S) /\ s <= m - 1 /\ s..(m - 1) \subseteq S
  BY <1>0, <1>3, <1>4, <1>5 DEF RunEnds
<1> QED
  BY <1>6, Zenon DEF RunEnd

LEMMA RunHasStart ==
    ASSUME NEW b \in Nat, NEW S, UpTo(S, b), NEW i \in S
    PROVE  \E s \in RunStarts(S) : s <= i /\ s..i \subseteq S
<1> DEFINE T == {j \in 0..i : j..i \subseteq S}
<1>0. S \subseteq Nat /\ i \in Nat
  BY DEF UpTo
<1>1. i \in T
  BY <1>0
<1>2. PICK s \in T : \A j \in T : s <= j
  <2>1. T \subseteq Nat /\ T # {}
    BY <1>0, <1>1
  <2> HIDE DEF T
  <2> QED
    BY <2>1, Smallest
<1>3. s \in 0..i /\ s..i \subseteq S
  BY <1>2
<1>4. s \in S
  BY <1>0, <1>3
<1>5. s - 1 \notin S
  <2> SUFFICES ASSUME s - 1 \in S PROVE FALSE
    OBVIOUS
  <2>1. s - 1 \in 0..i
    BY <1>0, <1>3
  <2>2. (s - 1)..i \subseteq S
    BY <1>0, <1>3
  <2>3. s - 1 \in T
    BY <2>1, <2>2
  <2> QED
    BY <1>0, <1>2, <1>3, <2>3
<1> QED
  BY <1>0, <1>3, <1>4, <1>5 DEF RunStarts

LEMMA RunsApart ==
    ASSUME NEW b \in Nat, NEW S, UpTo(S, b)
    PROVE  /\ RunStarts(S) \in SUBSET Nat /\ RunEnds(S) \in SUBSET Nat
           /\ \A s \in RunStarts(S) :
                /\ RunEnd(S, s) \in RunEnds(S) /\ s <= RunEnd(S, s) /\ s..RunEnd(S, s) \subseteq S
                /\ \A t \in RunStarts(S) : s < t => RunEnd(S, s) < t
           /\ \A e \in RunEnds(S) : \E s \in RunStarts(S) : RunEnd(S, s) = e
           /\ \A i \in S : \E s \in RunStarts(S) : i \in s..RunEnd(S, s)
<1>0. S \subseteq Nat
  BY DEF UpTo
<1>1. RunStarts(S) \in SUBSET S /\ RunEnds(S) \in SUBSET S
  BY DEF RunStarts, RunEnds
<1>2. \A s \in RunStarts(S) :
        RunEnd(S, s) \in RunEnds(S) /\ s <= RunEnd(S, s) /\ s..RunEnd(S, s) \subseteq S
  BY <1>1, RunHasEnd
<1>3. \A s \in RunStarts(S), t \in RunStarts(S) : s < t => RunEnd(S, s) < t
  <2> SUFFICES ASSUME NEW s \in RunStarts(S), NEW t \in RunStarts(S), s < t, ~ (RunEnd(S, s) < t)
               PROVE  FALSE
    OBVIOUS
  <2>1. s \in Nat /\ t \in Nat /\ RunEnd(S, s) \in Nat
    BY <1>0, <1>1, <1>2
  <2>2. t - 1 \in s..RunEnd(S, s)
    BY <2>1
  <2>3. t - 1 \in S
    BY <1>2, <2>2
  <2> QED
    BY <2>3 DEF RunStarts
<1>4. \A i \in S : \E s \in RunStarts(S) : i \in s..RunEnd(S, s)
  <2> TAKE i \in S
  <2>1. PICK s \in RunStarts(S) : s <= i /\ s..i \subseteq S
    BY RunHasStart
  <2> DEFINE e == RunEnd(S, s)
  <2>2. e \in RunEnds(S) /\ s <= e /\ s \in Nat /\ i \in Nat /\ e \in Nat
    BY <1>0, <1>1, <1>2
  <2> HIDE DEF e
  <2>3. ~ (e < i)
    <3> SUFFICES ASSUME e < i PROVE FALSE
      OBVIOUS
    <3>1. e + 1 \in s..i
      BY <2>2
    <3>2. e + 1 \in S
      BY <2>1, <3>1
    <3> QED
      BY <2>2, <3>2 DEF RunEnds
  <2>4. i \in s..e
    BY <2>1, <2>2, <2>3
  <2> QED
    BY <2>4 DEF e
<1>5. \A e \in RunEnds(S) : \E s \in RunStarts(S) : RunEnd(S, s) = e
  <2> TAKE e \in RunEnds(S)
  <2>1. PICK s \in RunStarts(S) : e \in s..RunEnd(S, s)
    BY <1>1, <1>4
  <2> DEFINE d == RunEnd(S, s)
  <2>2. s \in Nat /\ e \in Nat /\ d \in Nat /\ s..d \subseteq S /\ s <= e /\ e <= d
    <3>1. d \in RunEnds(S) /\ s..d \subseteq S
      BY <1>2
    <3>2. s \in Nat /\ e \in Nat /\ d \in Nat
      BY <1>0, <1>1, <3>1
    <3> HIDE DEF d
    <3>3. e \in s..d
      BY <2>1 DEF d
    <3> QED
      BY <3>1, <3>2, <3>3
  <2> HIDE DEF d
  <2>3. ~ (e < d)
    <3> SUFFICES ASSUME e < d PROVE FALSE
      OBVIOUS
    <3>1. e + 1 \in s..d
      BY <2>2
    <3>2. e + 1 \in S
      BY <2>2, <3>1
    <3> QED
      BY <3>2 DEF RunEnds
  <2>4. d = e
    BY <2>2, <2>3
  <2> QED
    BY <2>4 DEF d
<1>6. RunStarts(S) \in SUBSET Nat /\ RunEnds(S) \in SUBSET Nat
  BY <1>0, <1>1
<1> QED
  BY <1>2, <1>3, <1>4, <1>5, <1>6

\* Numbers in ascending order can be listed in one way only.
LEMMA ListsAgree ==
    ASSUME NEW S \in SUBSET Nat, NEW n \in Nat, NEW s \in [1..n -> S], NEW t \in [1..n -> S],
           \A x \in S : (\E k \in 1..n : s[k] = x) /\ (\E k \in 1..n : t[k] = x),
           \A j, k \in 1..n : j < k => s[j] < s[k] /\ t[j] < t[k]
    PROVE  s = t
<1> DEFINE A == {k \in 0..n : \A j \in 1..k : s[j] = t[j]}
<1>1. 0 \in A
  OBVIOUS
<1>2. \A k \in 1..n : s[k] \in Nat /\ t[k] \in Nat /\ s[k] \in S /\ t[k] \in S
  OBVIOUS
<1>3. ASSUME NEW k \in 1..n, k - 1 \in A
      PROVE  k \in A
  <2>1. \A j \in 1..(k - 1) : j \in 1..n /\ s[j] = t[j]
    BY <1>3
  <2>2. PICK i \in 1..n : t[i] = s[k]
    BY <1>2
  <2>3. PICK l \in 1..n : s[l] = t[k]
    BY <1>2
  <2>4. i >= k
    <3> SUFFICES ASSUME i < k PROVE FALSE
      OBVIOUS
    <3>1. i \in 1..(k - 1) /\ s[i] < s[k]
      OBVIOUS
    <3>2. s[i] = s[k]
      BY <2>1, <2>2, <3>1
    <3> QED
      BY <1>2, <3>1, <3>2
  <2>5. l >= k
    <3> SUFFICES ASSUME l < k PROVE FALSE
      OBVIOUS
    <3>1. l \in 1..(k - 1) /\ t[l] < t[k]
      OBVIOUS
    <3>2. t[l] = t[k]
      BY <2>1, <2>3, <3>1
    <3> QED
      BY <1>2, <3>1, <3>2
  <2>6. t[k] <= s[k]
    <3>1. CASE i = k
      BY <1>2, <2>2, <3>1
    <3>2. CASE i > k
      <4>1. t[k] < t[i]
        BY <3>2
      <4> QED
        BY <1>2, <2>2, <4>1
    <3> QED
      BY <2>4, <3>1, <3>2
  <2>7. s[k] <= t[k]
    <3>1. CASE l = k
      BY <1>2, <2>3, <3>1
    <3>2. CASE l > k
      <4>1. s[k] < s[l]
        BY <3>2
      <4> QED
        BY <1>2, <2>3, <4>1
    <3> QED
      BY <2>5, <3>1, <3>2
  <2>8. s[k] = t[k]
    BY <1>2, <2>6, <2>7
  <2>9. \A j \in 1..k : j = k \/ j \in 1..(k - 1)
    OBVIOUS
  <2>10. \A j \in 1..k : s[j] = t[j]
    BY <2>1, <2>8, <2>9
  <2> QED
    BY <2>10
<1> HIDE DEF A
<1>4. 0..n \subseteq A
  BY <1>1, <1>3, Upwards
<1>5. n \in A
  BY <1>4
<1>6. \A j \in 1..n : s[j] = t[j]
  BY <1>5 DEF A
<1> QED
  BY <1>6

\* The runs of a set, in order.
LEMMA RunsAre ==
    ASSUME NEW b \in Nat, NEW S, UpTo(S, b)
    PROVE  LET n == Len(Runs(S))
               a == Ascending(RunStarts(S))
           IN /\ n \in Nat /\ DOMAIN Runs(S) = 1..n /\ Runs(S) \in Seq([start : Nat, end : Nat])
              /\ \A k \in 1..n :
                    /\ a[k] \in RunStarts(S)
                    /\ Runs(S)[k] = [start |-> a[k], end |-> RunEnd(S, a[k])]
              /\ \A s \in RunStarts(S) : \E k \in 1..n : a[k] = s
              /\ \A j, k \in 1..n : j < k => a[j] < a[k]
<1> DEFINE A == RunStarts(S)
           E == RunEnds(S)
           a == Ascending(A)
           d == Ascending(E)
           n == Cardinality(A)
           c == [k \in 1..n |-> RunEnd(S, a[k])]
<1>1. /\ A \in SUBSET Nat /\ E \in SUBSET Nat
      /\ \A s \in A : RunEnd(S, s) \in E /\ s <= RunEnd(S, s)
      /\ \A s \in A : \A t \in A : s < t => RunEnd(S, s) < t
      /\ \A e \in E : \E s \in A : RunEnd(S, s) = e
  BY RunsApart
<1>2. IsFiniteSet(A) /\ IsFiniteSet(E)
  <2>1. \A i \in A : i <= b
    BY DEF UpTo, RunStarts
  <2>2. \A i \in E : i <= b
    BY DEF UpTo, RunEnds
  <2> HIDE DEF A, E
  <2> QED
    BY <1>1, <2>1, <2>2, FS_BoundedSetOfNaturals
<1>3. Runs(S) = [k \in DOMAIN a |-> [start |-> a[k], end |-> d[k]]]
  BY DEF Runs, RunStarts, RunEnds
<1> HIDE DEF A, E
<1>4. /\ n \in Nat /\ a \in [1..n -> A]
      /\ \A x \in A : \E k \in 1..n : a[k] = x
      /\ \A j, k \in 1..n : j < k => a[j] < a[k]
  <2>1. A \in SUBSET Int
    BY <1>1
  <2> QED
    BY <1>2, <2>1, AscendingLists
<1>5. /\ Cardinality(E) \in Nat /\ d \in [1..Cardinality(E) -> E]
      /\ \A x \in E : \E k \in 1..Cardinality(E) : d[k] = x
      /\ \A j, k \in 1..Cardinality(E) : j < k => d[j] < d[k]
  <2>1. E \in SUBSET Int
    BY <1>1
  <2> QED
    BY <1>2, <2>1, AscendingLists
<1> HIDE DEF a, d, n
<1>6. c \in [1..n -> E] /\ \A k \in 1..n : c[k] = RunEnd(S, a[k]) /\ a[k] <= c[k]
  BY <1>1, <1>4
<1>7. \A e \in E : \E k \in 1..n : c[k] = e
  <2> TAKE e \in E
  <2>1. PICK s \in A : RunEnd(S, s) = e
    BY <1>1
  <2>2. PICK k \in 1..n : a[k] = s
    BY <1>4
  <2> QED
    BY <1>6, <2>1, <2>2
<1> HIDE DEF c
<1>8. ASSUME NEW j \in 1..n, NEW k \in 1..n, j < k
      PROVE  c[j] < c[k]
  <2>1. a[j] \in A /\ a[k] \in A /\ a[j] < a[k]
    BY <1>4, <1>8
  <2>2. c[j] < a[k] /\ a[k] <= c[k]
    <3>1. c[j] = RunEnd(S, a[j]) /\ a[k] <= c[k]
      BY <1>6
    <3>2. RunEnd(S, a[j]) < a[k]
      BY <1>1, <2>1
    <3> QED
      BY <3>1, <3>2
  <2>3. c[j] \in Nat /\ a[k] \in Nat /\ c[k] \in Nat
    BY <1>1, <1>4, <1>6
  <2> QED
    BY <2>2, <2>3
<1>9. Cardinality(E) = n
  <2>1. \A j, k \in 1..n : j < k => <<c[j], c[k]>> \in ByNumber
    <3>1. \A j \in 1..n : c[j] \in Int
      <4> TAKE j \in 1..n
      <4>1. c[j] \in E
        BY <1>6
      <4>2. \A e \in E : e \in Nat
        BY <1>1
      <4>3. c[j] \in Nat
        BY <4>1, <4>2
      <4> QED
        BY <4>3
    <3> QED
      BY <1>8, <3>1 DEF ByNumber
  <2>2. Ordered(E, ByNumber)
    <3>1. E \in SUBSET Int
      BY <1>1
    <3> QED
      BY <1>2, <3>1, AscendingIsList
  <2> QED
    <3>1. n \in Nat /\ c \in [1..n -> E]
      BY <1>4, <1>6
    <3> QED
      BY <1>7, <2>1, <2>2, <3>1, MadeList
<1>10. d = c
  <2>1. d \in [1..n -> E]
    BY <1>5, <1>9
  <2>2. \A x \in E : (\E k \in 1..n : d[k] = x) /\ (\E k \in 1..n : c[k] = x)
    BY <1>5, <1>7, <1>9
  <2>3. \A j, k \in 1..n : j < k => d[j] < d[k] /\ c[j] < c[k]
    BY <1>5, <1>8, <1>9
  <2> QED
    <3>1. n \in Nat /\ c \in [1..n -> E] /\ E \in SUBSET Nat
      BY <1>1, <1>4, <1>6
    <3> QED
      BY <2>1, <2>2, <2>3, <3>1, ListsAgree
<1>11. DOMAIN Runs(S) = 1..n /\ \A k \in 1..n : Runs(S)[k] = [start |-> a[k], end |-> c[k]]
  BY <1>3, <1>4, <1>10
<1>12. Runs(S) \in [1..n -> [start : Nat, end : Nat]]
  <2>1. Runs(S) = [k \in 1..n |-> [start |-> a[k], end |-> c[k]]]
    BY <1>3, <1>4, <1>10
  <2>2. \A k \in 1..n : [start |-> a[k], end |-> c[k]] \in [start : Nat, end : Nat]
    BY <1>1, <1>4, <1>6
  <2> QED
    BY <2>1, <2>2
<1>13. Runs(S) \in Seq([start : Nat, end : Nat]) /\ Len(Runs(S)) = n
  <2>1. n \in Nat
    BY <1>4
  <2>2. Runs(S) \in Seq([start : Nat, end : Nat])
    BY <1>12, <2>1, SeqDef
  <2> QED
    BY <1>11, <2>1, <2>2, LenProperties
<1>14. \A k \in 1..n : a[k] \in A /\ Runs(S)[k] = [start |-> a[k], end |-> RunEnd(S, a[k])]
  BY <1>4, <1>6, <1>11
<1> QED
  BY <1>4, <1>11, <1>13, <1>14 DEF a, A

\* Together they are as long as the set has members.
RunSizes(rows) == [i \in DOMAIN rows |-> rows[i].end - rows[i].start + 1]

LEMMA RunsCover ==
    ASSUME NEW b \in Nat, NEW S, UpTo(S, b)
    PROVE  LET rows == Runs(S)
           IN /\ \A k \in DOMAIN rows : /\ rows[k].start <= rows[k].end
                                        /\ k > 1 => rows[k].start > rows[k - 1].end
              /\ RunSizes(rows) \in Seq(Nat) /\ Len(RunSizes(rows)) = Len(rows)
              /\ SumOf(RunSizes(rows)) = Cardinality(S)
<1> DEFINE rows == Runs(S)
           n == Len(rows)
           a == Ascending(RunStarts(S))
           c(k) == RunEnd(S, a[k])
           sizes == RunSizes(rows)
<1>1. /\ n \in Nat /\ DOMAIN rows = 1..n
      /\ \A k \in 1..n : a[k] \in RunStarts(S) /\ rows[k] = [start |-> a[k], end |-> c(k)]
      /\ \A s \in RunStarts(S) : \E k \in 1..n : a[k] = s
      /\ \A j, k \in 1..n : j < k => a[j] < a[k]
  BY RunsAre
<1> HIDE DEF rows, a
<1> HIDE DEF n
<1>2. /\ RunStarts(S) \in SUBSET Nat /\ RunEnds(S) \in SUBSET Nat
      /\ \A s \in RunStarts(S) :
            /\ RunEnd(S, s) \in RunEnds(S) /\ s <= RunEnd(S, s) /\ s..RunEnd(S, s) \subseteq S
            /\ \A t \in RunStarts(S) : s < t => RunEnd(S, s) < t
      /\ \A i \in S : \E s \in RunStarts(S) : i \in s..RunEnd(S, s)
  BY RunsApart
<1>3. ASSUME NEW k \in 1..n
      PROVE  /\ rows[k].start = a[k] /\ rows[k].end = c(k)
             /\ a[k] \in Nat /\ c(k) \in Nat /\ a[k] <= c(k) /\ a[k]..c(k) \subseteq S
  BY <1>1, <1>2
<1>4. ASSUME NEW j \in 1..n, NEW k \in 1..n, j < k
      PROVE  c(j) < a[k]
  BY <1>1, <1>2, <1>4
<1>5. \A i \in S : \E k \in 1..n : i \in a[k]..c(k)
  <2> TAKE i \in S
  <2>1. PICK s \in RunStarts(S) : i \in s..RunEnd(S, s)
    BY <1>2
  <2>2. PICK k \in 1..n : a[k] = s
    BY <1>1
  <2> QED
    BY <2>1, <2>2
<1> HIDE DEF c
<1>6. sizes \in Seq(Nat) /\ Len(sizes) = n /\ \A k \in 1..n : sizes[k] = c(k) - a[k] + 1
  <2>1. sizes = [k \in 1..n |-> rows[k].end - rows[k].start + 1]
    BY <1>1 DEF RunSizes
  <2>2. \A k \in 1..n : rows[k].end - rows[k].start + 1 = c(k) - a[k] + 1 /\ c(k) - a[k] + 1 \in Nat
    BY <1>3
  <2>3. sizes \in [1..n -> Nat] /\ \A k \in 1..n : sizes[k] = c(k) - a[k] + 1
    BY <2>1, <2>2
  <2> QED
    BY <1>1, <2>3, SeqDef, LenProperties
<1> HIDE DEF sizes
<1>7. PICK f : Sums(f, sizes) /\ SumOf(sizes) = f[Len(sizes)]
  <2>1. sizes \in Seq(Int)
    BY <1>6
  <2> QED
    BY <2>1, SumIs
<1>8. f[0] = 0 /\ \A k \in 1..n : f[k] = f[k - 1] + sizes[k]
  BY <1>6, <1>7 DEF Sums
<1> DEFINE U(k) == {i \in S : \E j \in 1..k : i \in a[j]..c(j)}
           G == {k \in 0..n : IsFiniteSet(U(k)) /\ Cardinality(U(k)) = f[k]}
<1> HIDE DEF U
<1>9. 0 \in G
  <2>1. U(0) = {}
    BY DEF U
  <2>2. IsFiniteSet({}) /\ Cardinality({}) = 0
    BY FS_EmptySet
  <2>3. 0 \in 0..n
    BY <1>1
  <2> QED
    BY <1>8, <2>1, <2>2, <2>3
<1>10. ASSUME NEW k \in 1..n, k - 1 \in G
       PROVE  k \in G
  <2> DEFINE R == a[k]..c(k)
             V == U(k - 1)
             W == U(k)
  <2>0. k \in Nat /\ k \in 0..n /\ k - 1 \in 0..n
    BY <1>1
  <2>1. IsFiniteSet(V) /\ Cardinality(V) = f[k - 1]
    BY <1>10
  <2>2. a[k] \in Nat /\ c(k) \in Nat /\ a[k] <= c(k) /\ R \subseteq S
    BY <1>3
  <2>3. IsFiniteSet(R) /\ Cardinality(R) = sizes[k]
    <3>1. IsFiniteSet(R) /\ Cardinality(R) = c(k) - a[k] + 1
      <4>1. a[k] \in Int /\ c(k) \in Int /\ ~ (a[k] > c(k))
        BY <2>2
      <4> QED
        BY <4>1, FS_Interval
    <3> QED
      BY <1>6, <3>1
  <2>4. V \cap R = {}
    <3> SUFFICES ASSUME NEW i \in V, i \in R PROVE FALSE
      OBVIOUS
    <3>1. PICK j \in 1..(k - 1) : i \in a[j]..c(j)
      BY DEF U
    <3>2. j \in 1..n /\ j < k
      BY <1>1
    <3>3. c(j) < a[k] /\ a[j] \in Nat /\ c(j) \in Nat
      BY <1>3, <1>4, <3>2
    <3>4. i <= c(j) /\ a[k] <= i /\ i \in Int
      BY <2>2, <3>1, <3>3
    <3> QED
      BY <2>2, <3>3, <3>4
  <2>5. W = V \cup R
    <3>1. \A j \in 1..k : j = k \/ j \in 1..(k - 1)
      BY <2>0
    <3>2. k \in 1..k /\ 1..(k - 1) \subseteq 1..k
      BY <2>0
    <3> QED
      BY <2>2, <3>1, <3>2 DEF U
  <2> HIDE DEF V, W, R
  <2>6. IsFiniteSet(W) /\ Cardinality(W) = Cardinality(V) + Cardinality(R) - Cardinality(V \cap R)
    BY <2>1, <2>3, <2>5, FS_Union
  <2>7. Cardinality(V \cap R) = 0 /\ Cardinality(V) \in Nat /\ Cardinality(R) \in Nat
    BY <2>1, <2>3, <2>4, FS_EmptySet, FS_CardinalityType
  <2>8. Cardinality(W) = f[k]
    BY <1>8, <2>1, <2>3, <2>6, <2>7
  <2> QED
    BY <2>0, <2>6, <2>8 DEF W
<1>11. U(n) = S
  BY <1>5 DEF U
<1> HIDE DEF G
<1>12. 0..n \subseteq G
  BY <1>1, <1>9, <1>10, Upwards
<1>13. n \in G
  BY <1>1, <1>12
<1>14. SumOf(sizes) = Cardinality(S)
  BY <1>6, <1>7, <1>11, <1>13 DEF G
<1>15. \A k \in 1..n : rows[k].start <= rows[k].end /\ (k > 1 => rows[k].start > rows[k - 1].end)
  <2> TAKE k \in 1..n
  <2>1. k > 1 => k - 1 \in 1..n /\ k - 1 < k
    BY <1>1
  <2> QED
    BY <1>1, <1>3, <1>4, <2>1
<1> QED
  BY <1>1, <1>6, <1>14, <1>15 DEF rows, n, sizes

\* A function's details are accepted: its body in as many ranges, and as much of them and
\* of its variables, as the limit and the time leave.
LEMMA DetailsAccepted ==
    ASSUME NEW p \in Programs, NEW r \in FunctionDetailsParams, NEW time \in Nat
    PROVE  AcceptsDetails(r, FunctionDetails(p, r, time))
<1> DEFINE S == Body(p)
           rows == Runs(S)
           body == Take(rows, 0, r.limit)
           n == Len(rows)
           m == IF r.limit <= n THEN r.limit ELSE n
           inTime == time >= Min({p.size, r.limit})
           some == Take(Numbers(p.size), 0, Min({r.limit, time}))
           most == Min({r.limit, time})
           reason == IF ~ inTime THEN "time_limit"
                     ELSE IF Max({p.size, Len(rows)}) > r.limit THEN "item_limit" ELSE "none"
           v == FunctionDetails(p, r, time)
<1>1. /\ v.address = r.address /\ v.body = body /\ v.body_size = Cardinality(S)
      /\ v.body_range_count = n /\ v.rows = some /\ v.variable_count = p.size
      /\ v.status = Status(reason)
  BY DEF FunctionDetails
<1>2. r.limit \in Nat /\ p.size \in Nat
  <2>1. r.limit \in 1..256
    BY DEF FunctionDetailsParams
  <2> QED
    BY <2>1, SizesAreNumbers
<1>3. MaxOffset \in Nat /\ UpTo(S, MaxOffset)
  <2>1. \A u \in ToSet(Code(p)) : u.at \in Offset /\ u.end \in Offset
    <3>1. ToSet(Code(p)) = Instructions(p, Offset)
      BY CodeMembers DEF Code
    <3>2. \A u \in ToSet(p.units) : u \in CodeUnit
      BY ProgramIs, ElementOfSeq, LenProperties DEF ToSet
    <3> QED
      BY <3>1, <3>2, UnitFields DEF Instructions
  <2>2. S \subseteq Offset
    <3> SUFFICES ASSUME NEW u \in ToSet(Code(p)) PROVE \A i \in u.at..u.end : i \in Offset
      BY DEF Body
    <3>1. u.at \in Nat /\ u.end \in Nat /\ u.end <= MaxOffset /\ MaxOffset \in Nat
      BY <2>1, OffsetIs, CoreAssumption
    <3> TAKE i \in u.at..u.end
    <3>2. i \in Nat /\ i <= MaxOffset
      BY <3>1
    <3> QED
      BY <3>1, <3>2 DEF Offset
  <2> QED
    BY <2>2, OffsetIs, CoreAssumption DEF UpTo
<1> HIDE DEF S
<1>4. /\ n \in Nat /\ DOMAIN rows = 1..n /\ rows \in Seq([start : Nat, end : Nat])
      /\ \A k \in 1..n : rows[k].start <= rows[k].end /\ (k > 1 => rows[k].start > rows[k - 1].end)
      /\ RunSizes(rows) \in Seq(Nat) /\ Len(RunSizes(rows)) = n
      /\ SumOf(RunSizes(rows)) = Cardinality(S)
  BY <1>3, RunsAre, RunsCover
<1> HIDE DEF rows
<1>5. /\ m \in Nat /\ Len(body) = m /\ DOMAIN body = 1..m
      /\ \A i \in 1..m : i \in 1..n /\ body[i] = rows[i]
  <2>1. /\ m \in Nat /\ body \in Seq([start : Nat, end : Nat]) /\ Len(body) = m
        /\ \A i \in 1..m : i \in DOMAIN rows /\ body[i] = rows[i]
    <3>1. PICK X : X = [start : Nat, end : Nat]
      OBVIOUS
    <3>0. rows \in Seq(X)
      BY <1>4, <3>1
    <3>2. m = IF r.limit <= Len(rows) THEN r.limit ELSE Len(rows)
      OBVIOUS
    <3> HIDE DEF m, n, body
    <3>3. /\ m \in Nat /\ Take(rows, 0, r.limit) \in Seq(X)
          /\ Len(Take(rows, 0, r.limit)) = m
          /\ \A i \in 1..m : i \in DOMAIN rows /\ Take(rows, 0, r.limit)[i] = rows[i]
      BY <1>2, <3>0, <3>2, TakeFirst
    <3> QED
      BY <3>1, <3>3 DEF body
  <2>2. DOMAIN body = 1..m
    BY <2>1, LenProperties
  <2> QED
    BY <1>4, <2>1, <2>2
<1>6. m <= n /\ m <= r.limit /\ (n <= r.limit => m = n)
  BY <1>2, <1>4
<1> HIDE DEF body, n
<1> HIDE DEF m
<1>7. AcceptsRanges(v.body)
  <2>1. ASSUME NEW i \in 1..m
        PROVE  body[i].start <= body[i].end /\ (i > 1 => body[i].start > body[i - 1].end)
    <3>1. i > 1 => i - 1 \in 1..m
      BY <1>5
    <3> QED
      BY <1>4, <1>5, <3>1
  <2> QED
    BY <1>1, <1>5, <2>1 DEF AcceptsRanges
<1>8. /\ Covered(v.body) \in Nat /\ Covered(v.body) <= Cardinality(S)
      /\ m = n => Covered(v.body) = Cardinality(S)
  <2> DEFINE sizes == RunSizes(v.body)
  <2>1. DOMAIN sizes = 1..m /\ \A i \in 1..m : sizes[i] = rows[i].end - rows[i].start + 1
    BY <1>1, <1>5 DEF RunSizes
  <2>2. \A i \in 1..n : RunSizes(rows)[i] = rows[i].end - rows[i].start + 1 /\ RunSizes(rows)[i] \in Nat
    BY <1>4, ElementOfSeq DEF RunSizes
  <2>3. sizes = [i \in 1..m |-> RunSizes(rows)[i]]
    BY <1>1, <1>5, <2>2 DEF RunSizes
  <2>4. sizes \in [1..m -> Nat] /\ \A i \in 1..m : sizes[i] = RunSizes(rows)[i]
    BY <1>5, <2>2, <2>3
  <2> HIDE DEF sizes
  <2>5. sizes \in Seq(Nat) /\ Len(sizes) = m
    BY <1>5, <2>4, SeqDef, LenProperties
  <2>6. SumOf(sizes) \in Nat /\ SumOf(sizes) <= SumOf(RunSizes(rows))
        /\ (Len(sizes) = Len(RunSizes(rows)) => SumOf(sizes) = SumOf(RunSizes(rows)))
    BY <1>4, <1>6, <2>4, <2>5, BeginningSums
  <2>7. Covered(v.body) = SumOf(sizes)
    BY DEF Covered, sizes, RunSizes
  <2> QED
    BY <1>4, <2>5, <2>6, <2>7
<1>9. Len(some) \in Nat /\ Len(some) <= r.limit /\ Len(some) <= p.size
      /\ (reason = "none" => Len(some) = p.size /\ n <= r.limit)
  <2>1. most = IF r.limit <= time THEN r.limit ELSE time
    BY <1>2, MinOfTwo
  <2>2. most \in Nat
    BY <1>2, <2>1
  <2>3. Numbers(p.size) \in Seq(Nat) /\ Len(Numbers(p.size)) = p.size
    BY <1>2, NumbersAreSeq
  <2>4. Len(some) = IF most <= p.size THEN most ELSE p.size
    <3> HIDE DEF most
    <3>1. Len(Take(Numbers(p.size), 0, most)) =
            IF most <= Len(Numbers(p.size)) THEN most ELSE Len(Numbers(p.size))
      BY <2>2, <2>3, TakeFirst
    <3> QED
      BY <2>3, <3>1 DEF most
  <2>5. Min({p.size, r.limit}) = IF p.size <= r.limit THEN p.size ELSE r.limit
    BY <1>2, MinOfTwo
  <2>6. reason = "none" => inTime /\ p.size <= r.limit /\ n <= r.limit
    <3>1. Max({p.size, n}) = IF p.size >= n THEN p.size ELSE n
      <4>1. n \in Int /\ p.size \in Int
        BY <1>2, <1>4
      <4> QED
        BY <4>1, MaxOfTwo
    <3>2. reason = "none" => inTime /\ ~ (Max({p.size, n}) > r.limit)
      BY DEF n
    <3>3. n \in Nat
      BY <1>4 DEF n
    <3> QED
      BY <1>2, <3>1, <3>2, <3>3
  <2> HIDE DEF reason
  <2> QED
    BY <1>2, <2>1, <2>2, <2>4, <2>5, <2>6
<1>10. /\ v.status.reason = reason /\ v.status.truncated = (reason # "none")
       /\ reason \in {"none", "item_limit", "time_limit"}
  BY <1>1 DEF Status
<1> HIDE DEF reason, some, v
<1>11. Early(v, {"item_limit", "time_limit", "scan_limit"})
  BY <1>10 DEF Early
<1>12. ~ v.status.truncated => reason = "none"
  BY <1>10
<1>13. reason = "none" => m = n
  BY <1>6, <1>9
<1>14. AcceptsDetails(r, v)
  BY <1>1, <1>5, <1>6, <1>7, <1>8, <1>9, <1>11, <1>12, <1>13 DEF AcceptsDetails
<1> QED
  BY <1>14 DEF v

-----------------------------------------------------------------------------
(* The paths of a call graph.                                               *)

\* What a sequence of sequences is put together to.
LEMMA FlattenedIs ==
    ASSUME NEW E, NEW ss \in Seq(Seq(E))
    PROVE  FlattenSeq(ss) \in Seq(E)
<1> DEFINE n == Len(ss)
           D == Seq(E)
           I == [k \in 0..n |-> D]
           F == [q \in D \X (1..n) |-> q[1] \o ss[q[2]]]
           none == <<>>
           flat(f) == [i \in 1..n |-> IF i = 1 THEN ss[i] ELSE f[i - 1] \o ss[i]]
           run == CHOOSE f : f = flat(f)
<1>0. n \in Nat /\ \A k \in 1..n : ss[k] \in D
  BY LenProperties, ElementOfSeq
<1>1. CASE n = 0
  <2>1. ss = <<>>
    BY <1>1, EmptySeq
  <2> QED
    BY <1>1, <2>1 DEF FlattenSeq
<1>2. CASE n # 0
  <2>1. none \in D /\ \A s \in D : none \o s = s
    OBVIOUS
  <2>2. \A x, y \in D : x \o y \in D
    BY ConcatProperties
  <2> HIDE DEF D, none
  <2>3. I \in [0..n -> SUBSET D] /\ \A k \in 0..n : I[k] = D
    OBVIOUS
  <2>4. \A k \in 1..n : \A x \in D : F[<<x, k>>] = x \o ss[k]
    OBVIOUS
  <2> HIDE DEF I, F
  <2>5. \A k \in 1..n : k - 1 \in 0..n /\ k \in 0..n
    BY <1>0
  <2>6. Leads(n, D, I, none, F)
    <3>1. ASSUME NEW k \in 1..n, NEW x \in I[k - 1]
          PROVE  F[<<x, k>>] \in I[k]
      BY <1>0, <2>2, <2>3, <2>4, <2>5
    <3>2. 0 \in 0..n
      BY <1>0
    <3> QED
      BY <1>0, <2>1, <2>3, <3>1, <3>2 DEF Leads
  <2>7. PICK f : Follows(f, n, D, I, none, F)
    BY <2>6, Repetition
  <2>8. /\ f[0] = none /\ f \in [0..n -> D]
        /\ \A k \in 1..n : f[k] = F[<<f[k - 1], k>>]
    BY <2>7 DEF Follows
  <2>9. \A k \in 1..n : f[k] = f[k - 1] \o ss[k]
    BY <2>4, <2>5, <2>8
  <2> DEFINE h == [k \in 1..n |-> f[k]]
  <2>10. h = flat(h)
    <3>1. ASSUME NEW k \in 1..n
          PROVE  f[k] = IF k = 1 THEN ss[k] ELSE h[k - 1] \o ss[k]
      <4>1. CASE k = 1
        <5>1. f[1] = none \o ss[1] /\ ss[1] \in D
          <6>1. 1 \in 1..n /\ 1 - 1 = 0
            BY <4>1
          <6> QED
            BY <1>0, <2>8, <2>9, <6>1
        <5>2. f[1] = ss[1]
          BY <2>1, <5>1
        <5> QED
          BY <4>1, <5>2
      <4>2. CASE k # 1
        <5>1. k - 1 \in 1..n
          BY <1>0, <4>2
        <5>2. h[k - 1] = f[k - 1]
          BY <5>1
        <5> QED
          BY <2>9, <4>2, <5>2
      <4> QED
        BY <4>1, <4>2
    <3> QED
      BY <3>1
  <2>11. run = flat(run)
    <3> HIDE DEF flat, h
    <3> QED
      BY <2>10
  <2>12. FlattenSeq(ss) = run[n]
    BY <1>2 DEF FlattenSeq
  <2> HIDE DEF run
  <2> DEFINE S == {k \in 0..n : k > 0 => run[k] \in D}
  <2>13. \A k \in 1..n : run[k] = IF k = 1 THEN ss[k] ELSE run[k - 1] \o ss[k]
    BY <2>11
  <2>14. 0..n \subseteq S
    <3>1. 0 \in S
      BY <1>0
    <3>2. ASSUME NEW k \in 1..n, k - 1 \in S
          PROVE  k \in S
      <4>1. run[k] \in D
        <5>1. CASE k = 1
          BY <1>0, <2>13, <5>1
        <5>2. CASE k # 1
          <6>1. k - 1 > 0
            BY <5>2
          <6>2. run[k - 1] \in D
            BY <3>2, <6>1
          <6> QED
            BY <1>0, <2>2, <2>13, <5>2, <6>2
        <5> QED
          BY <5>1, <5>2
      <4> QED
        BY <2>5, <4>1
    <3> HIDE DEF S
    <3> QED
      BY <1>0, <3>1, <3>2, Upwards
  <2>15. run[n] \in D
    <3>1. n \in 0..n /\ n > 0
      BY <1>0, <1>2
    <3>2. n \in S
      BY <2>14, <3>1
    <3> QED
      BY <3>1, <3>2
  <2> QED
    BY <2>12, <2>15 DEF D
<1> QED
  BY <1>0, <1>1, <1>2

\* Paths without repetition from the source along the edges, of at most k edges.
Walk(g, source, k) ==
    {path \in Seq(Nat) :
        /\ Len(path) \in 1..(k + 1) /\ IsInjective(path)
        /\ ToSet(path) \subseteq ToSet(g.nodes)
        /\ \A i \in 1..(Len(path) - 1) : <<path[i], path[i + 1]>> \in ToSet(g.edges)
        /\ path[1] = source}
Walks(g, source, k) == Seq(Walk(g, source, k))
Graphs(g, source) ==
    /\ g.nodes \in Seq(Nat) /\ IsInjective(g.nodes) /\ source \in ToSet(g.nodes)

\* A path that is not at the target gives way to longer ones.
LEMMA LongerAre ==
    ASSUME NEW g, NEW source, Graphs(g, source), NEW target, NEW m \in Nat \ {0},
           NEW path \in Walk(g, source, m - 1)
    PROVE  Longer(g, target, path) \in Walks(g, source, m)
<1> DEFINE n == Len(path)
           T == {x \in ToSet(g.nodes) : <<path[n], x>> \in ToSet(g.edges)} \ ToSet(path)
           next == Ascending(T)
           c == Cardinality(T)
           W == Walk(g, source, m)
<1>1. /\ path \in Seq(Nat) /\ n \in 1..((m - 1) + 1) /\ IsInjective(path)
      /\ ToSet(path) \subseteq ToSet(g.nodes)
      /\ \A i \in 1..(n - 1) : <<path[i], path[i + 1]>> \in ToSet(g.edges)
      /\ path[1] = source
  BY DEF Walk
<1>2. n \in Nat /\ n >= 1 /\ n <= m /\ n + 1 <= m + 1
  BY <1>1
<1>3. path \in W
  <2>1. n \in 1..(m + 1)
    BY <1>2
  <2> QED
    BY <1>1, <2>1 DEF Walk
<1>4. T \in SUBSET Nat /\ IsFiniteSet(T)
  <2>1. g.nodes \in Seq(Nat) /\ IsInjective(g.nodes)
    BY DEF Graphs
  <2>2. IsFiniteSet(ToSet(g.nodes))
    BY <2>1, InjectiveCounts
  <2>3. ToSet(g.nodes) \subseteq Nat
    BY <2>1, LenProperties, ElementOfSeq DEF ToSet
  <2>4. T \subseteq ToSet(g.nodes)
    OBVIOUS
  <2> HIDE DEF T
  <2> QED
    BY <2>2, <2>3, <2>4, FS_Subset
<1>5. next \in [1..c -> T] /\ c \in Nat
  <2> HIDE DEF T
  <2>1. T \in SUBSET Int
    BY <1>4
  <2> QED
    BY <1>4, <2>1, AscendingLists
<1>6. \A x \in T : x \in Nat /\ x \in ToSet(g.nodes) /\ x \notin ToSet(path)
                   /\ <<path[n], x>> \in ToSet(g.edges)
  BY <1>4
<1>7. Longer(g, target, path) = IF path[n] = target THEN <<path>>
                                ELSE [i \in DOMAIN next |-> Append(path, next[i])]
  BY DEF Longer
<1> HIDE DEF T, next, c, n
<1>8. ASSUME NEW x \in T
      PROVE  Append(path, x) \in W
  <2> DEFINE t == Append(path, x)
  <2>1. /\ t \in Seq(Nat) /\ Len(t) = n + 1 /\ t[n + 1] = x
        /\ \A i \in 1..n : t[i] = path[i]
        /\ ToSet(t) = ToSet(path) \cup {x} /\ IsInjective(t)
    <3>1. path \in Seq(Nat) /\ IsInjective(path) /\ x \in Nat /\ x \notin ToSet(path)
      BY <1>1, <1>6
    <3> QED
      BY <3>1, OneMore DEF n
  <2> HIDE DEF t
  <2>2. ASSUME NEW i \in 1..(Len(t) - 1)
        PROVE  <<t[i], t[i + 1]>> \in ToSet(g.edges)
    <3>1. i \in 1..n
      BY <1>2, <2>1
    <3>2. CASE i = n
      <4>1. t[i] = path[n] /\ t[i + 1] = x
        BY <2>1, <3>1, <3>2
      <4> QED
        BY <1>6, <4>1
    <3>3. CASE i # n
      <4>1. i \in 1..(n - 1) /\ i + 1 \in 1..n
        BY <1>2, <3>1, <3>3
      <4>2. t[i] = path[i] /\ t[i + 1] = path[i + 1]
        BY <2>1, <3>1, <4>1
      <4> QED
        BY <1>1, <4>1, <4>2
    <3> QED
      BY <3>2, <3>3
  <2>3. t[1] = source /\ Len(t) \in 1..(m + 1)
    <3>1. 1 \in 1..n /\ n + 1 \in 1..(m + 1)
      BY <1>2
    <3> QED
      BY <1>1, <2>1, <3>1
  <2>4. ToSet(t) \subseteq ToSet(g.nodes)
    BY <1>1, <1>6, <2>1
  <2>5. t \in W
    BY <2>1, <2>2, <2>3, <2>4 DEF Walk
  <2> QED
    BY <2>5 DEF t
<1> HIDE DEF W
<1>9. CASE path[n] = target
  <2>1. <<path>> \in Seq(W)
    BY <1>3
  <2> QED
    BY <1>7, <1>9, <2>1 DEF Walks, W
<1>10. CASE path[n] # target
  <2> DEFINE s == [i \in 1..c |-> Append(path, next[i])]
  <2>1. Longer(g, target, path) = s
    BY <1>5, <1>7, <1>10
  <2>2. \A i \in 1..c : Append(path, next[i]) \in W
    BY <1>5, <1>8
  <2>3. s \in [1..c -> W]
    BY <2>2
  <2> HIDE DEF s
  <2>4. s \in Seq(W)
    BY <1>5, <2>3, SeqDef
  <2> QED
    BY <2>1, <2>4 DEF Walks, W
<1> QED
  BY <1>9, <1>10

\* One edge more for all of them.
AllLonger(g, target, before) ==
    FlattenSeq([i \in DOMAIN before |-> Longer(g, target, before[i])])
OnePath(source) == <<<<source>>>>
PathsBegun(g, source, target, n) ==
    LET begun[k \in 0..n] ==
            IF k = 0 THEN <<<<source>>>>
            ELSE LET before == begun[k - 1]
                 IN FlattenSeq([i \in DOMAIN before |-> Longer(g, target, before[i])])
    IN begun[n]

LEMMA FirstPath ==
    ASSUME NEW g, NEW source, Graphs(g, source)
    PROVE  OnePath(source) \in Walks(g, source, 0)
<1> DEFINE path == <<source>>
<1>0. source \in Nat
  <2>1. g.nodes \in Seq(Nat) /\ source \in ToSet(g.nodes)
    BY DEF Graphs
  <2> QED
    BY <2>1, LenProperties, ElementOfSeq DEF ToSet
<1>1. /\ path \in Seq(Nat) /\ Len(path) = 1 /\ ToSet(path) = {source} /\ IsInjective(path)
      /\ path[1] = source
  BY <1>0 DEF ToSet, IsInjective
<1>2. source \in ToSet(g.nodes)
  BY DEF Graphs
<1>3. PICK x : x = path
  OBVIOUS
<1> HIDE DEF path
<1>4. x \in Walk(g, source, 0)
  <2>1. /\ x \in Seq(Nat) /\ Len(x) = 1 /\ ToSet(x) = {source} /\ IsInjective(x) /\ x[1] = source
    BY <1>1, <1>3
  <2>2. 1..(Len(x) - 1) = {} /\ Len(x) \in 1..(0 + 1)
    BY <2>1
  <2>3. ToSet(x) \subseteq ToSet(g.nodes)
    BY <1>2, <2>1
  <2> QED
    BY <2>1, <2>2, <2>3 DEF Walk
<1>5. <<x>> \in Seq(Walk(g, source, 0))
  BY <1>4
<1> QED
  BY <1>3, <1>5 DEF OnePath, Walks, path

LEMMA AllLongerAre ==
    ASSUME NEW g, NEW source, Graphs(g, source), NEW target, NEW m \in Nat \ {0},
           NEW before \in Walks(g, source, m - 1)
    PROVE  AllLonger(g, target, before) \in Walks(g, source, m)
<1> DEFINE W == Walk(g, source, m)
           V == Walk(g, source, m - 1)
           c == Len(before)
           ss == [i \in 1..c |-> Longer(g, target, before[i])]
<1>1. before \in Seq(V)
  BY DEF Walks
<1>2. \A path \in V : Longer(g, target, path) \in Seq(W)
  BY LongerAre DEF Walks
<1> HIDE DEF V, W
<1>3. c \in Nat /\ DOMAIN before = 1..c /\ \A i \in 1..c : before[i] \in V
  BY <1>1, LenProperties, ElementOfSeq
<1>4. ss \in [1..c -> Seq(W)]
  BY <1>2, <1>3
<1>5. AllLonger(g, target, before) = FlattenSeq(ss)
  BY <1>3 DEF AllLonger
<1> HIDE DEF ss
<1>6. ss \in Seq(Seq(W))
  BY <1>3, <1>4, SeqDef
<1> QED
  BY <1>5, <1>6, FlattenedIs DEF Walks, W

LEMMA WalksAreSeqs ==
    ASSUME NEW g, NEW source, NEW m \in Nat
    PROVE  Walks(g, source, m) \in SUBSET Seq(Seq(Nat))
<1>1. Walk(g, source, m) \subseteq Seq(Nat)
  BY DEF Walk
<1>2. ASSUME NEW w \in Seq(Walk(g, source, m))
      PROVE  w \in Seq(Seq(Nat))
  BY <1>1, <1>2, SeqMonotonic
<1> QED
  BY <1>2 DEF Walks

LEMMA PathsReached ==
    ASSUME NEW g, NEW source, Graphs(g, source), NEW target, NEW m \in Nat
    PROVE  PathsBegun(g, source, target, m) \in Walks(g, source, m)
<1> DEFINE n == m
           D == Seq(Seq(Nat))
           start == OnePath(source)
           I == [k \in 0..n |-> Walks(g, source, k)]
           F == [q \in D \X (1..n) |-> AllLonger(g, target, q[1])]
           states(f) == [k \in 0..n |-> IF k = 0 THEN start ELSE AllLonger(g, target, f[k - 1])]
           run == CHOOSE f : f = states(f)
<1>0. n \in Nat
  OBVIOUS
<1>1. \A k \in Nat : Walks(g, source, k) \in SUBSET D
  BY WalksAreSeqs
<1>2. I \in [0..n -> SUBSET D] /\ \A k \in 0..n : I[k] = Walks(g, source, k)
  BY <1>1
<1>3. start \in Walks(g, source, 0)
  BY FirstPath
<1>4. ASSUME NEW k \in 1..n, NEW x \in Walks(g, source, k - 1)
      PROVE  x \in D /\ AllLonger(g, target, x) \in Walks(g, source, k)
  <2>1. k - 1 \in Nat /\ (k - 1) + 1 = k
    BY <1>0
  <2>2. AllLonger(g, target, x) \in Walks(g, source, k)
    <3>1. k \in Nat \ {0}
      BY <1>0
    <3> QED
      BY <3>1, AllLongerAre
  <2> QED
    BY <1>1, <2>1, <2>2
<1>5. \A k \in 1..n : \A x \in Walks(g, source, k - 1) : F[<<x, k>>] = AllLonger(g, target, x)
  BY <1>4
<1> HIDE DEF D, F, start
<1>6. PICK f : /\ f \in [0..n -> D] /\ f[0] = start
               /\ \A k \in 1..n : f[k - 1] \in Walks(g, source, k - 1) /\ f[k] = F[<<f[k - 1], k>>]
  <2>1. \A k \in 1..n : I[k] = Walks(g, source, k) /\ I[k - 1] = Walks(g, source, k - 1) /\ k - 1 \in 0..n
    BY <1>0, <1>2
  <2>2. I[0] = Walks(g, source, 0)
    BY <1>0, <1>2
  <2> HIDE DEF I
  <2>3. Leads(n, D, I, start, F)
    <3>1. \A k \in 1..n : \A x \in I[k - 1] : F[<<x, k>>] \in I[k]
      <4> SUFFICES ASSUME NEW k \in 1..n, NEW x \in I[k - 1] PROVE F[<<x, k>>] \in I[k]
        OBVIOUS
      <4>1. x \in Walks(g, source, k - 1)
        BY <2>1
      <4>2. AllLonger(g, target, x) \in Walks(g, source, k)
        BY <1>4, <4>1
      <4>3. F[<<x, k>>] = AllLonger(g, target, x)
        BY <1>5, <4>1
      <4> QED
        BY <2>1, <4>2, <4>3
    <3> QED
      BY <1>0, <1>2, <1>3, <2>2, <3>1 DEF Leads
  <2>4. PICK f : Follows(f, n, D, I, start, F)
    BY <2>3, Repetition
  <2> QED
    BY <2>1, <2>4 DEF Follows
<1>7. f = states(f)
  <2>1. \A k \in 1..n : f[k] = AllLonger(g, target, f[k - 1])
    BY <1>5, <1>6
  <2> QED
    BY <1>6, <2>1
<1>8. run = states(run)
  <2> HIDE DEF states
  <2> QED
    BY <1>7
<1>9. run[n] \in Walks(g, source, n)
  <2> HIDE DEF run
  <2> DEFINE S == {k \in 0..n : run[k] \in Walks(g, source, k)}
  <2>1. run[0] = start /\ \A k \in 1..n : run[k] = AllLonger(g, target, run[k - 1])
    BY <1>0, <1>8
  <2>2. 0 \in S
    BY <1>0, <1>3, <2>1
  <2>3. \A k \in 1..n : k - 1 \in S => k \in S
    BY <1>0, <1>4, <2>1
  <2> HIDE DEF S
  <2>4. 0..n \subseteq S
    BY <1>0, <2>2, <2>3, Upwards
  <2>5. n \in S
    BY <1>0, <2>4
  <2> QED
    BY <2>5 DEF S
<1>10. PathsBegun(g, source, target, m) = run[n]
  BY DEF PathsBegun, AllLonger, OnePath, start
<1> QED
  BY <1>9, <1>10

\* The paths found are paths of the graph.
LEMMA CallPathsAccepted ==
    ASSUME NEW p \in Programs, NEW r \in CallPathsParams, NEW time \in Nat
    PROVE  AcceptsCallPaths(r, CallPaths(p, r, time))
<1> DEFINE v == CallPaths(p, r, time)
           g == Explore(p, r, "callees", r.source, time)
           found == Paths(g, r.source, r.target, r.max_depth)
           left == IF g.reason = "time_limit" THEN 0 ELSE Max({0, time - Len(g.nodes)})
           reason == IF g.reason # "none" THEN g.reason
                     ELSE IF left <= Min({Len(found), r.max_paths}) THEN "time_limit"
                     ELSE IF Len(found) > r.max_paths THEN "path_limit" ELSE "none"
           shown == Min({r.max_paths, left})
           rows == Take(found, 0, shown)
           W == {path \in Walk(g, r.source, r.max_depth) : path[Len(path)] = r.target}
<1>1. r.source \in Nat
  <2>1. r.source \in Offset
    BY DEF CallPathsParams
  <2> QED
    BY <2>1, OffsetIs
<1>2. GraphLimits(r)
  <2>1. r.max_edges \in Limit(2048)
    BY DEF CallPathsParams
  <2>2. r.max_edges \in Nat \ {0}
    BY <2>1, LimitsArePositive
  <2>3. r.max_depth \in 1..16 /\ r.max_nodes \in 1..256
    BY DEF CallPathsParams
  <2>4. r.max_depth \in Nat \ {0} /\ r.max_nodes \in Nat \ {0}
    BY <2>3
  <2> QED
    BY <2>2, <2>4 DEF GraphLimits
<1>3. /\ g.nodes \in Seq(Nat) /\ Found(r, r.source, g.nodes, g.depth, g.edges)
      /\ g.reason \in {"none", "edge_limit", "node_limit", "time_limit"}
  BY <1>1, <1>2, Explored
<1>4. /\ v.source = r.source /\ v.target = r.target /\ v.target_function = r.target
      /\ v.root = r.source /\ v.direction = "callees"
      /\ v.nodes = g.nodes /\ v.depth = g.depth /\ v.edges = g.edges
      /\ v.frontier = g.frontier /\ v.rows = rows /\ v.status = Status(reason)
  BY DEF CallPaths
<1> HIDE DEF v
<1>5. AcceptsGraph(r, "callees", v)
  <2>1. reason \in {"none", "edge_limit", "node_limit", "time_limit", "path_limit"}
    BY <1>3
  <2> HIDE DEF reason
  <2> QED
    BY <1>1, <1>2, <1>4, <2>1, GraphAccepted
<1>6. Graphs(g, r.source)
  BY <1>3 DEF Graphs, Found
<1>7. r.max_depth \in Nat /\ r.max_paths \in Nat
  <2>1. r.max_depth \in 1..16 /\ r.max_paths \in 1..64
    BY DEF CallPathsParams
  <2> QED
    BY <2>1
<1>a. shown \in Nat /\ shown <= r.max_paths
  <2>1. Len(g.nodes) \in Nat
    BY <1>3, LenProperties
  <2> HIDE DEF g
  <2>2. left \in Nat
    BY <2>1, MaxOfTwo
  <2> HIDE DEF left
  <2> QED
    BY <1>7, <2>2, MinOfTwo
<1> HIDE DEF shown
<1>8. found \in Seq(W)
  <2> DEFINE all == PathsBegun(g, r.source, r.target, r.max_depth)
             I == {i \in DOMAIN all : all[i][Len(all[i])] = r.target}
             at == Ascending(I)
             c == Cardinality(I)
  <2>1. all \in Seq(Walk(g, r.source, r.max_depth))
    BY <1>6, <1>7, PathsReached DEF Walks
  <2>2. found = [k \in DOMAIN at |-> all[at[k]]]
    BY DEF Paths, PathsBegun, Chosen
  <2> HIDE DEF all, found
  <2>3. /\ Len(all) \in Nat /\ DOMAIN all = 1..Len(all)
        /\ \A i \in 1..Len(all) : all[i] \in Walk(g, r.source, r.max_depth)
    BY <2>1, LenProperties, ElementOfSeq
  <2>4. \A i \in I : all[i] \in W
    BY <2>3
  <2>5. I \subseteq 1..Len(all) /\ I \in SUBSET Int /\ IsFiniteSet(1..Len(all))
    BY <2>3, FS_Interval
  <2>6. IsFiniteSet(I)
    BY <2>5, FS_Subset
  <2> HIDE DEF I
  <2>7. at \in [1..c -> I] /\ c \in Nat
    BY <2>5, <2>6, AscendingLists
  <2> HIDE DEF at, c, W
  <2>8. found \in [1..c -> W]
    BY <2>2, <2>4, <2>7
  <2> QED
    BY <2>7, <2>8, SeqDef
<1> HIDE DEF found
<1>9. rows \in Seq(W) /\ Len(rows) <= r.max_paths /\ DOMAIN rows = 1..Len(rows)
  <2> HIDE DEF W
  <2>1. rows \in Seq(W)
    BY <1>8, <1>a, TakeFirst
  <2>2. Len(rows) <= r.max_paths
    <3>1. Len(rows) = IF shown <= Len(found) THEN shown ELSE Len(found)
      BY <1>8, <1>a, TakeFirst
    <3>2. Len(found) \in Nat
      BY <1>8, LenProperties
    <3> QED
      BY <1>7, <1>a, <3>1, <3>2
  <2> QED
    BY <2>1, <2>2, LenProperties
<1> HIDE DEF rows
<1>10. ASSUME NEW i \in DOMAIN rows
       PROVE  AcceptsPath(r, v, rows[i])
  <2>1. PICK path : path = rows[i] /\ path \in W
    <3> HIDE DEF W
    <3> QED
      BY <1>9, ElementOfSeq
  <2>2. path \in Walk(g, r.source, r.max_depth) /\ path[Len(path)] = r.target
    BY <2>1
  <2>3. AcceptsPath(r, v, path)
    <3> HIDE DEF g
    <3> QED
      BY <1>4, <2>2 DEF AcceptsPath, Walk
  <2> QED
    BY <2>1, <2>3
<1> QED
  BY <1>4, <1>5, <1>9, <1>10 DEF AcceptsCallPaths, v

-----------------------------------------------------------------------------
(* All operations.                                                          *)

\* One register by its name: a list of one row.
LEMMA RegisterAccepted ==
    ASSUME NEW p \in Programs, NEW r \in ProcessorContextParams, r.register # 0
    PROVE  /\ Native(r.register) = r.register => AcceptsContext(r, Context(p, r))
           /\ ~ Context(p, r).has_more
<1> DEFINE v == Context(p, r)
           name == Native(r.register)
           names == <<name>>
           rows == Take(names, r.offset, r.limit)
<1>1. r.offset \in Nat /\ r.limit \in Nat \ {0}
  <2>1. r.offset \in 0..LastRegister /\ r.limit \in Limit(256)
    BY DEF ProcessorContextParams
  <2>2. LastRegister \in Nat
    BY CoreAssumption, LastPagesAreNumbers
  <2> QED
    BY <2>1, <2>2, LimitsArePositive
<1>2. v = [address |-> r.address, offset |-> r.offset, rows |-> rows, total |-> 1,
           has_more |-> r.offset + Len(rows) < 1]
  <2>1. Len(names) = 1
    OBVIOUS
  <2> QED
    BY <2>1 DEF Context
<1> HIDE DEF v, name
<1>3. rows = IF r.offset = 0 THEN <<name>> ELSE <<>>
  <2>1. Len(names) = 1 /\ names \in Seq({name}) /\ names[1] = name
    OBVIOUS
  <2>2. rows = SubSeq(names, r.offset + 1, Min({r.offset + r.limit, 1}))
    BY <2>1 DEF Take
  <2>3. Min({r.offset + r.limit, 1}) = 1
    <3>1. PICK m \in Int : m = r.offset + r.limit
      BY <1>1
    <3>2. m >= 1
      BY <1>1, <3>1
    <3>3. Min({m, 1}) = IF m <= 1 THEN m ELSE 1
      BY MinOfTwo
    <3> QED
      BY <3>1, <3>2, <3>3
  <2>4. rows = SubSeq(names, r.offset + 1, 1)
    BY <2>2, <2>3
  <2> HIDE DEF rows, names
  <2>5. CASE r.offset = 0
    <3>1. rows = SubSeq(names, 1, 1)
      BY <2>4, <2>5
    <3>2. SubSeq(names, 1, 1) = [i \in 1..1 |-> names[i]]
      BY <2>1
    <3>3. [i \in 1..1 |-> names[i]] = <<name>>
      <4>1. 1..1 = {1}
        OBVIOUS
      <4>2. [i \in {1} |-> names[i]] = [i \in {1} |-> name]
        BY <2>1
      <4>3. [i \in 1..1 |-> name] = <<name>>
        OBVIOUS
      <4> QED
        BY <4>1, <4>2, <4>3
    <3> QED
      BY <2>5, <3>1, <3>2, <3>3
  <2>6. CASE r.offset # 0
    <3>1. r.offset + 1 > 1 /\ r.offset + 1 \in Int
      BY <1>1, <2>6
    <3>2. rows = <<>>
      BY <2>1, <2>4, <3>1
    <3> QED
      BY <2>6, <3>2
  <2> QED
    BY <2>5, <2>6
<1> HIDE DEF rows
<1>4. /\ Len(rows) = IF r.offset = 0 THEN 1 ELSE 0
      /\ \A i \in DOMAIN rows : rows[i] = name
  BY <1>3
<1>5. Len(rows) = Max({0, Min({r.limit, 1 - r.offset})})
  <2>1. PICK a \in Int : a = 1 - r.offset
    BY <1>1
  <2>2. Min({r.limit, a}) = IF r.limit <= a THEN r.limit ELSE a
    BY <1>1, MinOfTwo
  <2>3. PICK b \in Int : b = Min({r.limit, a})
    BY <1>1, <2>1, <2>2
  <2>4. Max({0, b}) = IF 0 >= b THEN 0 ELSE b
    BY MaxOfTwo
  <2>5. Len(rows) = Max({0, b})
    BY <1>1, <1>4, <2>1, <2>2, <2>3, <2>4
  <2> QED
    BY <2>1, <2>3, <2>5
<1>6. ~ v.has_more
  <2>1. ~ (r.offset + Len(rows) < 1)
    BY <1>1, <1>4
  <2>2. v.has_more = (r.offset + Len(rows) < 1)
    BY <1>2
  <2> QED
    BY <2>1, <2>2
<1>7. ASSUME name = r.register
      PROVE  AcceptsContext(r, v)
  BY <1>2, <1>4, <1>5, <1>7 DEF AcceptsContext
<1> QED
  BY <1>6, <1>7 DEF v, name

\* Where the check and the handler are known to agree: no code unit ends at the last
\* address there is, and a register is named as the processor spells it.
Agreed(r) ==
    /\ op = "preview_instructions" => NoneAtTheEnd
    /\ op = "get_processor_context" => Native(r.register) = r.register

LEMMA OwnAnswerAccepted ==
    ASSUME op \in Operations, NEW p \in Programs, NEW r, Valid(r), NEW time \in Nat,
           Answers(p, r), Agreed(r)
    PROVE  Accepts(r, Answer(p, r, time))
<1> DEFINE v == Answer(p, r, time)
<1>1. CASE Counting(r)
  BY <1>1, PageAnswers DEF PageGiven
<1>2. CASE op \in Scans
  BY <1>2, ScansGive
<1>3. CASE op \in Repeated
  BY <1>3, RepeatedIsAccepted
<1>4. CASE op = "get_processor_context" /\ r.register # 0
  <2>1. r \in ProcessorContextParams /\ v = Context(p, r) /\ Accepts(r, v) = AcceptsContext(r, v)
    BY <1>4 DEF Valid, Answer, Accepts, Searches
  <2>2. Native(r.register) = r.register
    BY <1>4 DEF Agreed
  <2> QED
    BY <1>4, <2>1, <2>2, RegisterAccepted
<1>5. CASE op = "disassemble"
  <2>1. r \in DisassembleParams /\ v = Disassembly(p, r) /\ Accepts(r, v) = AcceptsDisassembly(r, v)
    BY <1>5 DEF Valid, Answer, Accepts, Searches
  <2> HIDE DEF v
  <2> QED
    BY <2>1, DisassemblyAccepted DEF v
<1>6. CASE op = "get_references"
  <2>1. r \in ReferencesParams /\ v = References(p, r) /\ Accepts(r, v) = AcceptsReferences(r, v)
    BY <1>6 DEF Valid, Answer, Accepts, Searches
  <2> HIDE DEF v
  <2> QED
    BY <2>1, ReferencesAccepted DEF v
<1>7. CASE op = "search_bytes"
  <2>1. r \in SearchBytesParams /\ v = Matches(p, r) /\ Accepts(r, v) = AcceptsMatches(r, v)
    BY <1>7 DEF Valid, Answer, Accepts, Searches
  <2> HIDE DEF v
  <2> QED
    BY <2>1, MatchesAccepted DEF v
<1>8. CASE op = "get_pcode"
  <2>1. r \in DisassembleParams /\ v = Pcode(p, r) /\ Accepts(r, v) = AcceptsPcode(r, v)
    BY <1>8 DEF Valid, Answer, Accepts, Searches
  <2>2. Starts(p, r.address) /\ p.units[UnitAt(p, r.address)].kind = "instruction"
    BY <1>8 DEF Answers
  <2> HIDE DEF v
  <2> QED
    BY <2>1, <2>2, PcodeAccepted DEF v
<1>9. CASE op = "preview_instructions"
  <2>1. r \in DisassembleParams /\ v = Preview(p, r) /\ Accepts(r, v) = AcceptsPreview(r, v)
    BY <1>9 DEF Valid, Answer, Accepts, Searches
  <2>2. NoneAtTheEnd
    BY <1>9 DEF Agreed
  <2> HIDE DEF v
  <2> QED
    BY <2>1, <2>2, PreviewAccepted DEF v
<1>10. CASE op = "compare_program_memory"
  <2>1. r \in CompareProgramMemoryParams /\ v = Differences(p, r) /\ Accepts(r, v) = AcceptsDifferences(r, v)
    BY <1>10 DEF Valid, Answer, Accepts, Searches
  <2> HIDE DEF v
  <2> QED
    BY <2>1, DifferencesAccepted DEF v
<1>11. CASE op = "get_function_details"
  <2>1. r \in FunctionDetailsParams /\ v = FunctionDetails(p, r, time) /\ Accepts(r, v) = AcceptsDetails(r, v)
    BY <1>11 DEF Valid, Answer, Accepts, Searches
  <2> HIDE DEF v
  <2> QED
    BY <2>1, DetailsAccepted DEF v
<1>12. CASE op = "get_control_flow"
  <2>1. r \in ControlFlowParams /\ v = ControlFlow(p, r, time) /\ Accepts(r, v) = AcceptsControlFlow(r, v)
    BY <1>12 DEF Valid, Answer, Accepts, Searches
  <2> HIDE DEF v
  <2> QED
    BY <2>1, ControlFlowAccepted DEF v
<1>13. CASE op = "get_call_graph"
  <2>1. r \in CallGraphParams /\ v = CallGraph(p, r, time) /\ Accepts(r, v) = AcceptsCallGraph(r, v)
    BY <1>13 DEF Valid, Answer, Accepts, Searches
  <2> HIDE DEF v
  <2> QED
    BY <2>1, CallGraphAccepted DEF v
<1>14. CASE op = "find_call_paths"
  <2>1. r \in CallPathsParams /\ v = CallPaths(p, r, time) /\ Accepts(r, v) = AcceptsCallPaths(r, v)
    BY <1>14 DEF Valid, Answer, Accepts, Searches
  <2> HIDE DEF v
  <2> QED
    BY <2>1, CallPathsAccepted DEF v
<1>15. CASE op = "trace_data_flow"
  <2>1. r \in TraceDataFlowParams /\ v = Trace(p, r) /\ Accepts(r, v) = AcceptsTrace(r, v)
    BY <1>15 DEF Valid, Answer, Accepts, Searches
  <2>2. TraceAnswers(p, r)
    BY <1>15 DEF Answers
  <2> HIDE DEF v
  <2> QED
    BY <2>1, <2>2, TraceAccepted DEF v
<1>16. CASE op = "batch_references"
  <2>1. r \in BatchReferencesParams /\ v = BatchReferences(p, r) /\ Accepts(r, v) = AcceptsBatchReferences(r, v)
    BY <1>16 DEF Valid, Answer, Accepts, Searches
  <2> HIDE DEF v
  <2> QED
    BY <2>1, BatchReferencesAccepted DEF v
<1>17. CASE op = "compare_functions"
  <2>1. r \in CompareFunctionsParams /\ v = CompareFunctions(p, r) /\ Accepts(r, v) = AcceptsComparison(r, v)
    BY <1>17 DEF Valid, Answer, Accepts, Searches
  <2>2. r.max_instructions \in Nat \ {0}
    <3>1. r.max_instructions \in Limit(4096)
      BY <2>1 DEF CompareFunctionsParams
    <3> QED
      BY <3>1, LimitsArePositive
  <2>3. \A at \in {r.address, r.other_address} :
            at \in Offset /\ Starts(p, at) /\ p.units[UnitAt(p, at)].ops > 0
    <3>1. r.address \in Offset /\ r.other_address \in Offset
      BY <2>1 DEF CompareFunctionsParams
    <3>2. \A at \in {r.address, r.other_address} :
            Starts(p, at) /\ p.units[UnitAt(p, at)].ops > 0
      BY <1>17 DEF Answers
    <3> QED
      BY <3>1, <3>2
  <2> HIDE DEF v
  <2> QED
    BY <2>1, <2>2, <2>3, ComparisonAccepted DEF v
<1>18. CASE op = "compare_saved_function"
  <2>1. r \in CompareSavedFunctionParams /\ v = CompareSavedFunction(p, r) /\ Accepts(r, v) = AcceptsSavedComparison(r, v)
    BY <1>18 DEF Valid, Answer, Accepts, Searches
  <2>2. r.max_instructions \in Nat \ {0}
    <3>1. r.max_instructions \in Limit(4096)
      BY <2>1 DEF CompareSavedFunctionParams
    <3> QED
      BY <3>1, LimitsArePositive
  <2>3. \A at \in {r.address, r.other_address} :
            at \in Offset /\ Starts(p, at) /\ p.units[UnitAt(p, at)].ops > 0
    <3>1. r.address \in Offset /\ r.other_address \in Offset
      BY <2>1 DEF CompareSavedFunctionParams
    <3>2. \A at \in {r.address, r.other_address} :
            Starts(p, at) /\ p.units[UnitAt(p, at)].ops > 0
      BY <1>18 DEF Answers
    <3> QED
      BY <3>1, <3>2
  <2> HIDE DEF v
  <2> QED
    BY <2>1, <2>2, <2>3, ComparisonAccepted DEF v
<1>19. CASE op = "get_function_fingerprint"
  <2>1. r \in FunctionFingerprintParams /\ v = FunctionFingerprint(p, r) /\ Accepts(r, v) = AcceptsFunctionFingerprint(r, v)
    BY <1>19 DEF Valid, Answer, Accepts, Searches
  <2>2. Starts(p, r.address) /\ p.units[UnitAt(p, r.address)].ops > 0
    BY <1>19 DEF Answers
  <2> HIDE DEF v
  <2> QED
    BY <2>1, <2>2, FunctionFingerprintAccepted DEF v
<1>20. CASE op = "emulate_function"
  <2>1. r \in EmulateFunctionParams /\ v = Emulate(p, r, time) /\ Accepts(r, v) = AcceptsEmulation(r, v)
    BY <1>20 DEF Valid, Answer, Accepts, Searches
  <2> HIDE DEF v
  <2> QED
    BY <2>1, EmulationAccepted DEF v
<1>21. CASE op = "get_structure_field_references"
  <2>1. StructureFieldReferencesParams(r) /\ v = FieldReferences(p, r) /\ Accepts(r, v) = AcceptsFieldReferences(r, v)
    BY <1>21 DEF Valid, Answer, Accepts, Searches
  <2> HIDE DEF v
  <2> QED
    BY <2>1, FieldReferencesAccepted DEF v
<1> QED
  BY <1>1, <1>2, <1>3, <1>4, <1>5, <1>6, <1>7, <1>8, <1>9, <1>10, <1>11, <1>12, <1>13, <1>14, <1>15, <1>16, <1>17, <1>18, <1>19, <1>20, <1>21
    DEF Operations, Scans, Searches, Repeated, Counting, Counted, Pages

\* What an answer names to go on with is let through; pages are counted elsewhere.
LEMMA GoesOnValid ==
    ASSUME op \in Operations, NEW p \in Programs, NEW r, Valid(r), ~ Counting(r),
           NEW time \in Nat, Answers(p, r)
    PROVE  /\ \A next \in GoOn(r, Answer(p, r, time)) : Valid(next)
           /\ op = "get_processor_context" => GoOn(r, Answer(p, r, time)) = {}
<1> DEFINE v == Answer(p, r, time)
<1>1. CASE op \in Scans
  BY <1>1, ScansGive DEF Scans, Searches
<1>2. CASE op = "get_processor_context"
  <2>1. r \in ProcessorContextParams /\ v = Context(p, r) /\ r.register # 0
    BY <1>2 DEF Valid, Answer, Searches, Counting, Counted, Pages
  <2>2. ~ v.has_more
    BY <2>1, RegisterAccepted
  <2> HIDE DEF v
  <2>3. GoOn(r, v) = {}
    BY <1>2, <2>2 DEF GoOn, Pages, Searches, Windows
  <2> QED
    BY <2>3 DEF v
<1>3. CASE op = "preview_instructions"
  <2>1. r \in DisassembleParams /\ v = Preview(p, r) /\ \A q : Valid(q) = (q \in DisassembleParams)
    BY <1>3 DEF Valid, Answer, Searches
  <2>2. v.stop_reason = "count_limit" => [r EXCEPT !.address = v.next_address] \in DisassembleParams
    BY <2>1, PreviewAccepted
  <2> HIDE DEF v
  <2>3. GoOn(r, v) = IF v.stop_reason = "count_limit" THEN {[r EXCEPT !.address = v.next_address]} ELSE {}
    BY <1>3 DEF GoOn, Pages, Searches, Windows
  <2> QED
    BY <1>3, <2>1, <2>2, <2>3 DEF v
<1>4. CASE op = "get_pcode"
  <2>1. /\ r \in DisassembleParams /\ v = Pcode(p, r) /\ \A q : Valid(q) = (q \in DisassembleParams)
        /\ Starts(p, r.address) /\ p.units[UnitAt(p, r.address)].kind = "instruction"
    BY <1>4 DEF Valid, Answer, Answers, Searches
  <2> DEFINE next == [r EXCEPT !.address = v.rows[Len(v.rows)].at + v.rows[Len(v.rows)].len]
  <2>2. v.truncation_reason # "none" /\ v.rows # <<>> => next \in DisassembleParams
    BY <2>1, PcodeAccepted
  <2> HIDE DEF v
  <2>3. GoOn(r, v) = IF v.truncation_reason # "none" /\ v.rows # <<>> THEN {next} ELSE {}
    BY <1>4 DEF GoOn, Pages, Searches, Windows
  <2> QED
    BY <1>4, <2>1, <2>2, <2>3 DEF v
<1>5. CASE op \notin Scans \cup Counted \cup {"preview_instructions", "get_pcode"}
  <2> HIDE DEF v
  <2>1. GoOn(r, v) = {}
    BY <1>5 DEF GoOn, Pages, Searches, Windows, Scans, Counted
  <2> QED
    BY <1>5, <2>1 DEF v, Counted, Pages
<1> QED
  BY <1>1, <1>2, <1>3, <1>4, <1>5 DEF Counting, Counted

-----------------------------------------------------------------------------
(* What every operation keeps.                                              *)

AskInv ==
    /\ op \in Operations
    /\ phase = "doubt" /\ honest => ~ Agreed(request)
    /\ ~ Counting(first) =>
        /\ phase = "asking" => request = first \/ Valid(request)
        /\ phase = "refused" => request = first
        /\ op = "get_processor_context" => request = first

LEMMA SameAgreed ==
    ASSUME UNCHANGED <<op, first>>
    PROVE  /\ \A r : Agreed(r)' <=> Agreed(r)
           /\ \A r : Valid(r)' <=> Valid(r)
           /\ Counting(first)' <=> Counting(first)
<1>1. \A r : Agreed(r)' <=> Agreed(r)
  BY DEF Agreed, NoneAtTheEnd
<1>2. \A r : Valid(r)' <=> Valid(r)
  BY DEF Valid
<1>3. Counting(first)' <=> Counting(first)
  BY DEF Counting, Counted, Pages
<1> QED
  BY <1>1, <1>2, <1>3

LEMMA AskInvHolds == Spec => []AskInv
<1>1. Init => AskInv
  BY QueriesAssumption DEF Init, AskInv, Ops
<1>2. ReplyInv /\ AskInv /\ [Next]_vars => AskInv'
  <2> SUFFICES ASSUME ReplyInv, AskInv, [Next]_vars PROVE AskInv'
    OBVIOUS
  <2>0. UNCHANGED <<op, first>>
    BY DEF Next, vars, Refuse, Send, Edit, Decline, Reply, Misroute, Accept, Reject
  <2>1. /\ op \in Operations /\ program \in Programs
        /\ phase = "doubt" /\ honest => ~ Agreed(request)
        /\ ~ Counting(first) =>
            /\ phase = "asking" => request = first \/ Valid(request)
            /\ phase = "refused" => request = first
            /\ op = "get_processor_context" => request = first
    BY DEF AskInv, ReplyInv
  <2>2. ASSUME phase' = "doubt" /\ honest' => ~ Agreed(request'),
               ~ Counting(first) =>
                    /\ phase' = "asking" => request' = first \/ Valid(request')
                    /\ phase' = "refused" => request' = first
                    /\ op = "get_processor_context" => request' = first
        PROVE  AskInv'
    <3>1. /\ op' \in Operations /\ op' = op /\ first' = first
          /\ Counting(first)' <=> Counting(first)
      BY <2>0, <2>1, SameAgreed
    <3>2. (phase = "doubt" /\ honest => ~ Agreed(request))'
      BY <2>0, <2>2 DEF Agreed, NoneAtTheEnd
    <3>3. Valid(request') => Valid(request)'
      BY <2>0 DEF Valid
    <3> QED
      BY <2>2, <3>1, <3>2, <3>3 DEF AskInv
  <2>3. CASE Refuse
    BY <2>1, <2>2, <2>3 DEF Refuse
  <2>4. CASE Send \/ Decline \/ Reply \/ Misroute
    <3>1. phase' \notin {"doubt", "asking", "refused"} /\ request' = request
      BY <2>4 DEF Send, Decline, Reply, Misroute
    <3> QED
      BY <2>1, <2>2, <3>1
  <2>5. CASE Edit
    <3>1. phase = "asking" /\ phase' = phase /\ request' = request
      BY <2>5 DEF Edit
    <3> QED
      BY <2>1, <2>2, <3>1
  <2>6. CASE Accept
    <3>1. CASE ~ honest
      <4>1. phase' = "misled" /\ request' = request
        BY <2>6, <3>1 DEF Accept
      <4> QED
        BY <2>1, <2>2, <4>1
    <3>2. CASE honest
      <4>1. /\ phase = "answered"
            /\ phase' = IF GoOn(request, reply) # {} THEN "asking" ELSE "done"
            /\ request' = IF GoOn(request, reply) # {}
                          THEN CHOOSE r \in GoOn(request, reply) : TRUE ELSE request
        BY <2>6, <3>2 DEF Accept
      <4>2. Valid(request) /\ Answers(program, request) /\ Given(request, reply)
        BY <3>2, <4>1 DEF ReplyInv
      <4>3. PICK time \in Nat : reply = Answer(program, request, time)
        BY <4>2, QueriesAssumption DEF Given
      <4>4. CASE Counting(first)
        BY <2>2, <4>1, <4>4
      <4>5. CASE ~ Counting(first)
        <5>1. ~ Counting(request)
          <6>1. CASE op = "get_processor_context"
            BY <2>1, <4>5, <6>1
          <6>2. CASE op # "get_processor_context"
            BY <4>5, <6>2 DEF Counting
          <6> QED
            BY <6>1, <6>2
        <5>2. /\ \A next \in GoOn(request, reply) : Valid(next)
              /\ op = "get_processor_context" => GoOn(request, reply) = {}
          BY <2>1, <4>2, <4>3, <5>1, GoesOnValid
        <5>3. CASE GoOn(request, reply) = {}
          <6>1. phase' = "done" /\ request' = request
            BY <4>1, <5>3
          <6> QED
            BY <2>1, <2>2, <6>1
        <5>4. CASE GoOn(request, reply) # {}
          <6>1. request' \in GoOn(request, reply) /\ phase' = "asking"
            BY <4>1, <5>4
          <6>2. Valid(request') /\ op # "get_processor_context"
            BY <5>2, <5>4, <6>1
          <6> QED
            BY <2>2, <6>1, <6>2
        <5> QED
          BY <5>3, <5>4
      <4> QED
        BY <4>4, <4>5
    <3> QED
      BY <3>1, <3>2
  <2>7. CASE Reject
    <3>1. /\ phase = "answered" /\ ~ Accepts(request, reply) /\ phase' = "doubt"
          /\ UNCHANGED <<request, honest>>
      BY <2>7 DEF Reject
    <3>2. honest => ~ Agreed(request)
      <4> SUFFICES ASSUME honest, Agreed(request) PROVE FALSE
        OBVIOUS
      <4>1. Valid(request) /\ Answers(program, request) /\ Given(request, reply)
        BY <3>1 DEF ReplyInv
      <4>2. PICK time \in Nat : reply = Answer(program, request, time)
        BY <4>1, QueriesAssumption DEF Given
      <4> QED
        BY <2>1, <3>1, <4>1, <4>2, OwnAnswerAccepted
    <3> QED
      BY <2>1, <2>2, <3>1, <3>2
  <2>8. CASE UNCHANGED vars
    BY <2>1, <2>2, <2>8 DEF vars
  <2> QED
    BY <2>3, <2>4, <2>5, <2>6, <2>7, <2>8 DEF Next
<1> QED
  BY <1>1, <1>2, ReplyInvHolds, PTL DEF Spec

\* No operation's own answer is a doubt, whatever the program, the limits and the time
\* that was enough: the validate_* functions of backend.rs and backend/*.rs expect what
\* the handlers give.  The two cases excepted are the preview of an instruction that ends
\* at the last address and a register that is not named as the processor spells it.
THEOREM AnswersAreAccepted == Spec => [](Agreed(request) => HonestAccepted)
<1>1. AskInv => (Agreed(request) => HonestAccepted)
  BY DEF AskInv, HonestAccepted
<1> QED
  BY <1>1, AskInvHolds, PTL

\* No client that follows an answer is refused half-way, whatever the operation, unless a
\* list has more rows than validate() lets a client skip.
THEOREM AnswersGoOn == Spec => []((Counting(first) => InReach) => ContinuationsSent)
<1>1. PageInv /\ AskInv => ((Counting(first) => InReach) => ContinuationsSent)
  BY DEF PageInv, AskInv, ContinuationsSent
<1> QED
  BY <1>1, PageInvHolds, AskInvHolds, PTL
=============================================================================

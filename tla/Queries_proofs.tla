--------------------------- MODULE Queries_proofs ---------------------------
(**************************************************************************)
(* Proofs about Queries, for every program, request, limit and time budget. *)
(*                                                                        *)
(* ReplyInv says where an answer comes from: the reply the client holds is *)
(* one of the bridge's to this request, or to another one of the same     *)
(* operation.  PageInv says where a paging client is: it has the list from *)
(* its first offset up to the place it asks for.  Both rest on one fact about *)
(* the handlers, PageAnswers: whatever the operation, a page is the part of *)
(* one list that begins at the offset and has room for the limit.         *)
(*                                                                        *)
(* The second half is about the scans, which go on from an address, a     *)
(* reference or an entry.  A scan's answer is the beginning of a set in   *)
(* order: Ranked lists each member once (RankLists), and what Chosen and Take *)
(* leave of a list is a list again.  For each scan ScanGiven says what the *)
(* bridge owes: the rows in front of the place the answer goes on with, all *)
(* of them and nothing else, or all there are.  From that ScanInv follows a *)
(* client from answer to answer, also across an edit, because what lies   *)
(* behind a place does not depend on what is in front of it.              *)
(**************************************************************************)
EXTENDS Queries, SequenceTheorems, FiniteSetTheorems, WellFoundedInduction, TLAPS

-----------------------------------------------------------------------------
(* Parts of a list.                                                         *)

\* Rows of a list of n that a page holds which skips some and has room for limit.
Room(n, skipped, limit) ==
    IF n <= skipped THEN 0 ELSE IF limit <= n - skipped THEN limit ELSE n - skipped
Part(skipped, count) == [i \in 1..count |-> skipped + i]

LEMMA MinOfTwo ==
    ASSUME NEW a \in Int, NEW b \in Int
    PROVE  Min({a, b}) = IF a <= b THEN a ELSE b
  BY DEF Min

LEMMA MaxOfTwo ==
    ASSUME NEW a \in Int, NEW b \in Int
    PROVE  Max({a, b}) = IF a >= b THEN a ELSE b
  BY DEF Max

LEMMA RoomIsCounted ==
    ASSUME NEW n \in Nat, NEW skipped \in Nat, NEW limit \in Nat
    PROVE  /\ Room(n, skipped, limit) \in Nat
           /\ Room(n, skipped, limit) = Min({limit, Max({0, n - skipped})})
           /\ Room(n, skipped, limit) = Max({0, Min({limit, n - skipped})})
           /\ (skipped + Room(n, skipped, limit) < n) = (skipped + limit < n)
           /\ (skipped + Min({limit, n - skipped}) < n) = (skipped + limit < n)
           /\ (Min({n, skipped + limit + 1}) > skipped + limit) = (skipped + limit < n)
<1>1. /\ Max({0, n - skipped}) = IF 0 >= n - skipped THEN 0 ELSE n - skipped
      /\ Min({limit, n - skipped}) = IF limit <= n - skipped THEN limit ELSE n - skipped
      /\ Min({n, skipped + limit + 1}) = IF n <= skipped + limit + 1 THEN n ELSE skipped + limit + 1
  BY MinOfTwo, MaxOfTwo
<1>2. /\ Min({limit, Max({0, n - skipped})}) =
            IF limit <= Max({0, n - skipped}) THEN limit ELSE Max({0, n - skipped})
      /\ Max({0, Min({limit, n - skipped})}) =
            IF 0 >= Min({limit, n - skipped}) THEN 0 ELSE Min({limit, n - skipped})
  BY <1>1, MinOfTwo, MaxOfTwo
<1> QED
  BY <1>1, <1>2 DEF Room

LEMMA PartLength ==
    ASSUME NEW skipped \in Nat, NEW count \in Nat
    PROVE  /\ Len(Part(skipped, count)) = count
           /\ DOMAIN Part(skipped, count) = 1..count
           /\ \A i \in 1..count : Part(skipped, count)[i] = skipped + i
           /\ Part(skipped, count) \in Seq(Nat)
<1>1. Part(skipped, count) \in [1..count -> Nat]
  BY DEF Part
<1> QED
  BY <1>1, SeqDef DEF Part

\* How every native iterator is read gives a part of the list.
LEMMA TakeIsPart ==
    ASSUME NEW n \in Nat, NEW skipped \in Nat, NEW limit \in Nat
    PROVE  Take(Numbers(n), skipped, limit) = Part(skipped, Room(n, skipped, limit))
<1> DEFINE m == Min({skipped + limit, n})
           s == Numbers(n)
           k == Room(n, skipped, limit)
<1>1. s \in Seq(Nat) /\ Len(s) = n /\ \A i \in 1..n : s[i] = i
  BY DEF Numbers
<1>2. m = IF skipped + limit <= n THEN skipped + limit ELSE n
  BY MinOfTwo
<1>3. k \in Nat /\ k = IF skipped + 1 <= m THEN m - (skipped + 1) + 1 ELSE 0
  BY <1>2 DEF Room
<1>4. Take(Numbers(n), skipped, limit) = SubSeq(s, skipped + 1, m)
  BY <1>1 DEF Take
<1> HIDE DEF s, m, k
<1>5. m \in Nat /\ m <= n
  BY <1>2
<1>6. \A i \in (skipped + 1)..m : s[i] \in Nat
  BY <1>1, <1>5
<1>7. /\ SubSeq(s, skipped + 1, m) \in Seq(Nat)
      /\ Len(SubSeq(s, skipped + 1, m)) = k
      /\ \A i \in 1..(m - (skipped + 1) + 1) : SubSeq(s, skipped + 1, m)[i] = s[(skipped + 1) + i - 1]
  BY <1>3, <1>5, <1>6, SubSeqProperties
<1>8. ASSUME NEW i \in 1..k
      PROVE  SubSeq(s, skipped + 1, m)[i] = skipped + i
  BY <1>1, <1>3, <1>5, <1>7
<1> DEFINE t == Part(skipped, k)
           u == SubSeq(s, skipped + 1, m)
<1>p. /\ t \in Seq(Nat) /\ Len(t) = k /\ \A i \in 1..k : t[i] = skipped + i
  BY <1>3, PartLength
<1>9. u \in Seq(Nat) /\ Len(u) = k /\ \A i \in 1..k : u[i] = skipped + i
  BY <1>7, <1>8
<1> HIDE DEF t, u
<1>10. u = t
  BY <1>3, <1>p, <1>9, SeqEqual
<1>11. SubSeq(s, skipped + 1, m) = Part(skipped, k)
  BY <1>10 DEF t, u
<1> QED
  BY <1>4, <1>11 DEF k

\* Two pages that follow each other.
LEMMA PartsJoin ==
    ASSUME NEW skipped \in Nat, NEW m \in Nat, NEW n \in Nat
    PROVE  Part(skipped, m) \o Part(skipped + m, n) = Part(skipped, m + n)
<1> DEFINE s == Part(skipped, m)
           t == Part(skipped + m, n)
           u == Part(skipped, m + n)
<1>0. skipped + m \in Nat /\ m + n \in Nat
  OBVIOUS
<1>1. s \in Seq(Nat) /\ Len(s) = m /\ \A i \in 1..m : s[i] = skipped + i
  BY PartLength
<1>2. t \in Seq(Nat) /\ Len(t) = n /\ \A i \in 1..n : t[i] = skipped + m + i
  BY <1>0, PartLength
<1>u. u \in Seq(Nat) /\ Len(u) = m + n /\ \A i \in 1..(m + n) : u[i] = skipped + i
  BY <1>0, PartLength
<1> HIDE DEF s, t, u
<1>3. /\ s \o t \in Seq(Nat) /\ Len(s \o t) = m + n
      /\ \A i \in 1..(m + n) : (s \o t)[i] = IF i <= m THEN s[i] ELSE t[i - m]
  BY <1>1, <1>2, ConcatProperties
<1>4. ASSUME NEW i \in 1..(m + n)
      PROVE  (s \o t)[i] = u[i]
  <2>1. u[i] = skipped + i /\ (s \o t)[i] = IF i <= m THEN s[i] ELSE t[i - m]
    BY <1>u, <1>3, <1>1
  <2>2. CASE i <= m
    BY <2>1, <2>2, <1>1
  <2>3. CASE ~ i <= m
    <3>1. i - m \in 1..n /\ t[i - m] = skipped + m + (i - m)
      BY <2>3, <1>2
    <3> QED
      BY <3>1, <2>1, <2>3
  <2> QED
    BY <2>2, <2>3
<1>5. s \o t = u
  BY <1>u, <1>3, <1>4, SeqEqual
<1> QED
  BY <1>5 DEF s, t, u

-----------------------------------------------------------------------------
(* An answer that passes for another request is an answer to that one too.   *)

LEMMA LastPagesAreNumbers == LastRow \in Nat /\ LastOperation \in Nat /\ LastRegister \in Nat
  BY SMT DEF LastRow, LastOperation, LastRegister

LEMMA SizesAreNumbers == \A p \in Programs : p.size \in Nat
  BY ProgramsAssumption, Zenon

LEMMA MappedAreUnits ==
    ASSUME NEW p \in Programs, NEW at \in Offset, Mapped(p, at)
    PROVE  /\ UnitAt(p, at) \in DOMAIN p.units
           /\ at \in p.units[UnitAt(p, at)].at..p.units[UnitAt(p, at)].end
<1>1. \E i \in DOMAIN p.units : at \in p.units[i].at..p.units[i].end
  BY ProgramsAssumption, Zenon
<1> QED
  BY <1>1, Zenon DEF UnitAt

LEMMA LimitsAreNumbers == \A max : \A n \in Limit(max) : n \in Nat
  BY DEF Limit

LEMMA BoundBytes ==
    ASSUME NEW p, NEW r \in ReadBytesParams, NEW other \in ReadBytesParams,
           AcceptsBytes(r, Bytes(p, other))
    PROVE  Bytes(p, other) = Bytes(p, r)
<1> DEFINE rows == [i \in 1..other.count |-> other.address + i - 1]
<1>a. r.count \in Nat /\ other.count \in Nat
  BY LimitsAreNumbers DEF ReadBytesParams
<1>1. other.address = r.address /\ Len(rows) = r.count
  BY DEF AcceptsBytes, Bytes
<1>2. Len(rows) = other.count
  BY <1>a
<1>3. other.count = r.count
  BY <1>1, <1>2
<1> QED
  BY <1>1, <1>3 DEF Bytes

LEMMA BoundHash ==
    ASSUME NEW p, NEW r, NEW other, AcceptsHash(r, Hash(p, other))
    PROVE  Hash(p, other) = Hash(p, r)
  BY DEF AcceptsHash, Hash

LEMMA BoundFileOffsets ==
    ASSUME NEW p, NEW r, NEW other, AcceptsFileOffsets(r, FileOffsets(p, other))
    PROVE  FileOffsets(p, other) = FileOffsets(p, r)
<1>1. other.file_offset = r.file_offset
  BY DEF AcceptsFileOffsets, FileOffsets
<1> QED
  BY <1>1 DEF FileOffsets

LEMMA BoundBatchDecompile ==
    ASSUME NEW p, NEW time, NEW r \in BatchDecompileParams,
           NEW other \in BatchDecompileParams,
           AnswersInOrder(r, BatchDecompile(p, other, time))
    PROVE  BatchDecompile(p, other, time) = BatchDecompile(p, r, time)
<1> DEFINE s == r.addresses
           t == other.addresses
           Of(a) == [i \in DOMAIN a |->
                        [address |-> a[i], ok |-> i <= time /\ Decompiles(p, a[i])]]
<1>1. s \in Seq(Offset) /\ t \in Seq(Offset)
  BY DEF BatchDecompileParams, AddressList
<1>2. /\ BatchDecompile(p, r, time) = [rows |-> Of(s), count |-> Len(s)]
      /\ BatchDecompile(p, other, time) = [rows |-> Of(t), count |-> Len(t)]
  BY DEF BatchDecompile
<1>a. DOMAIN Of(t) = DOMAIN t /\ \A i \in DOMAIN t : Of(t)[i].address = t[i]
  OBVIOUS
<1>b. DOMAIN t = 1..Len(t) /\ Len(t) \in Nat
  BY <1>1, LenProperties
<1>c. Len(Of(t)) = Len(t)
  BY <1>a, <1>b
<1>3. Len(Of(t)) = Len(s) /\ \A i \in DOMAIN t : Of(t)[i].address = s[i]
  <2> HIDE DEF Of
  <2> QED
    BY <1>2, <1>a DEF AnswersInOrder
<1>4. Len(s) = Len(t) /\ \A i \in DOMAIN t : t[i] = s[i]
  BY <1>3, <1>a, <1>c
<1> HIDE DEF s, t
<1>5. s = t
  BY <1>1, <1>4, LenProperties, SeqEqual
<1> QED
  BY <1>2, <1>5

\* Two pages of the same list at the same place differ only in their length.
LEMMA PageIsBound ==
    ASSUME NEW n \in Nat, NEW skipped \in Nat, NEW m \in Nat, NEW limit \in Nat,
           Len(Take(Numbers(n), skipped, m)) = Room(n, skipped, limit)
    PROVE  /\ Room(n, skipped, m) = Room(n, skipped, limit)
           /\ Take(Numbers(n), skipped, m) = Take(Numbers(n), skipped, limit)
<1>1. /\ Room(n, skipped, m) \in Nat /\ Room(n, skipped, limit) \in Nat
  BY RoomIsCounted
<1>2. Len(Part(skipped, Room(n, skipped, m))) = Room(n, skipped, m)
  BY <1>1, PartLength
<1>3. Room(n, skipped, m) = Room(n, skipped, limit)
  BY <1>2, TakeIsPart
<1> QED
  BY <1>3, TakeIsPart

LEMMA BoundHighPcode ==
    ASSUME NEW p \in Programs, NEW r \in HighPcodeParams, NEW other \in HighPcodeParams,
           AcceptsHighPcode(r, HighPcode(p, other))
    PROVE  HighPcode(p, other) = HighPcode(p, r)
<1>1. /\ p.size \in Nat /\ r.offset \in Nat /\ r.limit \in Nat /\ other.limit \in Nat
  BY SizesAreNumbers, LastPagesAreNumbers DEF HighPcodeParams, Limit
<1>2. /\ other.address = r.address /\ other.offset = r.offset
      /\ Len(Take(Numbers(p.size), other.offset, other.limit)) =
            Min({r.limit, Max({0, p.size - other.offset})})
  BY DEF AcceptsHighPcode, HighPcode
<1>a. Room(p.size, r.offset, r.limit) = Min({r.limit, Max({0, p.size - r.offset})})
  BY <1>1, RoomIsCounted
<1>b. Len(Take(Numbers(p.size), r.offset, other.limit)) = Room(p.size, r.offset, r.limit)
  BY <1>2, <1>a
<1>3. Take(Numbers(p.size), r.offset, other.limit) = Take(Numbers(p.size), r.offset, r.limit)
  BY <1>1, <1>b, PageIsBound
<1> QED
  BY <1>2, <1>3 DEF HighPcode

LEMMA BoundVariables ==
    ASSUME NEW p \in Programs, NEW r \in FunctionVariablesParams,
           NEW other \in FunctionVariablesParams,
           AcceptsVariables(r, Variables(p, other))
    PROVE  Variables(p, other) = Variables(p, r)
<1>1. /\ p.size \in Nat /\ r.offset \in Nat /\ r.limit \in Nat /\ other.limit \in Nat
  BY SizesAreNumbers, LastPagesAreNumbers DEF FunctionVariablesParams, RowOffset, Limit
<1>2. /\ other.address = r.address /\ other.offset = r.offset
      /\ Len(Take(Numbers(p.size), other.offset, other.limit)) =
            Min({r.limit, Max({0, p.size - other.offset})})
  BY DEF AcceptsVariables, Variables
<1>a. Room(p.size, r.offset, r.limit) = Min({r.limit, Max({0, p.size - r.offset})})
  BY <1>1, RoomIsCounted
<1>b. Len(Take(Numbers(p.size), r.offset, other.limit)) = Room(p.size, r.offset, r.limit)
  BY <1>2, <1>a
<1>3. Take(Numbers(p.size), r.offset, other.limit) = Take(Numbers(p.size), r.offset, r.limit)
  BY <1>1, <1>b, PageIsBound
<1> QED
  BY <1>2, <1>3 DEF Variables

LEMMA BoundData ==
    ASSUME NEW p \in Programs, NEW r \in GetDataParams, NEW other \in GetDataParams,
           AcceptsData(r, Data(p, other))
    PROVE  Data(p, other) = Data(p, r)
<1> DEFINE found == p.units[UnitAt(p, r.address)].kind = "data"
           total == IF found THEN p.size ELSE 0
           skipped == r.component_offset
           m == other.component_limit
           n == r.component_limit
<1>1. /\ total \in Nat /\ skipped \in Nat /\ m \in Nat /\ n \in Nat
  BY SizesAreNumbers, CoreAssumption DEF GetDataParams, Limit
<1>2. other.address = r.address /\ other.component_offset = skipped
  BY DEF AcceptsData, Data
<1>3. Len(Take(Numbers(total), skipped, m)) = Max({0, Min({n, total - skipped})})
  BY <1>2 DEF AcceptsData, Data
<1>4. /\ Room(total, skipped, m) = Room(total, skipped, n)
      /\ Take(Numbers(total), skipped, m) = Take(Numbers(total), skipped, n)
  <2> HIDE DEF total, skipped, m, n
  <2>1. Room(total, skipped, n) = Max({0, Min({n, total - skipped})})
    BY <1>1, RoomIsCounted
  <2>2. Len(Take(Numbers(total), skipped, m)) = Room(total, skipped, n)
    BY <1>3, <2>1
  <2> QED
    BY <1>1, <2>2, PageIsBound
<1>5. (skipped + Min({m, total - skipped}) < total) = (skipped + Min({n, total - skipped}) < total)
  <2> HIDE DEF total, skipped, m, n
  <2>1. /\ (skipped + Min({m, total - skipped}) < total) = (skipped + m < total)
        /\ (skipped + Min({n, total - skipped}) < total) = (skipped + n < total)
    BY <1>1, RoomIsCounted
  <2>2. (skipped + m < total) = (skipped + n < total)
    BY <1>1, <1>4 DEF Room
  <2> QED
    BY <2>1, <2>2
<1> QED
  BY <1>2, <1>4, <1>5 DEF Data
-----------------------------------------------------------------------------
(* The invariant: what the client asks and what it has been answered.       *)

\* What is bound by repeating the request, with no list to count.
Repeated == {"hash_memory", "read_bytes", "map_file_offset", "batch_decompile"}
Given(r, v) == \E time \in 0..Budget : v = Answer(program, r, time)
ReplyInv ==
    /\ program \in Programs
    /\ phase = "sent" => Valid(request)
    /\ phase \in {"answered", "misled"} => Valid(request)
    /\ (phase = "answered" /\ honest) => Answers(program, request) /\ Given(request, reply)
    /\ (phase = "answered" /\ ~ honest) \/ phase = "misled" =>
            \E other \in Requests[op] : Valid(other) /\ Given(other, reply)
    /\ phase = "misled" => Accepts(request, reply)
    /\ phase = "doubt" /\ honest => op \notin Repeated

LEMMA RepeatedIsAccepted ==
    ASSUME op \in Repeated, NEW p, NEW r, Valid(r), NEW time
    PROVE  Accepts(r, Answer(p, r, time))
<1>1. CASE op = "hash_memory"
  BY <1>1 DEF Accepts, Answer, Searches, AcceptsHash, Hash
<1>2. CASE op = "read_bytes"
  <2>1. r.count \in Nat
    BY <1>2, LimitsAreNumbers DEF Valid, ReadBytesParams
  <2>2. Len([i \in 1..r.count |-> r.address + i - 1]) = r.count
    BY <2>1
  <2> QED
    BY <1>2, <2>2 DEF Accepts, Answer, Searches, AcceptsBytes, Bytes
<1>3. CASE op = "map_file_offset"
  BY <1>3 DEF Accepts, Answer, Searches, AcceptsFileOffsets, FileOffsets
<1>4. CASE op = "batch_decompile"
  <2> DEFINE s == r.addresses
             rows == [i \in DOMAIN s |->
                        [address |-> s[i], ok |-> i <= time /\ Decompiles(p, s[i])]]
  <2>1. s \in Seq(Offset)
    BY <1>4 DEF Valid, BatchDecompileParams, AddressList
  <2>2. DOMAIN s = 1..Len(s) /\ Len(s) \in Nat
    BY <2>1, LenProperties
  <2>3. DOMAIN rows = DOMAIN s /\ \A i \in DOMAIN s : rows[i].address = s[i]
    OBVIOUS
  <2>4. Len(rows) = Len(s)
    BY <2>2, <2>3
  <2>5. /\ Answer(p, r, time) = [rows |-> rows, count |-> Len(s)]
        /\ Accepts(r, Answer(p, r, time)) = AnswersInOrder(r, Answer(p, r, time))
    BY <1>4 DEF Accepts, Answer, Searches, BatchDecompile
  <2> HIDE DEF rows
  <2>6. AnswersInOrder(r, [rows |-> rows, count |-> Len(s)])
    BY <2>3, <2>4 DEF AnswersInOrder
  <2> QED
    BY <2>5, <2>6
<1> QED
  BY <1>1, <1>2, <1>3, <1>4 DEF Repeated

\* The dispatch depends on the operation only, and that never changes.
LEMMA SameDispatch ==
    ASSUME UNCHANGED <<op, program, request>>
    PROVE  /\ Valid(request)' = Valid(request)
           /\ \A r : Valid(r)' = Valid(r)
           /\ Answers(program, request)' = Answers(program, request)
           /\ \A time : Answer(program, request, time)' = Answer(program, request, time)
           /\ \A r, time : Answer(program, r, time)' = Answer(program, r, time)
<1>1. Valid(request)' = Valid(request)
  BY DEF Valid
<1>2. \A r : Valid(r)' = Valid(r)
  BY DEF Valid
<1>3. /\ Answers(program, request)' = Answers(program, request)
      /\ \A time : Answer(program, request, time)' = Answer(program, request, time)
  BY DEF Answers, Answer, Searches
<1>4. \A r, time : Answer(program, r, time)' = Answer(program, r, time)
  BY DEF Answer, Searches
<1> QED
  BY <1>1, <1>2, <1>3, <1>4

LEMMA SameCheck ==
    ASSUME UNCHANGED <<op, request, reply>>
    PROVE  Accepts(request, reply)' = Accepts(request, reply)
  BY DEF Accepts, Searches

LEMMA ReplyInvHolds == Spec => []ReplyInv
<1>1. Init => ReplyInv
  BY DEF Init, ReplyInv
<1>2. ReplyInv /\ [Next]_vars => ReplyInv'
  <2> SUFFICES ASSUME ReplyInv, [Next]_vars
               PROVE  ReplyInv'
    OBVIOUS
  <2> DEFINE Other == \E other \in Requests[op] : Valid(other) /\ Given(other, reply)
  <2>1. CASE Refuse
    BY <2>1 DEF Refuse, ReplyInv
  <2>2. CASE Send
    BY <2>2, SameDispatch DEF Send, ReplyInv
  <2>3. CASE Edit
    BY <2>3 DEF Edit, ReplyInv
  <2>4. CASE Decline
    BY <2>4 DEF Decline, ReplyInv
  <2>5. CASE Reply
    <3>1. Valid(request)' /\ Answers(program, request)' /\ Given(request, reply)'
      BY <2>5, SameDispatch DEF Reply, ReplyInv, Given
    <3> QED
      BY <2>5, <3>1 DEF Reply, ReplyInv
  <2>6. CASE Misroute
    <3>1. Budget \in 0..Budget
      BY QueriesAssumption
    <3>2. Valid(request)' /\ Other'
      BY <2>6, <3>1, SameDispatch DEF Misroute, ReplyInv, Given
    <3> QED
      BY <2>6, <3>2 DEF Misroute, ReplyInv
  <2>7. CASE Accept
    <3>1. CASE honest
      <4>1. phase' \in {"asking", "done"}
        BY <2>7, <3>1 DEF Accept
      <4> QED
        BY <2>7, <4>1 DEF Accept, ReplyInv
    <3>2. CASE ~ honest
      <4> DEFINE next == GoOn(request, reply)
                 more == next # {}
      <4>a. /\ phase' = IF ~ honest THEN "misled" ELSE IF more THEN "asking" ELSE "done"
            /\ request' = IF honest /\ more THEN CHOOSE r \in next : TRUE ELSE request
            /\ UNCHANGED <<op, program, reply>>
        BY <2>7 DEF Accept
      <4>b. request' = request
        BY <4>a, <3>2
      <4> HIDE DEF more
      <4>c. phase' = "misled"
        BY <4>a, <3>2
      <4>1. phase' = "misled" /\ UNCHANGED <<op, program, request, reply>>
        BY <4>a, <4>b, <4>c
      <4>2. Valid(request)' /\ Other'
        BY <2>7, <3>2, <4>1, SameDispatch DEF Accept, ReplyInv, Given
      <4>3. Accepts(request, reply)'
        BY <2>7, <4>1, SameCheck DEF Accept
      <4> QED
        BY <2>7, <4>1, <4>2, <4>3 DEF Accept, ReplyInv
    <3> QED
      BY <3>1, <3>2
  <2>8. CASE Reject
    <3>1. honest' => op' \notin Repeated
      BY <2>8, RepeatedIsAccepted DEF Reject, ReplyInv, Given
    <3> QED
      BY <2>8, <3>1 DEF Reject, ReplyInv
  <2>9. CASE UNCHANGED vars
    <3>1. /\ Valid(request)' = Valid(request)
          /\ Answers(program, request)' = Answers(program, request)
          /\ Given(request, reply)' = Given(request, reply)
          /\ Other' = Other
          /\ Accepts(request, reply)' = Accepts(request, reply)
      BY <2>9, SameDispatch, SameCheck DEF vars, Given
    <3> QED
      BY <2>9, <3>1 DEF vars, ReplyInv
  <2> QED
    BY <2>1, <2>2, <2>3, <2>4, <2>5, <2>6, <2>7, <2>8, <2>9 DEF Next
<1> QED
  BY <1>1, <1>2, PTL DEF Spec

\* An answer to another request is accepted for this one only when it is also an
\* answer to this one, for the operations whose validator ties it to the whole
\* request (backend.rs and backend/*.rs, the validate_* functions).
THEOREM RepliesAreBound == Spec => []BoundReplies
<1>1. ReplyInv => BoundReplies
  <2> SUFFICES ASSUME ReplyInv, phase = "misled", op \in Bound
               PROVE  Given(request, reply)
    BY DEF BoundReplies, Given
  <2>1. PICK other \in Requests[op] : Valid(other) /\ Given(other, reply)
    BY DEF ReplyInv
  <2>2. PICK time \in 0..Budget : reply = Answer(program, other, time)
    BY <2>1 DEF Given
  <2>3. Valid(request) /\ Accepts(request, reply) /\ program \in Programs
    BY DEF ReplyInv
  <2> SUFFICES Answer(program, other, time) = Answer(program, request, time)
    BY <2>2 DEF Given
  <2>4. CASE op = "get_data"
    <3>1. request \in GetDataParams /\ other \in GetDataParams
      BY <2>1, <2>3, <2>4 DEF Valid
    <3>2. \A r : Answer(program, r, time) = Data(program, r)
      BY <2>4 DEF Answer, Searches
    <3>3. AcceptsData(request, reply)
      BY <2>3, <2>4 DEF Accepts, Searches
    <3> QED
      BY <3>1, <3>2, <3>3, <2>2, <2>3, BoundData
  <2>5. CASE op = "get_high_pcode"
    <3>1. request \in HighPcodeParams /\ other \in HighPcodeParams
      BY <2>1, <2>3, <2>5 DEF Valid
    <3>2. \A r : Answer(program, r, time) = HighPcode(program, r)
      BY <2>5 DEF Answer, Searches
    <3>3. AcceptsHighPcode(request, reply)
      BY <2>3, <2>5 DEF Accepts, Searches
    <3> QED
      BY <3>1, <3>2, <3>3, <2>2, <2>3, BoundHighPcode
  <2>6. CASE op = "get_function_variables"
    <3>1. request \in FunctionVariablesParams /\ other \in FunctionVariablesParams
      BY <2>1, <2>3, <2>6 DEF Valid
    <3>2. \A r : Answer(program, r, time) = Variables(program, r)
      BY <2>6 DEF Answer, Searches
    <3>3. AcceptsVariables(request, reply)
      BY <2>3, <2>6 DEF Accepts, Searches
    <3> QED
      BY <3>1, <3>2, <3>3, <2>2, <2>3, BoundVariables
  <2>7. CASE op = "hash_memory"
    <3>1. \A r : Answer(program, r, time) = Hash(program, r)
      BY <2>7 DEF Answer, Searches
    <3>2. AcceptsHash(request, reply)
      BY <2>3, <2>7 DEF Accepts, Searches
    <3> QED
      BY <3>1, <3>2, <2>2, BoundHash
  <2>8. CASE op = "read_bytes"
    <3>1. request \in ReadBytesParams /\ other \in ReadBytesParams
      BY <2>1, <2>3, <2>8 DEF Valid
    <3>2. \A r : Answer(program, r, time) = Bytes(program, r)
      BY <2>8 DEF Answer, Searches
    <3>3. AcceptsBytes(request, reply)
      BY <2>3, <2>8 DEF Accepts, Searches
    <3> QED
      BY <3>1, <3>2, <3>3, <2>2, BoundBytes
  <2>9. CASE op = "map_file_offset"
    <3>1. \A r : Answer(program, r, time) = FileOffsets(program, r)
      BY <2>9 DEF Answer, Searches
    <3>2. AcceptsFileOffsets(request, reply)
      BY <2>3, <2>9 DEF Accepts, Searches
    <3> QED
      BY <3>1, <3>2, <2>2, BoundFileOffsets
  <2>10. CASE op = "batch_decompile"
    <3>1. request \in BatchDecompileParams /\ other \in BatchDecompileParams
      BY <2>1, <2>3, <2>10 DEF Valid
    <3>2. \A r : Answer(program, r, time) = BatchDecompile(program, r, time)
      BY <2>10 DEF Answer, Searches
    <3>3. AnswersInOrder(request, reply)
      BY <2>3, <2>10 DEF Accepts, Searches
    <3> QED
      BY <3>1, <3>2, <3>3, <2>2, BoundBatchDecompile
  <2> QED
    BY <2>4, <2>5, <2>6, <2>7, <2>8, <2>9, <2>10 DEF Bound
<1> QED
  BY <1>1, ReplyInvHolds, PTL
-----------------------------------------------------------------------------
(* Paging.  Every operation that counts its rows is one list read from a      *)
(* place on: how long the list is, and how far the place may go.             *)

Counted == Pages \cup {"get_data"}
Counting(r) == op \in Counted /\ (op = "get_processor_context" => r.register = 0)

\* The fields of a request that hold its place in the list and its room.
Place == IF op = "get_data" THEN "component_offset" ELSE "offset"
Space == IF op = "get_data" THEN "component_limit" ELSE "limit"
Skip(r)      == r[Place]
PageLimit(r) == r[Space]
MoveTo(r, n) == [r EXCEPT ![Place] = n]
Size(p, r)   ==
    IF op = "get_data" /\ p.units[UnitAt(p, r.address)].kind # "data" THEN 0 ELSE p.size
Farthest ==
    CASE op \in {"list_functions", "list_bookmarks", "get_data"} -> MaxInt
      [] op = "get_processor_context" -> LastRegister
      [] op = "get_high_pcode"        -> LastOperation
      [] OTHER                        -> LastRow

\* The parts of a request that the next page keeps.
Moves(r) ==
    /\ Skip(r) \in Nat /\ PageLimit(r) \in Nat \ {0}
    /\ MoveTo(r, Skip(r)) = r
    /\ \A n \in Nat :
        /\ Skip(MoveTo(r, n)) = n /\ PageLimit(MoveTo(r, n)) = PageLimit(r)
        /\ \A m \in Nat : MoveTo(MoveTo(r, n), m) = MoveTo(r, m)
        /\ \A p : Size(p, MoveTo(r, n)) = Size(p, r)
        /\ Counting(MoveTo(r, n)) = Counting(r)
        /\ n <= Farthest => Valid(MoveTo(r, n))

\* All that the handlers and the validators compute from one page.
LEMMA OnePage ==
    ASSUME NEW n \in Nat, NEW skipped \in Nat, NEW limit \in Nat
    PROVE  LET rows == Take(Numbers(n), skipped, limit)
           IN /\ rows = Part(skipped, Room(n, skipped, limit))
              /\ Len(rows) \in Nat /\ Len(rows) <= limit /\ Len(rows) <= n
              /\ DOMAIN rows = 1..Len(rows)
              /\ \A i \in 1..Len(rows) : rows[i] = skipped + i
              /\ IsInjective(rows)
              /\ Len(rows) = Min({limit, Max({0, n - skipped})})
              /\ Len(rows) = Max({0, Min({limit, n - skipped})})
              /\ (skipped + Len(rows) < n) = (skipped + limit < n)
              /\ skipped + limit < n => Len(rows) = limit
<1> DEFINE rows == Take(Numbers(n), skipped, limit)
           k == Room(n, skipped, limit)
<1>1. k \in Nat /\ k <= limit /\ k <= n /\ (skipped + limit < n => k = limit)
  BY DEF Room
<1>2. rows = Part(skipped, k)
  BY TakeIsPart
<1> HIDE DEF rows
<1>3. Len(rows) = k /\ DOMAIN rows = 1..k /\ \A i \in 1..k : rows[i] = skipped + i
  BY <1>1, <1>2, PartLength
<1>4. IsInjective(rows)
  BY <1>1, <1>3 DEF IsInjective
<1>5. /\ k = Min({limit, Max({0, n - skipped})})
      /\ k = Max({0, Min({limit, n - skipped})})
      /\ (skipped + k < n) = (skipped + limit < n)
  BY RoomIsCounted
<1> QED
  BY <1>1, <1>2, <1>3, <1>4, <1>5 DEF rows

LEMMA LimitsArePositive == \A max : \A n \in Limit(max) : n \in Nat \ {0}
  BY DEF Limit

\* A request with a place, a room and a bound on the place moves as it should.
LEMMA PlacesMove ==
    ASSUME NEW r, r = [f \in DOMAIN r |-> r[f]], Place \in DOMAIN r,
           Skip(r) \in Nat, PageLimit(r) \in Nat \ {0},
           \A n \in Nat : n <= Farthest => Valid(MoveTo(r, n))
    PROVE  Moves(r)
<1>1. Place \notin {Space, "address", "register"}
  BY DEF Place, Space
<1>2. MoveTo(r, Skip(r)) = r
  BY DEF MoveTo, Skip
<1>3. ASSUME NEW n
      PROVE  /\ DOMAIN MoveTo(r, n) = DOMAIN r /\ Skip(MoveTo(r, n)) = n
             /\ PageLimit(MoveTo(r, n)) = PageLimit(r)
             /\ \A f \in {"address", "register"} : MoveTo(r, n)[f] = r[f]
             /\ \A m : MoveTo(MoveTo(r, n), m) = MoveTo(r, m)
  BY <1>1 DEF MoveTo, Skip, PageLimit
<1>4. ASSUME NEW n
      PROVE  /\ \A p : Size(p, MoveTo(r, n)) = Size(p, r)
             /\ Counting(MoveTo(r, n)) = Counting(r)
  <2>1. MoveTo(r, n).address = r.address /\ MoveTo(r, n).register = r.register
    BY <1>3
  <2> QED
    BY <2>1 DEF Size, Counting
<1> QED
  BY <1>2, <1>3, <1>4 DEF Moves

LEMMA PagesMove ==
    ASSUME op \in Counted, NEW r, Valid(r)
    PROVE  Moves(r)
<1>1. CASE op = "list_functions"
  <2>1. /\ r \in ListFunctionsParams /\ Place = "offset" /\ Space = "limit"
        /\ Farthest = MaxInt /\ \A q : Valid(q) = (q \in ListFunctionsParams)
    BY <1>1 DEF Valid, Farthest, Place, Space
  <2>2. /\ r = [f \in DOMAIN r |-> r[f]] /\ "offset" \in DOMAIN r
        /\ r.offset \in Nat /\ r.limit \in Nat \ {0}
        /\ \A n \in Nat : n <= MaxInt => [r EXCEPT !.offset = n] \in ListFunctionsParams
    BY <2>1, LimitsArePositive, LastPagesAreNumbers, CoreAssumption DEF ListFunctionsParams
  <2> QED
    BY <2>1, <2>2, PlacesMove DEF Skip, PageLimit, MoveTo
<1>2. CASE op = "list_symbols"
  <2>1. /\ r \in ListSymbolsParams /\ Place = "offset" /\ Space = "limit"
        /\ Farthest = LastRow /\ \A q : Valid(q) = (q \in ListSymbolsParams)
    BY <1>2 DEF Valid, Farthest, Place, Space
  <2>2. /\ r = [f \in DOMAIN r |-> r[f]] /\ "offset" \in DOMAIN r
        /\ r.offset \in Nat /\ r.limit \in Nat \ {0}
        /\ \A n \in Nat : n <= LastRow => [r EXCEPT !.offset = n] \in ListSymbolsParams
    BY <2>1, LimitsArePositive, LastPagesAreNumbers, CoreAssumption DEF ListSymbolsParams, RowOffset
  <2> QED
    BY <2>1, <2>2, PlacesMove DEF Skip, PageLimit, MoveTo
<1>3. CASE op = "list_strings"
  <2>1. /\ r \in ListStringsParams /\ Place = "offset" /\ Space = "limit"
        /\ Farthest = LastRow /\ \A q : Valid(q) = (q \in ListStringsParams)
    BY <1>3 DEF Valid, Farthest, Place, Space
  <2>2. /\ r = [f \in DOMAIN r |-> r[f]] /\ "offset" \in DOMAIN r
        /\ r.offset \in Nat /\ r.limit \in Nat \ {0}
        /\ \A n \in Nat : n <= LastRow => [r EXCEPT !.offset = n] \in ListStringsParams
    BY <2>1, LimitsArePositive, LastPagesAreNumbers, CoreAssumption DEF ListStringsParams, RowOffset
  <2> QED
    BY <2>1, <2>2, PlacesMove DEF Skip, PageLimit, MoveTo
<1>4. CASE op = "list_bookmarks"
  <2>1. /\ r \in ListBookmarksParams /\ Place = "offset" /\ Space = "limit"
        /\ Farthest = MaxInt /\ \A q : Valid(q) = (q \in ListBookmarksParams)
    BY <1>4 DEF Valid, Farthest, Place, Space
  <2>2. /\ r = [f \in DOMAIN r |-> r[f]] /\ "offset" \in DOMAIN r
        /\ r.offset \in Nat /\ r.limit \in Nat \ {0}
        /\ \A n \in Nat : n <= MaxInt => [r EXCEPT !.offset = n] \in ListBookmarksParams
    BY <2>1, LimitsArePositive, LastPagesAreNumbers, CoreAssumption DEF ListBookmarksParams
  <2> QED
    BY <2>1, <2>2, PlacesMove DEF Skip, PageLimit, MoveTo
<1>5. CASE op = "get_processor_context"
  <2>1. /\ r \in ProcessorContextParams /\ Place = "offset" /\ Space = "limit"
        /\ Farthest = LastRegister /\ \A q : Valid(q) = (q \in ProcessorContextParams)
    BY <1>5 DEF Valid, Farthest, Place, Space
  <2>2. /\ r = [f \in DOMAIN r |-> r[f]] /\ "offset" \in DOMAIN r
        /\ r.offset \in Nat /\ r.limit \in Nat \ {0}
        /\ \A n \in Nat : n <= LastRegister => [r EXCEPT !.offset = n] \in ProcessorContextParams
    BY <2>1, LimitsArePositive, LastPagesAreNumbers, CoreAssumption DEF ProcessorContextParams
  <2> QED
    BY <2>1, <2>2, PlacesMove DEF Skip, PageLimit, MoveTo
<1>6. CASE op = "list_data_types"
  <2>1. /\ r \in ListDataTypesParams /\ Place = "offset" /\ Space = "limit"
        /\ Farthest = LastRow /\ \A q : Valid(q) = (q \in ListDataTypesParams)
    BY <1>6 DEF Valid, Farthest, Place, Space
  <2>2. /\ r = [f \in DOMAIN r |-> r[f]] /\ "offset" \in DOMAIN r
        /\ r.offset \in Nat /\ r.limit \in Nat \ {0}
        /\ \A n \in Nat : n <= LastRow => [r EXCEPT !.offset = n] \in ListDataTypesParams
    BY <2>1, LimitsArePositive, LastPagesAreNumbers, CoreAssumption DEF ListDataTypesParams, RowOffset
  <2> QED
    BY <2>1, <2>2, PlacesMove DEF Skip, PageLimit, MoveTo
<1>7. CASE op = "get_function_variables"
  <2>1. /\ r \in FunctionVariablesParams /\ Place = "offset" /\ Space = "limit"
        /\ Farthest = LastRow /\ \A q : Valid(q) = (q \in FunctionVariablesParams)
    BY <1>7 DEF Valid, Farthest, Place, Space
  <2>2. /\ r = [f \in DOMAIN r |-> r[f]] /\ "offset" \in DOMAIN r
        /\ r.offset \in Nat /\ r.limit \in Nat \ {0}
        /\ \A n \in Nat : n <= LastRow => [r EXCEPT !.offset = n] \in FunctionVariablesParams
    BY <2>1, LimitsArePositive, LastPagesAreNumbers, CoreAssumption DEF FunctionVariablesParams, RowOffset
  <2> QED
    BY <2>1, <2>2, PlacesMove DEF Skip, PageLimit, MoveTo
<1>8. CASE op = "get_high_pcode"
  <2>1. /\ r \in HighPcodeParams /\ Place = "offset" /\ Space = "limit"
        /\ Farthest = LastOperation /\ \A q : Valid(q) = (q \in HighPcodeParams)
    BY <1>8 DEF Valid, Farthest, Place, Space
  <2>2. /\ r = [f \in DOMAIN r |-> r[f]] /\ "offset" \in DOMAIN r
        /\ r.offset \in Nat /\ r.limit \in Nat \ {0}
        /\ \A n \in Nat : n <= LastOperation => [r EXCEPT !.offset = n] \in HighPcodeParams
    BY <2>1, LimitsArePositive, LastPagesAreNumbers, CoreAssumption DEF HighPcodeParams
  <2> QED
    BY <2>1, <2>2, PlacesMove DEF Skip, PageLimit, MoveTo
<1>9. CASE op = "get_data"
  <2>1. /\ r \in GetDataParams /\ Place = "component_offset" /\ Space = "component_limit"
        /\ Farthest = MaxInt /\ \A q : Valid(q) = (q \in GetDataParams)
    BY <1>9 DEF Valid, Farthest, Place, Space
  <2>2. /\ r = [f \in DOMAIN r |-> r[f]] /\ "component_offset" \in DOMAIN r
        /\ r.component_offset \in Nat /\ r.component_limit \in Nat \ {0}
        /\ \A n \in Nat : n <= MaxInt => [r EXCEPT !.component_offset = n] \in GetDataParams
    BY <2>1, LimitsArePositive, LastPagesAreNumbers, CoreAssumption DEF GetDataParams
  <2> QED
    BY <2>1, <2>2, PlacesMove DEF Skip, PageLimit, MoveTo
<1> QED
  BY <1>1, <1>2, <1>3, <1>4, <1>5, <1>6, <1>7, <1>8, <1>9 DEF Counted, Pages

\* The answer to one page, and what the client makes of it.
PageGiven(p, r, v) ==
    LET n == Size(p, r)
        next == Skip(r) + PageLimit(r)
    IN /\ Rows(v) = Part(Skip(r), Room(n, Skip(r), PageLimit(r)))
       /\ GoOn(r, v) = IF next < n THEN {MoveTo(r, next)} ELSE {}
       /\ Answers(p, r) => Accepts(r, v)

LEMMA PageAnswers ==
    ASSUME NEW p \in Programs, NEW r, Valid(r), Counting(r), NEW time
    PROVE  PageGiven(p, r, Answer(p, r, time))
<1> DEFINE v == Answer(p, r, time)
           skipped == Skip(r)
           limit == PageLimit(r)
           n == Size(p, r)
           rows == Take(Numbers(n), skipped, limit)
           more == skipped + limit < n
<1>1. /\ skipped \in Nat /\ limit \in Nat /\ n \in Nat /\ p.size \in Nat
      /\ op = "get_processor_context" => r.register = 0
  BY PagesMove, SizesAreNumbers DEF Moves, Counting, Size
<1>2. /\ rows = Part(skipped, Room(n, skipped, limit))
      /\ Len(rows) \in Nat /\ Len(rows) <= limit /\ Len(rows) <= n
      /\ DOMAIN rows = 1..Len(rows)
      /\ \A i \in 1..Len(rows) : rows[i] = skipped + i
      /\ IsInjective(rows)
      /\ Len(rows) = Min({limit, Max({0, n - skipped})})
      /\ Len(rows) = Max({0, Min({limit, n - skipped})})
      /\ (skipped + Len(rows) < n) = more
      /\ more => Len(rows) = limit
  BY <1>1, OnePage
<1>3. /\ (Min({n, skipped + limit + 1}) > skipped + limit) = more
      /\ (skipped + Min({limit, n - skipped}) < n) = more
  BY <1>1, RoomIsCounted
<1>4. CASE op = "list_functions"
  <2>1. /\ v = Functions(p, r) /\ skipped = r.offset /\ limit = r.limit
        /\ n = p.size
        /\ Accepts(r, v) = AcceptsFunctions(r, v)
    BY <1>4 DEF Answer, Accepts, Searches, Skip, PageLimit, Place, Space, Size
  <2> HIDE DEF v, skipped, limit, n
  <2>2. v.rows = rows /\ v.total = n
    BY <2>1 DEF Functions
  <2>3. GoOn(r, v) = IF more THEN {[r EXCEPT !.offset = skipped + limit]} ELSE {}
    BY <1>4, <1>2, <2>1, <2>2 DEF GoOn, Pages, Searches, Windows
  <2>4. Rows(v) = rows
    BY <1>4, <2>2 DEF Rows
  <2>5. Answers(p, r) => Accepts(r, v)
    BY <1>1, <1>2, <2>1, <2>2 DEF Functions, AcceptsFunctions, AcceptsPage
  <2> QED
    BY <1>4, <1>2, <2>3, <2>4, <2>5 DEF PageGiven, MoveTo, Place, v, skipped, limit, n
<1>5. CASE op = "list_symbols"
  <2>1. /\ v = Symbols(p, r) /\ skipped = r.offset /\ limit = r.limit
        /\ n = p.size
        /\ Accepts(r, v) = AcceptsPage(r, v)
    BY <1>5 DEF Answer, Accepts, Searches, Skip, PageLimit, Place, Space, Size
  <2> HIDE DEF v, skipped, limit, n
  <2>2. v.rows = rows /\ v.has_more = more
    BY <1>1, <1>2, <1>3, <2>1 DEF Symbols
  <2>3. GoOn(r, v) = IF more THEN {[r EXCEPT !.offset = skipped + limit]} ELSE {}
    BY <1>5, <1>2, <2>1, <2>2 DEF GoOn, Pages, Searches, Windows
  <2>4. Rows(v) = rows
    BY <1>5, <2>2 DEF Rows
  <2>5. Answers(p, r) => Accepts(r, v)
    BY <1>1, <1>2, <2>1, <2>2 DEF Symbols, AcceptsPage
  <2> QED
    BY <1>5, <1>2, <2>3, <2>4, <2>5 DEF PageGiven, MoveTo, Place, v, skipped, limit, n
<1>6. CASE op = "list_strings"
  <2>1. /\ v = Symbols(p, r) /\ skipped = r.offset /\ limit = r.limit
        /\ n = p.size
        /\ Accepts(r, v) = AcceptsPage(r, v)
    BY <1>6 DEF Answer, Accepts, Searches, Skip, PageLimit, Place, Space, Size
  <2> HIDE DEF v, skipped, limit, n
  <2>2. v.rows = rows /\ v.has_more = more
    BY <1>1, <1>2, <1>3, <2>1 DEF Symbols
  <2>3. GoOn(r, v) = IF more THEN {[r EXCEPT !.offset = skipped + limit]} ELSE {}
    BY <1>6, <1>2, <2>1, <2>2 DEF GoOn, Pages, Searches, Windows
  <2>4. Rows(v) = rows
    BY <1>6, <2>2 DEF Rows
  <2>5. Answers(p, r) => Accepts(r, v)
    BY <1>1, <1>2, <2>1, <2>2 DEF Symbols, AcceptsPage
  <2> QED
    BY <1>6, <1>2, <2>3, <2>4, <2>5 DEF PageGiven, MoveTo, Place, v, skipped, limit, n
<1>7. CASE op = "list_bookmarks"
  <2>1. /\ v = Bookmarks(p, r) /\ skipped = r.offset /\ limit = r.limit
        /\ n = p.size
        /\ Accepts(r, v) = AcceptsBookmarks(r, v)
    BY <1>7 DEF Answer, Accepts, Searches, Skip, PageLimit, Place, Space, Size
  <2> HIDE DEF v, skipped, limit, n
  <2>2. v.rows = rows /\ v.has_more = more
    BY <1>1, <1>2, <1>3, <2>1 DEF Bookmarks
  <2>3. GoOn(r, v) = IF more THEN {[r EXCEPT !.offset = skipped + limit]} ELSE {}
    BY <1>7, <1>2, <2>1, <2>2 DEF GoOn, Pages, Searches, Windows
  <2>4. Rows(v) = rows
    BY <1>7, <2>2 DEF Rows
  <2>5. Answers(p, r) => Accepts(r, v)
    BY <1>1, <1>2, <2>1, <2>2 DEF Bookmarks, AcceptsBookmarks
  <2> QED
    BY <1>7, <1>2, <2>3, <2>4, <2>5 DEF PageGiven, MoveTo, Place, v, skipped, limit, n
<1>8. CASE op = "get_processor_context"
  <2>1. /\ v = Context(p, r) /\ skipped = r.offset /\ limit = r.limit
        /\ n = p.size
        /\ Accepts(r, v) = AcceptsContext(r, v)
    BY <1>8 DEF Answer, Accepts, Searches, Skip, PageLimit, Place, Space, Size
  <2> HIDE DEF v, skipped, limit, n
  <2>a. r.register = 0
    BY <1>1, <1>8
  <2>b. Len(Numbers(n)) = n /\ n \in Nat
    BY <1>1 DEF Numbers
  <2>c. v = [address |-> r.address, offset |-> skipped, rows |-> rows, total |-> n,
             has_more |-> skipped + Len(rows) < n]
    BY <2>1, <2>a, <2>b DEF Context
  <2>2. v.rows = rows /\ v.has_more = more
    BY <1>2, <2>c
  <2>3. GoOn(r, v) = IF more THEN {[r EXCEPT !.offset = skipped + limit]} ELSE {}
    BY <1>8, <1>2, <2>1, <2>2 DEF GoOn, Pages, Searches, Windows
  <2>4. Rows(v) = rows
    BY <1>8, <2>2 DEF Rows
  <2>5. Answers(p, r) => Accepts(r, v)
    BY <1>1, <1>2, <2>1, <2>a, <2>c DEF AcceptsContext
  <2> QED
    BY <1>8, <1>2, <2>3, <2>4, <2>5 DEF PageGiven, MoveTo, Place, v, skipped, limit, n
<1>9. CASE op = "list_data_types"
  <2>1. /\ v = DataTypes(p, r) /\ skipped = r.offset /\ limit = r.limit
        /\ n = p.size
        /\ Accepts(r, v) = AcceptsDataTypes(r, v)
    BY <1>9 DEF Answer, Accepts, Searches, Skip, PageLimit, Place, Space, Size
  <2> HIDE DEF v, skipped, limit, n
  <2>2. v.rows = rows /\ v.has_more = more
    BY <1>1, <1>2, <1>3, <2>1 DEF DataTypes, MoreThan
  <2>3. GoOn(r, v) = IF more THEN {[r EXCEPT !.offset = skipped + limit]} ELSE {}
    BY <1>9, <1>2, <2>1, <2>2 DEF GoOn, Pages, Searches, Windows
  <2>4. Rows(v) = rows
    BY <1>9, <2>2 DEF Rows
  <2>5. Answers(p, r) => Accepts(r, v)
    BY <1>1, <1>2, <2>1, <2>2 DEF DataTypes, AcceptsDataTypes, MoreThan
  <2> QED
    BY <1>9, <1>2, <2>3, <2>4, <2>5 DEF PageGiven, MoveTo, Place, v, skipped, limit, n
<1>10. CASE op = "get_function_variables"
  <2>1. /\ v = Variables(p, r) /\ skipped = r.offset /\ limit = r.limit
        /\ n = p.size
        /\ Accepts(r, v) = AcceptsVariables(r, v)
    BY <1>10 DEF Answer, Accepts, Searches, Skip, PageLimit, Place, Space, Size
  <2> HIDE DEF v, skipped, limit, n
  <2>2. v.rows = rows /\ v.has_more = more
    BY <1>1, <1>2, <1>3, <2>1 DEF Variables
  <2>3. GoOn(r, v) = IF more THEN {[r EXCEPT !.offset = skipped + limit]} ELSE {}
    BY <1>10, <1>2, <2>1, <2>2 DEF GoOn, Pages, Searches, Windows
  <2>4. Rows(v) = rows
    BY <1>10, <2>2 DEF Rows
  <2>5. Answers(p, r) => Accepts(r, v)
    BY <1>1, <1>2, <2>1, <2>2 DEF Variables, AcceptsVariables
  <2> QED
    BY <1>10, <1>2, <2>3, <2>4, <2>5 DEF PageGiven, MoveTo, Place, v, skipped, limit, n
<1>11. CASE op = "get_high_pcode"
  <2>1. /\ v = HighPcode(p, r) /\ skipped = r.offset /\ limit = r.limit
        /\ n = p.size
        /\ Accepts(r, v) = AcceptsHighPcode(r, v)
    BY <1>11 DEF Answer, Accepts, Searches, Skip, PageLimit, Place, Space, Size
  <2> HIDE DEF v, skipped, limit, n
  <2>2. v.rows = rows /\ v.has_more = more
    BY <1>1, <1>2, <1>3, <2>1 DEF HighPcode
  <2>3. GoOn(r, v) = IF more THEN {[r EXCEPT !.offset = skipped + limit]} ELSE {}
    BY <1>11, <1>2, <2>1, <2>2 DEF GoOn, Pages, Searches, Windows
  <2>4. Rows(v) = rows
    BY <1>11, <2>2 DEF Rows
  <2>5. Answers(p, r) => Accepts(r, v)
    BY <1>1, <1>2, <2>1, <2>2, <1>11 DEF HighPcode, AcceptsHighPcode, Answers
  <2> QED
    BY <1>11, <1>2, <2>3, <2>4, <2>5 DEF PageGiven, MoveTo, Place, v, skipped, limit, n
<1>12. CASE op = "get_data"
  <2>1. /\ v = Data(p, r) /\ skipped = r.component_offset /\ limit = r.component_limit
        /\ n = IF p.units[UnitAt(p, r.address)].kind = "data" THEN p.size ELSE 0
        /\ Accepts(r, v) = AcceptsData(r, v)
    BY <1>12 DEF Answer, Accepts, Searches, Skip, PageLimit, Place, Space, Size
  <2> HIDE DEF v, skipped, limit, n
  <2>2. v.rows = rows /\ v.has_more = more
    BY <1>1, <1>2, <1>3, <2>1 DEF Data
  <2>3. GoOn(r, v) = IF more THEN {[r EXCEPT !.component_offset = skipped + limit]} ELSE {}
    BY <1>12, <1>2, <2>1, <2>2 DEF GoOn, Pages, Searches, Windows
  <2>4. Rows(v) = rows
    BY <1>12, <2>2 DEF Rows
  <2>5. ASSUME Answers(p, r)
        PROVE  Accepts(r, v)
    <3> DEFINE unit == p.units[UnitAt(p, r.address)]
               found == unit.kind = "data"
    <3>1. Mapped(p, r.address) /\ r.address \in Offset
      BY <1>12, <2>5 DEF Answers, Valid, GetDataParams
    <3>2. r.address \in unit.at..unit.end
      BY <3>1, MappedAreUnits
    <3>3. /\ n = IF found THEN p.size ELSE 0
          /\ v = [address |-> r.address, found |-> found, data |-> IF found THEN unit ELSE <<>>,
                  total |-> n, component_offset |-> skipped, rows |-> rows,
                  has_more |-> skipped + Min({limit, n - skipped}) < n]
      BY <2>1 DEF Data
    <3> HIDE DEF unit, found
    <3>4. /\ v.address = r.address /\ v.component_offset = r.component_offset
          /\ v.found => r.address \in v.data.at..v.data.end
          /\ ~ v.found => v.data = <<>> /\ v.total = 0
      BY <2>1, <3>2, <3>3
    <3>a. v.rows = rows /\ v.total = n /\ v.component_offset = skipped /\ limit = r.component_limit
      BY <2>1, <3>3
    <3>5. Len(v.rows) = Max({0, Min({r.component_limit, v.total - v.component_offset})})
      <4> HIDE DEF rows
      <4> QED
        BY <1>2, <3>a
    <3>6. v.has_more = (v.component_offset + Len(v.rows) < v.total)
      BY <1>2, <1>3, <3>3
    <3>7. \A i \in DOMAIN v.rows : v.rows[i] = v.component_offset + i
      BY <1>2, <3>3
    <3> QED
      BY <2>1, <3>4, <3>5, <3>6, <3>7 DEF AcceptsData
  <2> QED
    BY <1>12, <1>2, <2>3, <2>4, <2>5 DEF PageGiven, MoveTo, Place, v, skipped, limit, n
<1> QED
  BY <1>4, <1>5, <1>6, <1>7, <1>8, <1>9, <1>10, <1>11, <1>12 DEF Counting, Counted, Pages

-----------------------------------------------------------------------------
(* The invariant of paging: the client has the list from where it started up  *)
(* to the place it asks for now.                                            *)

InReach == \A p \in Programs : Size(p, first) <= Farthest
AtPlace(n) ==
    /\ request = MoveTo(first, n) /\ seen = Part(Skip(first), n - Skip(first))
    /\ n > Skip(first)
    /\ ~ edited => n < Size(program, first)
    /\ InReach => n <= Farthest
Underway == \/ request = first /\ seen = <<>>
            \/ Valid(first) /\ \E n \in Nat : AtPlace(n)
Finished == Valid(first) /\ seen =
    Part(Skip(first), IF Size(program, first) <= Skip(first) THEN 0
                      ELSE Size(program, first) - Skip(first))
PageInv ==
    Counting(first) =>
        /\ phase \in {"asking", "sent", "answered"} => Underway
        /\ phase = "done" /\ ~ edited => Finished
        /\ phase = "refused" /\ request # first => ~ InReach
        /\ ~ (phase = "doubt" /\ honest)

LEMMA SamePlaces ==
    ASSUME UNCHANGED <<op, first>>
    PROVE  /\ Counting(first)' = Counting(first) /\ InReach' = InReach
           /\ Skip(first)' = Skip(first) /\ Valid(first)' = Valid(first)
           /\ Farthest' = Farthest
           /\ \A n : MoveTo(first, n)' = MoveTo(first, n)
           /\ \A p : Size(p, first)' = Size(p, first)
<1>1. Valid(first)' = Valid(first)
  BY DEF Valid
<1>2. /\ Place' = Place /\ Farthest' = Farthest /\ Counting(first)' = Counting(first)
      /\ \A p : Size(p, first)' = Size(p, first)
  BY DEF Place, Farthest, Counting, Size
<1>3. Skip(first)' = Skip(first) /\ \A n : MoveTo(first, n)' = MoveTo(first, n)
  BY <1>2 DEF Skip, MoveTo
<1>4. InReach' = InReach
  BY <1>2 DEF InReach
<1> QED
  BY <1>1, <1>2, <1>3, <1>4

\* Nothing but an accepted answer moves the client; an edit may shorten the list.
LEMMA StillUnderway ==
    ASSUME UNCHANGED <<op, first, request, seen>>, UNCHANGED <<program, edited>> \/ edited',
           Underway
    PROVE  Underway'
<1>1. CASE request = first /\ seen = <<>>
  BY <1>1 DEF Underway
<1>2. CASE Valid(first) /\ \E n \in Nat : AtPlace(n)
  <2>1. PICK n \in Nat : AtPlace(n)
    BY <1>2
  <2>2. ~ edited' => Size(program, first)' = Size(program, first)
    BY DEF Size
  <2>3. AtPlace(n)'
    BY <2>1, <2>2, SamePlaces DEF AtPlace
  <2>4. Valid(first)'
    BY <1>2, SamePlaces
  <2> QED
    BY <2>3, <2>4 DEF Underway
<1> QED
  BY <1>1, <1>2 DEF Underway

\* What a page adds.
LEMMA PagesJoin ==
    ASSUME NEW n \in Nat, NEW skipped \in Nat, NEW k \in Nat, n >= skipped
    PROVE  Part(skipped, n - skipped) \o Part(n, k) = Part(skipped, n - skipped + k)
<1> DEFINE m == n - skipped
<1>1. m \in Nat /\ skipped + m = n
  OBVIOUS
<1> HIDE DEF m
<1>2. Part(skipped, m) \o Part(skipped + m, k) = Part(skipped, m + k)
  BY <1>1, PartsJoin
<1>3. Part(skipped, m) \o Part(n, k) = Part(skipped, m + k)
  BY <1>1, <1>2
<1> QED
  BY <1>3 DEF m

LEMMA NextPage ==
    ASSUME NEW n \in Nat, NEW size \in Nat, NEW limit \in Nat \ {0}
    PROVE  LET k == Room(size, n, limit)
           IN /\ k \in Nat
              /\ n + limit < size => k = limit
              /\ ~ (n + limit < size) => k = IF size <= n THEN 0 ELSE size - n
  BY DEF Room

LEMMA NothingIsPart == \A skipped \in Nat : Part(skipped, 0) = <<>>
<1> TAKE skipped \in Nat
<1>1. Part(skipped, 0) \in Seq(Nat) /\ Len(Part(skipped, 0)) = 0
  BY PartLength
<1>2. << >> \in Seq(Nat) /\ Len(<< >>) = 0
  BY EmptySeq
<1> QED
  BY <1>1, <1>2, SeqEqual

\* An accepted place is the start, or inside the list when nobody edits.
LEMMA WherePagesAre ==
    ASSUME Counting(first), Underway, Valid(request)
    PROVE  /\ Valid(first)
           /\ \E n \in Nat :
                /\ n >= Skip(first) /\ request = MoveTo(first, n)
                /\ seen = Part(Skip(first), n - Skip(first))
                /\ n = Skip(first) \/ (~ edited => n < Size(program, first))
<1>1. CASE request = first /\ seen = <<>>
  <2>1. Valid(first) /\ Skip(first) \in Nat /\ MoveTo(first, Skip(first)) = first
    BY <1>1, PagesMove DEF Counting, Moves
  <2> DEFINE n == Skip(first)
  <2>2. n - n = 0 /\ n >= n
    BY <2>1
  <2>3. seen = Part(n, n - n)
    BY <1>1, <2>1, <2>2, NothingIsPart
  <2> QED
    BY <1>1, <2>1, <2>2, <2>3
<1>2. CASE Valid(first) /\ \E n \in Nat : AtPlace(n)
  <2>1. Skip(first) \in Nat
    BY <1>2, PagesMove DEF Counting, Moves
  <2> QED
    BY <1>2, <2>1 DEF AtPlace
<1> QED
  BY <1>1, <1>2 DEF Underway

LEMMA PageInvHolds == Spec => []PageInv
<1>1. Init => PageInv
  BY DEF Init, PageInv, Underway
<1>2. ReplyInv /\ PageInv /\ [Next]_vars => PageInv'
  <2> SUFFICES ASSUME ReplyInv, PageInv, [Next]_vars, Counting(first)'
               PROVE  /\ phase' \in {"asking", "sent", "answered"} => Underway'
                      /\ phase' = "done" /\ ~ edited' => Finished'
                      /\ phase' = "refused" /\ request' # first' => ~ InReach'
                      /\ ~ (phase' = "doubt" /\ honest')
    BY DEF PageInv
  <2>0. UNCHANGED <<op, first>> /\ Counting(first)
    <3>1. UNCHANGED <<op, first>>
      BY DEF Next, vars, Refuse, Send, Edit, Decline, Reply, Misroute, Accept, Reject
    <3> QED
      BY <3>1, SamePlaces
  <2>1. CASE Refuse
    <3>1. phase = "asking" /\ ~ Valid(request) /\ UNCHANGED <<request, honest>> /\ phase' = "refused"
      BY <2>1 DEF Refuse
    <3>2. CASE request = first
      BY <3>1, <3>2, <2>0
    <3>3. CASE request # first
      <4>1. Valid(first) /\ \E n \in Nat : AtPlace(n)
        BY <2>0, <3>1, <3>3 DEF PageInv, Underway
      <4>2. PICK n \in Nat : AtPlace(n)
        BY <4>1
      <4>3. n <= Farthest => Valid(request)
        BY <2>0, <4>1, <4>2, PagesMove DEF Moves, Counting, AtPlace
      <4>4. ~ InReach'
        BY <2>0, <3>1, <4>2, <4>3, SamePlaces DEF AtPlace
      <4> QED
        BY <3>1, <4>4
    <3> QED
      BY <3>2, <3>3
  <2>2. CASE Send
    <3>1. Underway'
      BY <2>0, <2>2, StillUnderway DEF Send, PageInv
    <3> QED
      BY <2>2, <3>1 DEF Send
  <2>3. CASE Edit
    <3>1. Underway'
      BY <2>0, <2>3, StillUnderway DEF Edit, PageInv
    <3> QED
      BY <2>3, <3>1 DEF Edit
  <2>4. CASE Decline
    BY <2>4 DEF Decline
  <2>5. CASE Reply
    <3>1. Underway'
      BY <2>0, <2>5, StillUnderway DEF Reply, PageInv
    <3> QED
      BY <2>5, <3>1 DEF Reply
  <2>6. CASE Misroute
    <3>1. Underway'
      BY <2>0, <2>6, StillUnderway DEF Misroute, PageInv
    <3> QED
      BY <2>6, <3>1 DEF Misroute
  <2>7. CASE Accept
    <3>1. CASE ~ honest
      <4>1. phase' = "misled"
        BY <2>7, <3>1 DEF Accept
      <4> QED
        BY <4>1
    <3>2. CASE honest
      <4>1. /\ Underway /\ Valid(request) /\ program \in Programs /\ Given(request, reply)
            /\ Answers(program, request)
        BY <2>0, <2>7, <3>2 DEF Accept, PageInv, ReplyInv
      <4> DEFINE skipped == Skip(first)
                 limit == PageLimit(first)
                 size == Size(program, first)
      <4>2. /\ Valid(first)
            /\ \E n \in Nat :
                /\ n >= skipped /\ request = MoveTo(first, n)
                /\ seen = Part(skipped, n - skipped)
                /\ n = skipped \/ (~ edited => n < size)
        BY <2>0, <4>1, WherePagesAre
      <4>3. PICK n \in Nat :
                /\ n >= skipped /\ request = MoveTo(first, n)
                /\ seen = Part(skipped, n - skipped)
                /\ n = skipped \/ (~ edited => n < size)
        BY <4>2
      <4>4. Moves(first)
        BY <2>0, <4>2, PagesMove DEF Counting
      <4>5. /\ skipped \in Nat /\ limit \in Nat \ {0}
            /\ Skip(request) = n /\ PageLimit(request) = limit
            /\ Size(program, request) = size /\ Counting(request)
            /\ MoveTo(request, n + limit) = MoveTo(first, n + limit)
        <5>1. skipped \in Nat /\ limit \in Nat \ {0}
          BY <4>4 DEF Moves
        <5>2. /\ Skip(MoveTo(first, n)) = n /\ PageLimit(MoveTo(first, n)) = limit
              /\ Size(program, MoveTo(first, n)) = size
              /\ Counting(MoveTo(first, n)) = Counting(first)
              /\ \A m \in Nat : MoveTo(MoveTo(first, n), m) = MoveTo(first, m)
          BY <4>4 DEF Moves
        <5>3. n + limit \in Nat
          BY <5>1
        <5> HIDE DEF skipped, limit, size
        <5> QED
          BY <2>0, <4>3, <5>1, <5>2, <5>3
      <4>6. size \in Nat
        BY <4>1, SizesAreNumbers DEF Size
      <4>7. PageGiven(program, request, reply)
        BY <4>1, <4>5, PageAnswers DEF Given
      <4> DEFINE k == Room(size, n, limit)
      <4>8. /\ Rows(reply) = Part(n, k)
            /\ GoOn(request, reply) = IF n + limit < size THEN {MoveTo(first, n + limit)} ELSE {}
        BY <4>5, <4>7 DEF PageGiven
      <4>9. seen' = Part(skipped, n - skipped + k)
        <5>1. seen' = seen \o Rows(reply)
          BY <2>7, <3>2 DEF Accept
        <5>2. Part(skipped, n - skipped) \o Part(n, k) = Part(skipped, n - skipped + k)
          <6>1. k \in Nat
            BY <4>3, <4>5, <4>6, NextPage
          <6> HIDE DEF skipped, k
          <6> QED
            BY <4>3, <4>5, <6>1, PagesJoin
        <5> HIDE DEF skipped, k
        <5> QED
          BY <4>3, <4>8, <5>1, <5>2
      <4>10. CASE n + limit < size
        <5>1. GoOn(request, reply) = {MoveTo(first, n + limit)}
          BY <4>8, <4>10
        <5>2. phase' = "asking" /\ request' = MoveTo(first, n + limit)
          BY <2>7, <3>2, <5>1 DEF Accept
        <5>3. k = limit
          BY <4>3, <4>5, <4>6, <4>10, NextPage
        <5>4. PICK m \in Nat : m = n + limit
          BY <4>5
        <5>5. m > skipped /\ m < size /\ n - skipped + k = m - skipped
          <6> HIDE DEF skipped, limit, size, k
          <6> QED
            BY <4>3, <4>5, <4>6, <4>10, <5>3, <5>4
        <5>6. InReach => m <= Farthest
          <6>1. InReach => size <= Farthest
            BY <4>1 DEF InReach
          <6>2. Farthest \in Nat
            BY LastPagesAreNumbers, CoreAssumption DEF Farthest
          <6> HIDE DEF size
          <6> QED
            BY <4>6, <5>5, <6>1, <6>2
        <5>7. Size(program, first)' = size
          BY <2>7 DEF Accept, Size
        <5>8. request' = MoveTo(first, m) /\ seen' = Part(skipped, m - skipped)
          BY <4>9, <5>2, <5>4, <5>5
        <5>9. /\ request' = MoveTo(first, m)'
              /\ seen' = Part(Skip(first)', m - Skip(first)') /\ m > Skip(first)'
              /\ m < Size(program, first)' /\ (InReach' => m <= Farthest')
          BY <2>0, <5>5, <5>6, <5>7, <5>8, SamePlaces
        <5>10. AtPlace(m)'
          BY <5>9 DEF AtPlace
        <5>11. Valid(first)'
          BY <2>0, <4>2, SamePlaces
        <5>12. Underway'
          BY <5>10, <5>11 DEF Underway
        <5> QED
          BY <5>2, <5>12
      <4>11. CASE ~ (n + limit < size)
        <5>1. GoOn(request, reply) = {}
          BY <4>8, <4>11
        <5>2. phase' = "done"
          BY <2>7, <3>2, <5>1 DEF Accept
        <5>3. UNCHANGED <<edited, program>>
          BY <2>7 DEF Accept
        <5>4. k = IF size <= n THEN 0 ELSE size - n
          BY <4>3, <4>5, <4>6, <4>11, NextPage
        <5>5. ~ edited => n - skipped + k = IF size <= skipped THEN 0 ELSE size - skipped
          <6> HIDE DEF k, skipped, size, limit
          <6> QED
            BY <4>3, <4>5, <4>6, <5>4
        <5>6. ~ edited => seen' = Part(skipped, IF size <= skipped THEN 0 ELSE size - skipped)
          BY <4>9, <5>5
        <5>7. Size(program, first)' = size
          BY <2>0, <5>3 DEF Size
        <5>8. ~ edited' => Finished'
          BY <2>0, <4>2, <5>3, <5>6, <5>7, SamePlaces DEF Finished
        <5> QED
          BY <5>2, <5>8
      <4> QED
        BY <4>10, <4>11
    <3> QED
      BY <3>1, <3>2
  <2>8. CASE Reject
    <3>1. CASE honest
      <4>1. /\ Underway /\ Valid(request) /\ program \in Programs /\ Given(request, reply)
            /\ Answers(program, request) /\ ~ Accepts(request, reply)
        BY <2>0, <2>8, <3>1 DEF Reject, PageInv, ReplyInv
      <4>2. PICK n \in Nat : Valid(first) /\ request = MoveTo(first, n)
        BY <2>0, <4>1, WherePagesAre
      <4>3. Counting(request)
        BY <2>0, <4>2, PagesMove DEF Counting, Moves
      <4> QED
        BY <4>1, <4>3, PageAnswers DEF Given, PageGiven
    <3> QED
      BY <2>8, <3>1 DEF Reject
  <2>9. CASE UNCHANGED vars
    <3>1. Underway => Underway'
      BY <2>9, StillUnderway DEF vars
    <3>2. Size(program, first)' = Size(program, first)
      BY <2>9 DEF vars, Size
    <3>3. Finished => Finished'
      BY <2>9, <3>2, SamePlaces DEF vars, Finished
    <3>4. InReach' = InReach
      BY <2>0, SamePlaces
    <3> QED
      BY <2>0, <2>9, <3>1, <3>3, <3>4 DEF vars, PageInv
  <2> QED
    BY <2>1, <2>2, <2>3, <2>4, <2>5, <2>6, <2>7, <2>8, <2>9 DEF Next
<1> QED
  BY <1>1, <1>2, ReplyInvHolds, PTL DEF Spec

\* The own answer of a handler that counts its rows, or that repeats the request,
\* is never a doubt, wherever the page starts and whatever its limit: the MCP
\* server recomputes the rows, the total and has_more as the handler did (the
\* validate_* functions of backend.rs and backend/*.rs).
THEOREM PagesAreAccepted ==
    Spec => [](Counting(first) \/ op \in Repeated => HonestAccepted)
<1>1. ReplyInv /\ PageInv => (Counting(first) \/ op \in Repeated => HonestAccepted)
  BY DEF ReplyInv, PageInv, HonestAccepted
<1> QED
  BY <1>1, ReplyInvHolds, PageInvHolds, PTL

\* A client that pages is stopped half-way only when a list is longer than the
\* offsets that may be asked for: no page that ends before the list names a next
\* one which validate() refuses (domain.rs; ListSymbolsParams and others stop at
\* row 1,000,000).
THEOREM PagesGoOn ==
    Spec => [](Counting(first) /\ InReach => ContinuationsSent)
<1>1. PageInv => (Counting(first) /\ InReach => ContinuationsSent)
  BY DEF PageInv, ContinuationsSent
<1> QED
  BY <1>1, PageInvHolds, PTL

\* Paging to the end gives every row once when nobody edits: offset + rows of one
\* page is the next page's offset in every handler.
THEOREM PagesAreWhole == Spec => [](Counting(first) => WholeAndOnce)
<1>1. ReplyInv /\ PageInv => (Counting(first) => WholeAndOnce)
  <2> SUFFICES ASSUME ReplyInv, PageInv, Counting(first), phase = "done", ~ edited
               PROVE  ToSet(seen) = Wanted(program, first) /\ IsInjective(seen)
    BY DEF WholeAndOnce
  <2> DEFINE skipped == Skip(first)
             size == Size(program, first)
             count == IF size <= skipped THEN 0 ELSE size - skipped
  <2>1. Valid(first) /\ seen = Part(skipped, count)
    BY DEF PageInv, Finished
  <2>2. skipped \in Nat
    BY <2>1, PagesMove DEF Counting, Moves
  <2>3. size \in Nat /\ program \in Programs
    BY SizesAreNumbers DEF ReplyInv, Size
  <2>4. Wanted(program, first) = (skipped + 1)..size
    <3>1. CASE op = "get_data"
      <4>1. skipped = first.component_offset
        BY <3>1 DEF Skip, Place
      <4>2. Wanted(program, first) =
              IF program.units[UnitAt(program, first.address)].kind = "data"
              THEN (first.component_offset + 1)..program.size ELSE {}
        BY <3>1 DEF Wanted, Pages, Searches
      <4> QED
        BY <2>2, <3>1, <4>1, <4>2 DEF Size
    <3>2. CASE op # "get_data"
      <4>1. skipped = first.offset /\ size = program.size
        BY <3>2 DEF Skip, Place, Size
      <4> QED
        BY <3>2, <4>1 DEF Wanted, Pages, Searches, Counting, Counted
    <3> QED
      BY <3>1, <3>2
  <2> HIDE DEF skipped, size
  <2>5. count \in Nat
    BY <2>2, <2>3
  <2>6. DOMAIN seen = 1..count /\ \A i \in 1..count : seen[i] = skipped + i
    BY <2>1, <2>2, <2>5, PartLength
  <2>7. IsInjective(seen)
    BY <2>2, <2>5, <2>6 DEF IsInjective
  <2>8. ToSet(seen) = (skipped + 1)..size
    <3>1. ASSUME NEW i \in 1..count
          PROVE  seen[i] \in (skipped + 1)..size
      BY <2>2, <2>3, <2>6
    <3>2. ASSUME NEW row \in (skipped + 1)..size
          PROVE  row - skipped \in 1..count /\ seen[row - skipped] = row
      BY <2>2, <2>3, <2>6
    <3> QED
      BY <2>6, <3>1, <3>2 DEF ToSet
  <2> QED
    BY <2>4, <2>7, <2>8
<1> QED
  BY <1>1, ReplyInvHolds, PageInvHolds, PTL

-----------------------------------------------------------------------------
(* Sets in order.                                                           *)

\* A finite set that a relation orders strictly and totally.
Ordered(S, R) ==
    /\ IsFiniteSet(S)
    /\ \A x \in S : <<x, x>> \notin R
    /\ \A x, y, z \in S : <<x, y>> \in R /\ <<y, z>> \in R => <<x, z>> \in R
    /\ \A x, y \in S : x # y => <<x, y>> \in R \/ <<y, x>> \in R
\* s lists S in this order, and nothing twice.
Lists(s, S, R) ==
    /\ s \in [1..Cardinality(S) -> S] /\ Cardinality(S) \in Nat
    /\ \A x \in S : \E k \in 1..Cardinality(S) : s[k] = x
    /\ \A j, k \in 1..Cardinality(S) : j < k => <<s[j], s[k]>> \in R

\* A place in the order is the number of members before it: no two have the same, and
\* none is left over.
LEMMA RankLists ==
    ASSUME NEW S, NEW R, Ordered(S, R)
    PROVE  Lists([k \in 1..Cardinality(S) |->
                    CHOOSE x \in S : Cardinality({y \in S : <<y, x>> \in R}) = k - 1], S, R)
<1> DEFINE n == Cardinality(S)
           Lower(x) == {y \in S : <<y, x>> \in R}
           place == [x \in S |-> Cardinality(Lower(x)) + 1]
           rank == [k \in 1..n |-> CHOOSE x \in S : Cardinality(Lower(x)) = k - 1]
<1>0. IsFiniteSet(S) /\ n \in Nat
  BY FS_CardinalityType DEF Ordered
<1> HIDE DEF Lower, n
<1>1. ASSUME NEW x \in S
      PROVE  /\ IsFiniteSet(Lower(x)) /\ Cardinality(Lower(x)) \in Nat
             /\ Cardinality(Lower(x)) + 1 \in 1..n
  <2>1. IsFiniteSet(S \ {x}) /\ Cardinality(S \ {x}) = n - 1
    BY <1>0, FS_RemoveElement DEF n
  <2>2. Lower(x) \in SUBSET (S \ {x})
    BY DEF Ordered, Lower
  <2>3. IsFiniteSet(Lower(x)) /\ Cardinality(Lower(x)) <= n - 1
    BY <2>1, <2>2, FS_Subset
  <2>4. Cardinality(Lower(x)) \in Nat
    BY <2>3, FS_CardinalityType
  <2> QED
    BY <1>0, <2>3, <2>4
<1>2. ASSUME NEW x \in S, NEW y \in S, <<x, y>> \in R
      PROVE  Cardinality(Lower(x)) < Cardinality(Lower(y))
  <2>1. Lower(x) \in SUBSET Lower(y) /\ x \in Lower(y) /\ x \notin Lower(x)
    BY <1>2 DEF Ordered, Lower
  <2>2. IsFiniteSet(Lower(y))
    BY <1>1
  <2>3. /\ Cardinality(Lower(x)) <= Cardinality(Lower(y))
        /\ Cardinality(Lower(x)) # Cardinality(Lower(y))
    BY <2>1, <2>2, FS_Subset
  <2> QED
    BY <1>1, <2>3
<1>3. ASSUME NEW x \in S, NEW y \in S, Cardinality(Lower(x)) = Cardinality(Lower(y))
      PROVE  x = y
  <2> SUFFICES ASSUME x # y
               PROVE  FALSE
    OBVIOUS
  <2>1. <<x, y>> \in R \/ <<y, x>> \in R
    BY DEF Ordered
  <2> QED
    BY <1>1, <1>2, <1>3, <2>1
<1>4. place \in Surjection(S, 1..n)
  <2>1. place \in Injection(S, 1..n)
    <3>1. place \in [S -> 1..n]
      BY <1>1
    <3>2. \A x, y \in S : place[x] = place[y] => x = y
      <4>1. \A x \in S : place[x] = Cardinality(Lower(x)) + 1 /\ Cardinality(Lower(x)) \in Nat
        BY <1>1
      <4> HIDE DEF place
      <4> QED
        BY <1>3, <4>1
    <3> HIDE DEF place
    <3> QED
      BY <3>1, <3>2 DEF Injection, IsInjective
  <2>2. IsFiniteSet(1..n) /\ Cardinality(1..n) = n
    BY <1>0, FS_Interval
  <2> HIDE DEF place
  <2> QED
    BY <2>1, <2>2, FS_Injection DEF n
<1>5. ASSUME NEW k \in 1..n
      PROVE  rank[k] \in S /\ Cardinality(Lower(rank[k])) = k - 1
  <2>1. PICK x \in S : place[x] = k
    BY <1>4 DEF Surjection
  <2>2. Cardinality(Lower(x)) = k - 1
    <3>1. place[x] = Cardinality(Lower(x)) + 1 /\ Cardinality(Lower(x)) \in Nat
      BY <1>1
    <3> QED
      BY <2>1, <3>1
  <2>3. rank[k] = CHOOSE y \in S : Cardinality(Lower(y)) = k - 1
    OBVIOUS
  <2> HIDE DEF rank
  <2> QED
    BY <2>2, <2>3
<1>6. ASSUME NEW x \in S
      PROVE  \E k \in 1..n : rank[k] = x
  <2> DEFINE k == Cardinality(Lower(x)) + 1
  <2>1. k \in 1..n
    BY <1>1
  <2>2. rank[k] \in S /\ Cardinality(Lower(rank[k])) = Cardinality(Lower(x))
    <3>1. Cardinality(Lower(x)) \in Nat
      BY <1>1
    <3> HIDE DEF rank
    <3> QED
      BY <1>5, <2>1, <3>1
  <2>3. rank[k] = x
    BY <1>3, <2>2
  <2> QED
    BY <2>1, <2>3
<1>7. ASSUME NEW j \in 1..n, NEW k \in 1..n, j < k
      PROVE  <<rank[j], rank[k]>> \in R
  <2>1. /\ rank[j] \in S /\ rank[k] \in S
        /\ Cardinality(Lower(rank[j])) = j - 1 /\ Cardinality(Lower(rank[k])) = k - 1
    BY <1>5
  <2>2. rank[j] # rank[k]
    <3> HIDE DEF rank
    <3> QED
      BY <1>7, <2>1
  <2>3. <<rank[j], rank[k]>> \in R \/ <<rank[k], rank[j]>> \in R
    BY <2>1, <2>2 DEF Ordered
  <2>4. <<rank[k], rank[j]>> \notin R
    <3> SUFFICES ASSUME <<rank[k], rank[j]>> \in R
                 PROVE  FALSE
      OBVIOUS
    <3>1. Cardinality(Lower(rank[k])) < Cardinality(Lower(rank[j]))
      BY <1>2, <2>1
    <3> HIDE DEF rank
    <3> QED
      BY <1>0, <1>7, <2>1, <3>1
  <2> QED
    BY <2>3, <2>4
<1>8. rank \in [1..n -> S]
  <2> QED
    BY <1>5
<1> HIDE DEF rank
<1>9. Lists(rank, S, R)
  BY <1>0, <1>6, <1>7, <1>8 DEF Lists, n
<1> QED
  BY <1>9 DEF rank, n, Lower

\* Ascending lists a finite set of integers.
LEMMA AscendingLists ==
    ASSUME NEW S \in SUBSET Int, IsFiniteSet(S)
    PROVE  /\ Cardinality(S) \in Nat
           /\ Ascending(S) \in [1..Cardinality(S) -> S]
           /\ \A x \in S : \E k \in 1..Cardinality(S) : Ascending(S)[k] = x
           /\ \A j, k \in 1..Cardinality(S) : j < k => Ascending(S)[j] < Ascending(S)[k]
<1> DEFINE R == {q \in Int \X Int : q[1] < q[2]}
<1>1. \A x, y \in S : (<<x, y>> \in R) = (x < y)
  OBVIOUS
<1>2. Ordered(S, R)
  BY <1>1 DEF Ordered
<1> HIDE DEF R
<1>3. Ascending(S) = [k \in 1..Cardinality(S) |->
                        CHOOSE x \in S : Cardinality({y \in S : <<y, x>> \in R}) = k - 1]
  <2>1. \A x \in S : {y \in S : <<y, x>> \in R} = {y \in S : y < x}
    BY <1>1
  <2>2. \A k : (CHOOSE x \in S : Cardinality({y \in S : <<y, x>> \in R}) = k - 1)
             = CHOOSE x \in S : Cardinality({y \in S : y < x}) = k - 1
    BY <2>1
  <2>3. Ascending(S) = [k \in 1..Cardinality(S) |->
                          CHOOSE x \in S : Cardinality({y \in S : y < x}) = k - 1]
    BY DEF Ascending, Ranked
  <2> DEFINE f(k) == CHOOSE x \in S : Cardinality({y \in S : <<y, x>> \in R}) = k - 1
             g(k) == CHOOSE x \in S : Cardinality({y \in S : y < x}) = k - 1
  <2>4. \A k : f(k) = g(k)
    BY <2>2
  <2>5. Ascending(S) = [k \in 1..Cardinality(S) |-> g(k)]
    BY <2>3
  <2> HIDE DEF f, g
  <2>6. [k \in 1..Cardinality(S) |-> g(k)] = [k \in 1..Cardinality(S) |-> f(k)]
    BY <2>4
  <2>7. Ascending(S) = [k \in 1..Cardinality(S) |-> f(k)]
    BY <2>5, <2>6
  <2> QED
    BY <2>7 DEF f
<1>4. Lists(Ascending(S), S, R)
  BY <1>2, <1>3, RankLists
<1> QED
  BY <1>1, <1>4 DEF Lists

LEMMA PartOrdered ==
    ASSUME NEW S, NEW R, Ordered(S, R), NEW T \in SUBSET S
    PROVE  Ordered(T, R)
<1>1. IsFiniteSet(T)
  BY FS_Subset DEF Ordered
<1> QED
  BY <1>1 DEF Ordered

\* What an ordered list is, as a sequence.
LEMMA ListIs ==
    ASSUME NEW s, NEW S, NEW R, Ordered(S, R), Lists(s, S, R)
    PROVE  /\ Len(s) \in Nat /\ Len(s) = Cardinality(S) /\ DOMAIN s = 1..Len(s)
           /\ s \in Seq(S) /\ ToSet(s) = S /\ IsInjective(s)
           /\ \A i \in DOMAIN s : s[i] \in S
           /\ \A j, k \in DOMAIN s : <<s[j], s[k]>> \in R <=> j < k
<1> DEFINE n == Cardinality(S)
<1>1. /\ s \in [1..n -> S] /\ n \in Nat
      /\ \A x \in S : \E k \in 1..n : s[k] = x
      /\ \A j, k \in 1..n : j < k => <<s[j], s[k]>> \in R
  BY DEF Lists
<1> HIDE DEF n
<1>2. s \in Seq(S) /\ Len(s) = n /\ DOMAIN s = 1..n
  BY <1>1, SeqDef
<1>3. ASSUME NEW j \in 1..n, NEW k \in 1..n
      PROVE  /\ <<s[j], s[k]>> \in R <=> j < k
             /\ s[j] = s[k] => j = k
  <2>1. s[j] \in S /\ s[k] \in S
    BY <1>1
  <2>2. <<s[j], s[j]>> \notin R /\ <<s[k], s[k]>> \notin R
    BY <2>1 DEF Ordered
  <2>3. CASE j < k
    BY <1>1, <2>2, <2>3
  <2>4. CASE k < j
    <3>1. <<s[k], s[j]>> \in R
      BY <1>1, <2>4
    <3>2. <<s[j], s[k]>> \notin R
      BY <2>1, <2>2, <3>1 DEF Ordered
    <3> QED
      BY <2>2, <2>4, <3>1, <3>2
  <2>5. CASE j = k
    BY <2>2, <2>5
  <2> QED
    BY <2>3, <2>4, <2>5
<1>4. IsInjective(s)
  BY <1>2, <1>3 DEF IsInjective
<1>5. ToSet(s) = S
  BY <1>1, <1>2 DEF ToSet
<1> QED
  BY <1>1, <1>2, <1>3, <1>4, <1>5 DEF n

LEMMA MadeList ==
    ASSUME NEW T, NEW R, Ordered(T, R), NEW n \in Nat, NEW t \in [1..n -> T],
           \A x \in T : \E k \in 1..n : t[k] = x,
           \A j, k \in 1..n : j < k => <<t[j], t[k]>> \in R
    PROVE  Lists(t, T, R) /\ Cardinality(T) = n
<1>1. ASSUME NEW j \in 1..n, NEW k \in 1..n, t[j] = t[k]
      PROVE  j = k
  <2>1. t[j] \in T
    OBVIOUS
  <2>2. <<t[j], t[k]>> \notin R /\ <<t[k], t[j]>> \notin R
    BY <1>1, <2>1 DEF Ordered
  <2>3. ~ (j < k) /\ ~ (k < j)
    BY <2>2
  <2> QED
    BY <2>3
<1>2. t \in Bijection(1..n, T)
  <2>1. t \in Injection(1..n, T)
    BY <1>1 DEF Injection, IsInjective
  <2>2. t \in Surjection(1..n, T)
    BY DEF Surjection
  <2> QED
    BY <2>1, <2>2 DEF Bijection
<1>3. ExistsBijection(1..n, T)
  BY <1>2 DEF ExistsBijection
<1>4. Cardinality(T) = n
  BY <1>3, FS_CountingElements
<1> QED
  BY <1>4 DEF Lists

\* The members at some positions are listed in the same order.
LEMMA ChosenLists ==
    ASSUME NEW s, NEW S, NEW R, Ordered(S, R), Lists(s, S, R), NEW I \in SUBSET DOMAIN s
    PROVE  /\ Ordered({s[i] : i \in I}, R) /\ Lists(Chosen(s, I), {s[i] : i \in I}, R)
           /\ Len(Chosen(s, I)) = Cardinality(I)
<1> DEFINE at == Ascending(I)
           n == Cardinality(I)
           T == {s[i] : i \in I}
           t == Chosen(s, I)
<1>1. /\ Len(s) \in Nat /\ DOMAIN s = 1..Len(s) /\ \A i \in DOMAIN s : s[i] \in S
      /\ \A j, k \in DOMAIN s : <<s[j], s[k]>> \in R <=> j < k
  BY ListIs
<1>2. I \in SUBSET Int /\ IsFiniteSet(I)
  <2>1. IsFiniteSet(1..Len(s))
    BY <1>1, FS_Interval
  <2> QED
    BY <1>1, <2>1, FS_Subset
<1>3. /\ n \in Nat /\ at \in [1..n -> I]
      /\ \A x \in I : \E k \in 1..n : at[k] = x
      /\ \A j, k \in 1..n : j < k => at[j] < at[k]
  BY <1>2, AscendingLists
<1>4. t = [k \in 1..n |-> s[at[k]]]
  BY <1>3 DEF Chosen
<1> HIDE DEF at, n
<1>5. Ordered(T, R)
  BY <1>1, PartOrdered
<1>6. t \in [1..n -> T]
  BY <1>3, <1>4
<1>7. \A x \in T : \E k \in 1..n : t[k] = x
  BY <1>3, <1>4
<1>8. \A j, k \in 1..n : j < k => <<t[j], t[k]>> \in R
  BY <1>1, <1>3, <1>4
<1> HIDE DEF t, T
<1>n. n \in Nat
  BY <1>3
<1>9. Lists(t, T, R) /\ Cardinality(T) = n
  BY <1>n, <1>5, <1>6, <1>7, <1>8, MadeList
<1>10. Len(t) = n
  BY <1>5, <1>9, ListIs
<1> QED
  BY <1>5, <1>9, <1>10 DEF T, t, n

\* The first n of a list, and what is left behind them.
LEMMA TakeLists ==
    ASSUME NEW s, NEW S, NEW R, Ordered(S, R), Lists(s, S, R), NEW n \in Nat
    PROVE  LET m == IF n <= Len(s) THEN n ELSE Len(s)
           IN /\ m \in Nat /\ m <= Len(s) /\ Len(Take(s, 0, n)) = m
              /\ Ordered({s[i] : i \in 1..m}, R) /\ Lists(Take(s, 0, n), {s[i] : i \in 1..m}, R)
              /\ \A i \in 1..m : Take(s, 0, n)[i] = s[i]
<1> DEFINE m == IF n <= Len(s) THEN n ELSE Len(s)
           T == {s[i] : i \in 1..m}
           t == Take(s, 0, n)
<1>1. /\ Len(s) \in Nat /\ DOMAIN s = 1..Len(s) /\ \A i \in DOMAIN s : s[i] \in S
      /\ s \in Seq(S)
      /\ \A j, k \in DOMAIN s : <<s[j], s[k]>> \in R <=> j < k
  BY ListIs
<1>2. Min({0 + n, Len(s)}) = m
  BY <1>1, MinOfTwo
<1>3. t = SubSeq(s, 1, m)
  BY <1>2 DEF Take
<1>4. m \in Nat /\ m <= Len(s)
  BY <1>1
<1> HIDE DEF m, t
<1>5. \A i \in 1..m : s[i] \in S
  BY <1>1, <1>4
<1>6. t \in Seq(S) /\ Len(t) = m /\ \A i \in 1..m : t[i] = s[i]
  <2>1. /\ SubSeq(s, 1, m) \in Seq(S)
        /\ Len(SubSeq(s, 1, m)) = IF 1 <= m THEN m - 1 + 1 ELSE 0
        /\ \A i \in 1..(m - 1 + 1) : SubSeq(s, 1, m)[i] = s[1 + i - 1]
    BY <1>4, <1>5, SubSeqProperties
  <2> QED
    BY <1>3, <1>4, <2>1
<1>7. t \in [1..m -> T]
  BY <1>4, <1>6, LenProperties
<1>8. Ordered(T, R)
  BY <1>5, PartOrdered
<1>9. \A x \in T : \E k \in 1..m : t[k] = x
  BY <1>6
<1>10. \A j, k \in 1..m : j < k => <<t[j], t[k]>> \in R
  <2> TAKE j, k \in 1..m
  <2>1. t[j] = s[j] /\ t[k] = s[k] /\ j \in DOMAIN s /\ k \in DOMAIN s
    BY <1>1, <1>4, <1>6
  <2> QED
    BY <1>1, <2>1
<1> HIDE DEF T
<1>11. Lists(t, T, R)
  BY <1>4, <1>7, <1>8, <1>9, <1>10, MadeList
<1> QED
  BY <1>4, <1>6, <1>8, <1>11 DEF m, t, T

LEMMA CutList ==
    ASSUME NEW s, NEW S, NEW R, Ordered(S, R), Lists(s, S, R), NEW m \in 0..Len(s)
    PROVE  /\ m = Len(s) => {s[i] : i \in 1..m} = S
           /\ m < Len(s) => /\ s[m + 1] \in S
                            /\ {s[i] : i \in 1..m} = {x \in S : <<x, s[m + 1]>> \in R}
<1>1. /\ Len(s) \in Nat /\ DOMAIN s = 1..Len(s) /\ \A i \in DOMAIN s : s[i] \in S
      /\ \A x \in S : \E i \in DOMAIN s : s[i] = x
      /\ \A j, k \in DOMAIN s : <<s[j], s[k]>> \in R <=> j < k
  <2>1. ToSet(s) = S
    BY ListIs
  <2> QED
    BY <2>1, ListIs DEF ToSet
<1>2. CASE m = Len(s)
  BY <1>1, <1>2
<1>3. CASE m < Len(s)
  <2>1. m + 1 \in DOMAIN s /\ s[m + 1] \in S
    BY <1>1, <1>3
  <2>2. ASSUME NEW i \in 1..m
        PROVE  s[i] \in S /\ <<s[i], s[m + 1]>> \in R
    <3>1. i \in DOMAIN s /\ i < m + 1
      BY <1>1, <1>3
    <3> QED
      BY <1>1, <2>1, <3>1
  <2>3. ASSUME NEW x \in S, <<x, s[m + 1]>> \in R
        PROVE  \E i \in 1..m : s[i] = x
    <3>1. PICK i \in DOMAIN s : s[i] = x
      BY <1>1
    <3>2. i < m + 1
      BY <1>1, <2>1, <2>3, <3>1
    <3>3. i \in 1..m
      BY <1>1, <1>3, <3>2
    <3> QED
      BY <3>1, <3>3
  <2> QED
    BY <1>3, <2>1, <2>2, <2>3
<1> QED
  BY <1>1, <1>2, <1>3

-----------------------------------------------------------------------------
(* What a program has, in order.                                            *)

ByNumber == {q \in Int \X Int : q[1] < q[2]}
ByPlace  == {q \in CodeUnit \X CodeUnit : q[1].end < q[2].at}
Instructions(p, offsets) == {u \in ToSet(p.units) : u.kind = "instruction" /\ u.at \in offsets}

LEMMA OffsetsAreNumbers == MaxOffset \in Nat /\ Offset \subseteq Int /\ IsFiniteSet(Offset)
<1>1. MaxOffset \in Nat
  BY CoreAssumption
<1> QED
  BY <1>1, FS_Interval DEF Offset

LEMMA OffsetIs == \A at \in Offset : at \in Nat /\ at <= MaxOffset
  BY OffsetsAreNumbers DEF Offset

LEMMA UnitFields ==
    ASSUME NEW u \in CodeUnit
    PROVE  /\ u.at \in Offset /\ u.end \in Offset /\ u.at \in Int /\ u.end \in Int
           /\ u.len \in Int /\ u.ops \in Int
           /\ u.kind \in {"instruction", "data", "undefined"}
<1>1. /\ u.at \in Offset /\ u.end \in Offset /\ u.len \in Nat /\ u.ops \in Nat
      /\ u.kind \in {"instruction", "data", "undefined"}
  BY DEF CodeUnit
<1> QED
  BY <1>1, OffsetIs

LEMMA ProgramIs ==
    ASSUME NEW p \in Programs
    PROVE  /\ p.size \in Nat /\ p.top \in Offset /\ p.marks \subseteq Offset
           /\ p.units \in Seq(CodeUnit)
<1> QED
  BY ProgramsAssumption, Zenon

LEMMA UnitsFollow ==
    ASSUME NEW p \in Programs, NEW i \in DOMAIN p.units
    PROVE  /\ p.units[i].at <= p.units[i].end
           /\ p.units[i].len = p.units[i].end - p.units[i].at + 1
           /\ \A j \in 1..(i - 1) : p.units[j].end < p.units[i].at
<1> QED
  BY ProgramsAssumption, Zenon

LEMMA MarksAreNumbers ==
    ASSUME NEW p \in Programs, NEW S \in SUBSET p.marks
    PROVE  S \in SUBSET Int /\ IsFiniteSet(S) /\ Ordered(S, ByNumber)
<1>1. S \in SUBSET Offset
  BY ProgramIs
<1>2. S \in SUBSET Int /\ IsFiniteSet(S)
  BY <1>1, OffsetsAreNumbers, FS_Subset
<1> QED
  BY <1>2 DEF Ordered, ByNumber

LEMMA AscendingIsList ==
    ASSUME NEW S \in SUBSET Int, IsFiniteSet(S)
    PROVE  Ordered(S, ByNumber) /\ Lists(Ascending(S), S, ByNumber)
<1>1. Ordered(S, ByNumber)
  BY DEF Ordered, ByNumber
<1>2. /\ Cardinality(S) \in Nat
      /\ Ascending(S) \in [1..Cardinality(S) -> S]
      /\ \A x \in S : \E k \in 1..Cardinality(S) : Ascending(S)[k] = x
      /\ \A j, k \in 1..Cardinality(S) : j < k => Ascending(S)[j] < Ascending(S)[k]
  BY AscendingLists
<1>3. \A j, k \in 1..Cardinality(S) : j < k => <<Ascending(S)[j], Ascending(S)[k]>> \in ByNumber
  BY <1>2 DEF ByNumber
<1> QED
  BY <1>1, <1>2, <1>3 DEF Lists

LEMMA UnitsAreList ==
    ASSUME NEW p \in Programs
    PROVE  /\ Ordered(ToSet(p.units), ByPlace)
           /\ Lists(p.units, ToSet(p.units), ByPlace)
           /\ Len(p.units) \in Nat /\ DOMAIN p.units = 1..Len(p.units)
           /\ \A i \in DOMAIN p.units : p.units[i] \in CodeUnit
<1> DEFINE s == p.units
           n == Len(s)
           S == ToSet(s)
<1>1. n \in Nat /\ DOMAIN s = 1..n /\ \A i \in 1..n : s[i] \in CodeUnit
  BY ProgramIs, LenProperties, ElementOfSeq
<1>2. \A i \in 1..n : /\ s[i].at \in Int /\ s[i].end \in Int /\ s[i].at <= s[i].end
                      /\ \A j \in 1..(i - 1) : s[j].end < s[i].at
  BY <1>1, UnitFields, UnitsFollow
<1> HIDE DEF s, n
<1>3. \A i, j \in 1..n : <<s[j], s[i]>> \in ByPlace <=> j < i
  <2> TAKE i, j \in 1..n
  <2>1. <<s[j], s[i]>> \in ByPlace <=> s[j].end < s[i].at
    BY <1>1 DEF ByPlace
  <2>2. j < i => s[j].end < s[i].at
    BY <1>1, <1>2
  <2>3. i < j => s[i].end < s[j].at
    BY <1>1, <1>2
  <2>4. /\ s[i].at \in Int /\ s[i].end \in Int /\ s[i].at <= s[i].end
        /\ s[j].at \in Int /\ s[j].end \in Int /\ s[j].at <= s[j].end
    BY <1>2
  <2>5. CASE j < i
    BY <2>1, <2>2, <2>5
  <2>6. CASE i < j
    BY <1>1, <2>1, <2>3, <2>4, <2>6
  <2>7. CASE i = j
    BY <1>1, <2>1, <2>4, <2>7
  <2> QED
    BY <1>1, <2>5, <2>6, <2>7
<1>4. s \in [1..n -> S] /\ \A x \in S : \E k \in 1..n : s[k] = x
  <2>1. s \in Seq(CodeUnit)
    BY ProgramIs DEF s
  <2>2. s \in [1..n -> CodeUnit]
    BY <2>1, LenProperties DEF n
  <2> QED
    BY <1>1, <2>2 DEF ToSet
<1>5. Ordered(S, ByPlace)
  <2>1. IsFiniteSet(S)
    <3>1. s \in Surjection(1..n, S)
      BY <1>4 DEF Surjection
    <3>2. ExistsSurjection(1..n, S)
      BY <3>1 DEF ExistsSurjection
    <3> QED
      BY <1>1, <3>2, FS_NatSurjection
  <2> HIDE DEF S
  <2>2. \A x \in S : <<x, x>> \notin ByPlace
    BY <1>1, <1>3, <1>4
  <2>3. \A x, y, z \in S : <<x, y>> \in ByPlace /\ <<y, z>> \in ByPlace => <<x, z>> \in ByPlace
    <3> TAKE x, y, z \in S
    <3>1. PICK i \in 1..n : s[i] = x
      BY <1>4
    <3>2. PICK j \in 1..n : s[j] = y
      BY <1>4
    <3>3. PICK k \in 1..n : s[k] = z
      BY <1>4
    <3>4. i < j /\ j < k => i < k
      BY <1>1
    <3> QED
      BY <1>3, <3>1, <3>2, <3>3, <3>4
  <2>4. \A x, y \in S : x # y => <<x, y>> \in ByPlace \/ <<y, x>> \in ByPlace
    <3> TAKE x, y \in S
    <3>1. PICK i \in 1..n : s[i] = x
      BY <1>4
    <3>2. PICK j \in 1..n : s[j] = y
      BY <1>4
    <3>3. i < j \/ j < i \/ i = j
      BY <1>1
    <3> QED
      BY <1>3, <3>1, <3>2, <3>3
  <2> QED
    BY <2>1, <2>2, <2>3, <2>4 DEF Ordered
<1>6. \A j, k \in 1..n : j < k => <<s[j], s[k]>> \in ByPlace
  BY <1>3
<1> HIDE DEF S
<1>7. Lists(s, S, ByPlace)
  BY <1>1, <1>4, <1>5, <1>6, MadeList
<1> QED
  BY <1>1, <1>5, <1>7 DEF s, n, S

LEMMA UnitIs ==
    ASSUME NEW p \in Programs, NEW u \in ToSet(p.units)
    PROVE  /\ u \in CodeUnit /\ u.at \in Offset /\ u.end \in Offset /\ u.at \in Int /\ u.end \in Int
           /\ u.at <= u.end /\ u.len = u.end - u.at + 1 /\ u.ops \in Int
<1>1. PICK i \in DOMAIN p.units : p.units[i] = u
  BY DEF ToSet
<1>2. u \in CodeUnit
  BY <1>1, UnitsAreList
<1> QED
  BY <1>1, <1>2, UnitFields, UnitsFollow

\* Units lie one behind the other: where they begin tells them apart.
LEMMA UnitsApart ==
    ASSUME NEW p \in Programs, NEW u \in ToSet(p.units), NEW w \in ToSet(p.units)
    PROVE  /\ <<u, w>> \in ByPlace <=> u.end < w.at
           /\ <<u, w>> \in ByPlace <=> u.at < w.at
           /\ u.at = w.at => u = w
<1>1. /\ u \in CodeUnit /\ u.at \in Int /\ u.end \in Int /\ u.at <= u.end
      /\ w \in CodeUnit /\ w.at \in Int /\ w.end \in Int /\ w.at <= w.end
  BY UnitIs
<1>2. /\ <<u, w>> \in ByPlace <=> u.end < w.at
      /\ <<w, u>> \in ByPlace <=> w.end < u.at
  BY <1>1 DEF ByPlace
<1>3. u # w => <<u, w>> \in ByPlace \/ <<w, u>> \in ByPlace
  BY UnitsAreList DEF Ordered
<1> QED
  BY <1>1, <1>2, <1>3

LEMMA CodeIsList ==
    ASSUME NEW p \in Programs, NEW offsets
    PROVE  /\ Ordered(Instructions(p, offsets), ByPlace)
           /\ Lists(CodeAt(p, offsets), Instructions(p, offsets), ByPlace)
<1> DEFINE I == {i \in DOMAIN p.units : p.units[i].kind = "instruction" /\ p.units[i].at \in offsets}
<1>1. {p.units[i] : i \in I} = Instructions(p, offsets)
  BY DEF Instructions, ToSet
<1>2. CodeAt(p, offsets) = Chosen(p.units, I)
  BY DEF CodeAt
<1>3. I \in SUBSET DOMAIN p.units
  OBVIOUS
<1> HIDE DEF I
<1> QED
  BY <1>1, <1>2, <1>3, UnitsAreList, ChosenLists

-----------------------------------------------------------------------------
(* How far a scan has come.                                                 *)

LEMMA Smallest ==
    ASSUME NEW T, T \subseteq Nat, T # {}
    PROVE  \E m \in T : \A n \in T : m <= n
<1>1. \A x, y \in Nat : x < y => <<x, y>> \in OpToRel(<, Nat)
  BY DEF OpToRel
<1>2. \E x \in T : \A y \in T : ~ (<<y, x>> \in OpToRel(<, Nat))
  BY NatLessThanWellFounded, WFMin, Zenon
<1>3. \E x \in T : \A y \in T : ~ (y < x)
  BY <1>1, <1>2, Zenon
<1> QED
  BY <1>3

LEMMA LeastIs ==
    ASSUME NEW T, T \subseteq Nat, T # {}
    PROVE  Min(T) \in T /\ Min(T) \in Nat /\ \A n \in T : Min(T) <= n
<1>1. \E m \in T : \A n \in T : m <= n
  BY Smallest
<1>2. Min(T) \in T /\ \A n \in T : Min(T) <= n
  BY <1>1, Zenon DEF Min
<1> QED
  BY <1>2

\* The rows of the scans.
RowSet ==
    CASE op \in Searches \cup {"get_listing"}  -> CodeUnit
      [] op \in Windows \cup {"list_comments"} -> Offset
      [] op = "get_references_range"           -> Offset \X Nat
\* The scans that a client can follow to their end: a window of similar functions only
\* when its result limit leaves none of it out.
Scanning(r) ==
    op \in Scans /\ (op = "find_similar_functions" => r.function_limit <= r.result_limit)
\* The row lies where r has still to look.
Ahead(r, row) ==
    CASE op = "get_listing"   -> row.end >= r.address
      [] op = "list_comments" -> row >= r.address
      [] op \in Searches      -> row.at >= From(r)
      [] op = "get_references_range" ->
            \/ row[1] > From(r)
            \/ row[1] = From(r) /\ (row[1] = r.cursor => row[2] > r.cursor_offset)
      [] op \in Windows       -> row > r.start_after
\* The request that goes on where r left off: what it wants is the part of what r wanted
\* that lies ahead, whatever the program.
GoesOn(r, next) ==
    /\ Valid(next) /\ Scanning(next)
    /\ \A x \in RowSet : Ahead(next, x) => Ahead(r, x)
    /\ \A q \in Programs : Wanted(q, next) = {x \in Wanted(q, r) : Ahead(next, x)}
\* What the bridge owes a scan: every row it wants, or those that lie before the request
\* that the answer goes on with.
ScanGiven(p, r, v) ==
    /\ v # <<>> /\ Rows(v) \in Seq(RowSet) /\ IsInjective(Rows(v))
    /\ GoOn(r, v) = {} => (Ends(v) => ToSet(Rows(v)) = Wanted(p, r))
    /\ GoOn(r, v) # {} => \E next :
        /\ GoOn(r, v) = {next} /\ GoesOn(r, next)
        /\ ToSet(Rows(v)) = {x \in Wanted(p, r) : ~ Ahead(next, x)}

LEMMA StepsAreNumbers == \A n \in ScanSteps : n \in Nat /\ n > 0
<1>1. MostSteps \in Nat
  BY SMT DEF MostSteps
<1> QED
  BY <1>1 DEF ScanSteps

LEMMA CodeMembers ==
    ASSUME NEW p \in Programs, NEW offsets
    PROVE  ToSet(CodeAt(p, offsets)) = Instructions(p, offsets)
  BY CodeIsList, ListIs

LEMMA NoneIsNoOffset == None \in Int /\ None \notin Offset /\ None < 0
  BY DEF None, Offset

LEMMA SearchParams ==
    ASSUME op \in Searches, NEW r, Valid(r)
    PROVE  /\ r.limit \in Nat /\ r.limit > 0 /\ r.scan_limit \in Nat /\ r.scan_limit > 0
           /\ r.start \in ScanOffset /\ r.end \in ScanOffset /\ r.cursor \in ScanOffset
           /\ ScanRange(r)
           /\ \A c \in ScanOffset : ScanRange([r EXCEPT !.cursor = c]) => Valid([r EXCEPT !.cursor = c])
           /\ \A c \in ScanOffset : LET next == [r EXCEPT !.cursor = c]
                                    IN next.start = r.start /\ next.end = r.end /\ next.cursor = c
<1>1. CASE op = "search_constants"
  <2>1. r \in SearchConstantsParams
    BY <1>1 DEF Valid
  <2>2. \A c : [r EXCEPT !.cursor = c] \in SearchConstantsParams => Valid([r EXCEPT !.cursor = c])
    BY <1>1 DEF Valid
  <2> QED
    BY <2>1, <2>2, StepsAreNumbers DEF SearchConstantsParams
<1>2. CASE op = "search_instructions"
  <2>1. r \in SearchInstructionsParams
    BY <1>2 DEF Valid
  <2>2. \A c : [r EXCEPT !.cursor = c] \in SearchInstructionsParams => Valid([r EXCEPT !.cursor = c])
    BY <1>2 DEF Valid
  <2> QED
    BY <2>1, <2>2, StepsAreNumbers DEF SearchInstructionsParams
<1>3. CASE op = "search_pcode"
  <2>1. r \in SearchPcodeParams
    BY <1>3 DEF Valid
  <2>2. \A c : [r EXCEPT !.cursor = c] \in SearchPcodeParams => Valid([r EXCEPT !.cursor = c])
    BY <1>3 DEF Valid
  <2> QED
    BY <2>1, <2>2, StepsAreNumbers DEF SearchPcodeParams
<1> QED
  BY <1>1, <1>2, <1>3 DEF Searches

\* A cursor moves the start of a search and nothing else.
LEMMA SearchMoves ==
    ASSUME op \in Searches, NEW r, Valid(r)
    PROVE  /\ From(r) \in Offset /\ Upto(r) \in Offset
           /\ \A c \in From(r)..Upto(r) :
                GoesOn(r, [r EXCEPT !.cursor = c]) /\ From([r EXCEPT !.cursor = c]) = c
<1>1. /\ r.start \in ScanOffset /\ r.end \in ScanOffset /\ r.cursor \in ScanOffset /\ ScanRange(r)
  BY SearchParams
<1>2. /\ From(r) \in Offset /\ Upto(r) \in Offset
      /\ r.start # None => From(r) \in r.start..r.end /\ Upto(r) = r.end
  BY <1>1, OffsetsAreNumbers, OffsetIs DEF ScanOffset, ScanRange, From, Upto, Offset
<1>3. ASSUME NEW c \in From(r)..Upto(r)
      PROVE  GoesOn(r, [r EXCEPT !.cursor = c]) /\ From([r EXCEPT !.cursor = c]) = c
  <2> DEFINE next == [r EXCEPT !.cursor = c]
  <2>0. From(r) \in Int /\ Upto(r) \in Int /\ MaxOffset \in Nat
    BY <1>2, OffsetsAreNumbers
  <2>1. c \in Offset /\ c # None /\ c >= From(r)
    BY <1>2, <2>0, NoneIsNoOffset DEF Offset
  <2>2. next.start = r.start /\ next.end = r.end /\ next.cursor = c
    BY <2>1, SearchParams DEF ScanOffset
  <2>3. ScanRange(next)
    BY <1>1, <1>2, <2>0, <2>1, <2>2, OffsetIs DEF ScanRange, ScanOffset
  <2>4. Valid(next)
    BY <2>1, <2>3, SearchParams DEF ScanOffset
  <2> HIDE DEF next
  <2>5. From(next) = c /\ Upto(next) = Upto(r)
    BY <2>1, <2>2 DEF From, Upto
  <2>6. Scanning(next)
    BY DEF Scanning, Scans, Searches
  <2>7. ASSUME NEW x \in RowSet, Ahead(next, x)
        PROVE  Ahead(r, x)
    <3>1. x \in CodeUnit
      BY <2>7 DEF RowSet, Searches, Windows
    <3>2. x.at >= c
      BY <2>5, <2>7 DEF Ahead, Searches, Windows
    <3>3. x.at >= From(r)
      BY <2>0, <2>1, <3>1, <3>2, UnitFields
    <3> QED
      BY <3>3 DEF Ahead, Searches, Windows
  <2>8. ASSUME NEW q \in Programs
        PROVE  Wanted(q, next) = {x \in Wanted(q, r) : Ahead(next, x)}
    <3>1. /\ Wanted(q, next) = {u \in ToSet(Code(q)) : u.at \in q.marks \cap (c..Upto(r))}
          /\ Wanted(q, r) = {u \in ToSet(Code(q)) : u.at \in q.marks \cap (From(r)..Upto(r))}
      BY <2>5 DEF Wanted, Pages, Searches
    <3>2. \A x : Ahead(next, x) = (x.at >= c)
      BY <2>5 DEF Ahead, Searches, Windows
    <3>3. \A u \in ToSet(Code(q)) : u.at \in Int
      BY CodeMembers, UnitIs DEF Code, Instructions
    <3>4. \A n \in Int : n \in c..Upto(r) <=> n \in From(r)..Upto(r) /\ n >= c
      BY <2>0, <2>1
    <3> QED
      BY <3>1, <3>2, <3>3, <3>4
  <2>9. GoesOn(r, next)
    BY <2>4, <2>6, <2>7, <2>8 DEF GoesOn
  <2> QED
    BY <2>5, <2>9 DEF next
<1> QED
  BY <1>2, <1>3

\* What is kept of the first m members of a list: those of K that lie before the next one.
Places(s, K, m) == {i \in 1..m : s[i] \in K}
Hits(s, K, m)   == Chosen(s, Places(s, K, m))
HitsGiven(s, S, R, K, m) ==
    /\ Hits(s, K, m) \in Seq(S) /\ IsInjective(Hits(s, K, m))
    /\ Len(Hits(s, K, m)) \in Nat /\ DOMAIN Hits(s, K, m) = 1..Len(Hits(s, K, m))
    /\ Len(Hits(s, K, m)) = Cardinality(Places(s, K, m))
    /\ \A i \in DOMAIN Hits(s, K, m) : Hits(s, K, m)[i] \in K
    /\ \A j, k \in DOMAIN Hits(s, K, m) : j < k => <<Hits(s, K, m)[j], Hits(s, K, m)[k]>> \in R
    /\ m = Len(s) => ToSet(Hits(s, K, m)) = K
    /\ m < Len(s) => /\ s[m + 1] \in S
                     /\ ToSet(Hits(s, K, m)) = {x \in K : <<x, s[m + 1]>> \in R}
\* The hits among the first m members: those of K that come before the next one.
LEMMA HitsLists ==
    ASSUME NEW s, NEW S, NEW R, Ordered(S, R), Lists(s, S, R), NEW K \in SUBSET S,
           NEW m \in 0..Len(s)
    PROVE  HitsGiven(s, S, R, K, m)
<1> DEFINE I == {i \in 1..m : s[i] \in K}
           T == {s[i] : i \in I}
           h == Chosen(s, I)
<1>1. Len(s) \in Nat /\ DOMAIN s = 1..Len(s) /\ I \in SUBSET DOMAIN s
  BY ListIs
<1>2. Ordered(T, R) /\ Lists(h, T, R) /\ Len(h) = Cardinality(I)
  <2> HIDE DEF I
  <2> QED
    BY <1>1, ChosenLists
<1>3. T = K \cap {s[i] : i \in 1..m}
  OBVIOUS
<1>4. m = Len(s) => T = K
  <2>1. m = Len(s) => {s[i] : i \in 1..m} = S
    BY CutList
  <2> QED
    BY <1>3, <2>1
<1>5. m < Len(s) => s[m + 1] \in S /\ T = {x \in K : <<x, s[m + 1]>> \in R}
  <2>1. m < Len(s) => s[m + 1] \in S /\ {s[i] : i \in 1..m} = {x \in S : <<x, s[m + 1]>> \in R}
    BY CutList
  <2> QED
    BY <1>3, <2>1
<1>6. T \subseteq K
  BY <1>3
<1> HIDE DEF T, I, h
<1>7. /\ Len(h) \in Nat /\ DOMAIN h = 1..Len(h)
      /\ h \in Seq(T) /\ ToSet(h) = T /\ IsInjective(h)
      /\ \A i \in DOMAIN h : h[i] \in T
      /\ \A j, k \in DOMAIN h : <<h[j], h[k]>> \in R <=> j < k
  BY <1>2, ListIs
<1>8. h \in Seq(S)
  BY <1>6, <1>7, SeqMonotonic
<1> QED
  BY <1>2, <1>4, <1>5, <1>6, <1>7, <1>8 DEF h, I, Places, Hits, HitsGiven

LEMMA HitsCount ==
    ASSUME NEW s, NEW K, NEW m \in Nat, NEW limit \in Nat, limit > 0,
           \A k \in 1..(m - 1) : Cardinality(Places(s, K, k)) # limit
    PROVE  Cardinality(Places(s, K, m)) <= limit /\ Cardinality(Places(s, K, m)) <= m
<1> DEFINE I(k) == Places(s, K, k)
           count(k) == Cardinality(I(k))
<1>1. ASSUME NEW k \in Nat
      PROVE  IsFiniteSet(I(k)) /\ count(k) \in Nat /\ count(k) <= k
  <2>1. IsFiniteSet(1..k) /\ Cardinality(1..k) = k
    BY FS_Interval
  <2>2. I(k) \in SUBSET (1..k)
    BY DEF Places
  <2> HIDE DEF I
  <2>3. IsFiniteSet(I(k)) /\ Cardinality(I(k)) <= k
    BY <2>1, <2>2, FS_Subset
  <2> QED
    BY <2>3, FS_CardinalityType
<1>2. ASSUME NEW k \in Nat
      PROVE  count(k + 1) <= count(k) + 1
  <2>1. I(k + 1) \in SUBSET (I(k) \cup {k + 1})
    BY DEF Places
  <2>2. IsFiniteSet(I(k)) /\ count(k) \in Nat
    BY <1>1
  <2> HIDE DEF I
  <2>3. /\ IsFiniteSet(I(k) \cup {k + 1})
        /\ Cardinality(I(k) \cup {k + 1}) <= Cardinality(I(k)) + 1
    BY <2>2, FS_AddElement
  <2>4. Cardinality(I(k + 1)) <= Cardinality(I(k) \cup {k + 1})
    BY <2>1, <2>3, FS_Subset
  <2>5. /\ Cardinality(I(k + 1)) \in Nat /\ Cardinality(I(k) \cup {k + 1}) \in Nat
        /\ Cardinality(I(k)) \in Nat
    BY <1>1, <2>3, FS_CardinalityType DEF count
  <2> QED
    BY <2>3, <2>4, <2>5
<1>3. \A k \in 1..(m - 1) : count(k) # limit
  OBVIOUS
<1> HIDE DEF count
<1>4. count(m) <= limit
  <2> SUFFICES ASSUME ~ (count(m) <= limit)
               PROVE  FALSE
    OBVIOUS
  <2> DEFINE T == {k \in Nat : k <= m /\ count(k) > limit}
  <2>0. \A k \in Nat : count(k) \in Nat /\ count(k) <= k
    BY <1>1
  <2>1. m \in T
    <3>1. count(m) \in Nat
      BY <2>0
    <3>2. count(m) > limit
      BY <3>1
    <3> QED
      BY <3>2
  <2>2. PICK k \in T : \A n \in T : k <= n
    BY <2>1, Smallest
  <2>3. k \in Nat /\ k <= m /\ count(k) > limit
    BY <2>2
  <2>4. k # 0
    <3>1. count(0) <= 0 /\ count(0) \in Nat
      BY <2>0
    <3> QED
      BY <2>3, <3>1
  <2> DEFINE j == k - 1
  <2>5. j \in Nat /\ k = j + 1 /\ j < k /\ j <= m
    BY <2>3, <2>4
  <2>6. ~ (count(j) > limit)
    BY <2>2, <2>5
  <2>7. count(j) \in Nat /\ count(k) \in Nat /\ count(k) <= count(j) + 1 /\ count(j) <= j
    BY <1>1, <1>2, <2>5
  <2>8. count(j) = limit
    <3> HIDE DEF j
    <3> QED
      BY <2>3, <2>6, <2>7
  <2>9. j \in 1..(m - 1)
    <3> HIDE DEF j
    <3> QED
      BY <2>3, <2>5, <2>7, <2>8
  <2> QED
    BY <1>3, <2>8, <2>9
<1> QED
  BY <1>1, <1>4 DEF count

\* search_constants, search_instructions, search_pcode: the hits among the first instructions.
LEMMA SearchGives ==
    ASSUME op \in Searches, NEW p \in Programs, NEW r, Valid(r), NEW time \in Nat
    PROVE  ScanGiven(p, r, Answer(p, r, time)) /\ Accepts(r, Answer(p, r, time))
<1> DEFINE v == Answer(p, r, time)
           range == From(r)..Upto(r)
           ins == CodeAt(p, range)
           S == Instructions(p, range)
           n == Len(ins)
           K == {u \in S : u.at \in p.marks}
           hits(k) == Chosen(ins, {i \in 1..k : ins[i].at \in p.marks})
           full == {k \in DOMAIN ins : Len(hits(k)) = r.limit}
           m == Least({n, time, r.scan_limit} \cup full)
           reason == IF m = n THEN "none"
                     ELSE IF m = time THEN "time_limit"
                     ELSE IF m \in full THEN "result_limit" ELSE "scan_limit"
           cursor == IF reason = "none" THEN None ELSE ins[m + 1].at
           next == [r EXCEPT !.cursor = ins[m + 1].at]
<1>1. v = [rows |-> hits(m), scanned |-> m, status |-> Status(reason), cursor |-> cursor]
  BY DEF Answer, Searches, Search, CursorAfter
<1>2. /\ r.limit \in Nat /\ r.limit > 0 /\ r.scan_limit \in Nat /\ r.cursor \in ScanOffset
      /\ ScanRange(r) /\ From(r) \in Offset /\ Upto(r) \in Offset
      /\ \A c \in range : GoesOn(r, [r EXCEPT !.cursor = c]) /\ From([r EXCEPT !.cursor = c]) = c
  BY SearchParams, SearchMoves
<1>3. Ordered(S, ByPlace) /\ Lists(ins, S, ByPlace)
  BY CodeIsList
<1>4. n \in Nat /\ DOMAIN ins = 1..n /\ \A i \in 1..n : ins[i] \in S
  BY <1>3, ListIs
<1>5. /\ S = {u \in ToSet(p.units) : u.kind = "instruction" /\ u.at \in range}
      /\ S \subseteq ToSet(p.units)
  BY DEF Instructions
<1>6. \A k \in Nat : k <= n => {i \in 1..k : ins[i].at \in p.marks} = Places(ins, K, k)
  <2> HIDE DEF S, ins, n
  <2> QED
    BY <1>4 DEF Places
<1> HIDE DEF v, ins, S, n, range, K
<1>7. m \in Nat /\ m <= n /\ m <= r.scan_limit /\ \A k \in full : m <= k
  <2> DEFINE T == {n, time, r.scan_limit} \cup full
  <2>1. T \subseteq Nat /\ T # {} /\ n \in T /\ r.scan_limit \in T
    BY <1>2, <1>4
  <2> HIDE DEF T
  <2>2. Min(T) \in Nat /\ \A k \in T : Min(T) <= k
    BY <2>1, LeastIs
  <2> QED
    BY <2>1, <2>2 DEF Least, T
<1> DEFINE h == Hits(ins, K, m)
<1>8. hits(m) = h
  BY <1>6, <1>7 DEF Hits
<1>9. \A k \in 1..(m - 1) : Cardinality(Places(ins, K, k)) # r.limit
  <2> TAKE k \in 1..(m - 1)
  <2>1. k \in DOMAIN ins /\ k \in Nat /\ k <= n /\ k \in 0..n /\ ~ (m <= k)
    <3> HIDE DEF m
    <3> QED
      BY <1>4, <1>7
  <2>2. Len(hits(k)) # r.limit
    <3>1. k \notin full
      BY <1>7, <2>1
    <3> QED
      BY <2>1, <3>1
  <2>3. hits(k) = Hits(ins, K, k)
    BY <1>6, <2>1 DEF Hits
  <2>4. K \in SUBSET S
    BY DEF K
  <2>5. Len(Hits(ins, K, k)) = Cardinality(Places(ins, K, k))
    <3>1. k \in 0..Len(ins)
      BY <2>1 DEF n
    <3>2. HitsGiven(ins, S, ByPlace, K, k)
      BY <1>3, <2>4, <3>1, HitsLists
    <3> QED
      BY <3>2 DEF HitsGiven
  <2> QED
    BY <2>2, <2>3, <2>5
<1>c. reason # "none" => m < n /\ reason \in {"scan_limit", "result_limit", "time_limit"}
  BY <1>4, <1>7
<1>d. m < n => reason # "none"
  BY <1>4, <1>7
<1> HIDE DEF m, hits, reason
<1>10. /\ h \in Seq(S) /\ IsInjective(h) /\ Len(h) \in Nat /\ DOMAIN h = 1..Len(h)
       /\ Len(h) = Cardinality(Places(ins, K, m))
       /\ \A i \in DOMAIN h : h[i] \in K
       /\ \A j, k \in DOMAIN h : j < k => <<h[j], h[k]>> \in ByPlace
       /\ m = n => ToSet(h) = K
       /\ m < n => ins[m + 1] \in S /\ ToSet(h) = {x \in K : <<x, ins[m + 1]>> \in ByPlace}
  <2>1. K \in SUBSET S
    BY DEF K
  <2>2. m \in 0..n
    BY <1>4, <1>7
  <2> QED
    <3>1. m \in 0..Len(ins)
      BY <2>2 DEF n
    <3>2. HitsGiven(ins, S, ByPlace, K, m)
      BY <1>3, <2>1, <3>1, HitsLists
    <3> QED
      BY <3>2 DEF HitsGiven, n
<1>11. Len(h) <= r.limit /\ Len(h) <= m
  BY <1>2, <1>7, <1>9, <1>10, HitsCount
<1> HIDE DEF h
<1>12. \A u \in S : u \in ToSet(p.units) /\ u \in CodeUnit /\ u.at \in range /\ u.at \in Int
  BY <1>5, UnitIs
<1>13. Wanted(p, r) = K
  <2>1. Wanted(p, r) = {u \in ToSet(Code(p)) : u.at \in p.marks \cap range}
    BY DEF Wanted, Pages, Searches, range
  <2>2. ToSet(Code(p)) = {u \in ToSet(p.units) : u.kind = "instruction" /\ u.at \in Offset}
    BY CodeMembers DEF Code, Instructions
  <2>3. range \subseteq Offset
    BY <1>2, OffsetsAreNumbers DEF range, Offset
  <2> QED
    BY <1>5, <2>1, <2>2, <2>3 DEF K
<1>14. /\ Rows(v) = h /\ v.rows = h /\ v.cursor = cursor /\ v.scanned = m
       /\ v.status = Status(reason)
  BY <1>1, <1>8 DEF Rows, Searches
<1>15. v # <<>>
  BY <1>1
<1>16. Rows(v) \in Seq(RowSet) /\ IsInjective(Rows(v))
  <2>1. S \subseteq RowSet
    BY <1>12 DEF RowSet, Searches, Windows
  <2>2. Seq(S) \subseteq Seq(RowSet)
    BY <2>1, SeqMonotonic
  <2> QED
    BY <1>10, <1>14, <2>2
<1>17. GoOn(r, v) = IF cursor # None THEN {[r EXCEPT !.cursor = cursor]} ELSE {}
  BY <1>14 DEF GoOn, Searches, Pages, Windows
<1>18. m = n => GoOn(r, v) = {} /\ ToSet(Rows(v)) = Wanted(p, r)
  <2> SUFFICES ASSUME m = n
               PROVE  GoOn(r, v) = {} /\ ToSet(Rows(v)) = Wanted(p, r)
    OBVIOUS
  <2>1. reason = "none"
    BY <1>4, <1>c
  <2> QED
    BY <1>10, <1>13, <1>14, <1>17, <2>1
<1>19. m < n => /\ cursor = ins[m + 1].at /\ cursor \in range /\ cursor # None
                /\ GoOn(r, v) = {next} /\ GoesOn(r, next)
                /\ ToSet(Rows(v)) = {x \in Wanted(p, r) : ~ Ahead(next, x)}
  <2> SUFFICES ASSUME m < n
               PROVE  /\ cursor = ins[m + 1].at /\ cursor \in range /\ cursor # None
                      /\ GoOn(r, v) = {next} /\ GoesOn(r, next)
                      /\ ToSet(Rows(v)) = {x \in Wanted(p, r) : ~ Ahead(next, x)}
    OBVIOUS
  <2>1. ins[m + 1] \in S /\ cursor = ins[m + 1].at
    BY <1>10, <1>d
  <2>2. cursor \in range /\ cursor # None /\ cursor \in Int
    BY <1>2, <1>12, <2>1, OffsetsAreNumbers, NoneIsNoOffset DEF range, Offset
  <2>3. GoOn(r, v) = {next}
    BY <1>17, <2>1, <2>2
  <2>4. GoesOn(r, next) /\ From(next) = cursor
    BY <1>2, <2>1, <2>2
  <2> HIDE DEF next, cursor
  <2>5. \A x : Ahead(next, x) <=> x.at >= cursor
    BY <2>4 DEF Ahead, Searches, Windows
  <2>6. \A x \in K : <<x, ins[m + 1]>> \in ByPlace <=> x.at < cursor
    BY <1>12, <2>1, UnitsApart DEF K
  <2>7. \A x \in K : x.at \in Int
    BY <1>12 DEF K
  <2>8. {x \in K : <<x, ins[m + 1]>> \in ByPlace} = {x \in K : ~ Ahead(next, x)}
    BY <2>2, <2>5, <2>6, <2>7
  <2> QED
    BY <1>10, <1>13, <1>14, <2>1, <2>2, <2>3, <2>4, <2>8
<1>20. ScanGiven(p, r, v)
  <2>1. m = n \/ m < n
    BY <1>4, <1>7
  <2> HIDE DEF next
  <2> QED
    BY <1>15, <1>16, <1>18, <1>19, <2>1 DEF ScanGiven
<1>21. Accepts(r, v)
  <2>1. /\ v.status.reason = reason
        /\ v.status.truncated = (reason # "none")
    BY <1>14 DEF Status
  <2>2. Early(v, {"scan_limit", "result_limit", "time_limit"})
    BY <1>c, <2>1 DEF Early
  <2>3. \A at \in range : Within(r, at)
    <3>1. From(r) \in Int /\ Upto(r) \in Int
      BY <1>2, OffsetsAreNumbers
    <3>2. r.cursor # None => From(r) = r.cursor
      BY DEF From
    <3>3. r.start # None => From(r) \in r.start..r.end /\ Upto(r) = r.end
      <4>1. r.start # None => r.start \in Int /\ r.end \in Int
        BY SearchParams, OffsetIs DEF ScanOffset, ScanRange
      <4> QED
        BY <1>2, <4>1 DEF ScanRange, From, Upto
    <3>4. ASSUME NEW at \in range
          PROVE  Within(r, at)
      <4>1. at \in Int /\ at >= From(r) /\ at <= Upto(r)
        BY <3>1 DEF range
      <4>2. r.start # None => at \in r.start..r.end
        <5> SUFFICES ASSUME r.start # None
                     PROVE  at \in r.start..r.end
          OBVIOUS
        <5>1. r.start \in Int /\ r.end \in Int /\ From(r) \in r.start..r.end /\ Upto(r) = r.end
          BY <3>3, SearchParams, OffsetIs DEF ScanOffset, ScanRange
        <5> QED
          BY <3>1, <4>1, <5>1
      <4> QED
        BY <3>2, <4>1, <4>2 DEF Within
    <3> QED
      BY <3>4
  <2>4. \A i \in DOMAIN h : Within(r, h[i].at) /\ (i > 1 => h[i - 1].at < h[i].at)
    <3> TAKE i \in DOMAIN h
    <3>1. h[i] \in S
      BY <1>10 DEF K
    <3>2. i > 1 => h[i - 1].at < h[i].at
      <4> SUFFICES ASSUME i > 1
                   PROVE  h[i - 1].at < h[i].at
        OBVIOUS
      <4>1. i - 1 \in DOMAIN h /\ i - 1 < i
        BY <1>10
      <4>2. <<h[i - 1], h[i]>> \in ByPlace
        BY <1>10, <4>1
      <4>3. h[i - 1] \in S
        BY <1>10, <4>1 DEF K
      <4> QED
        BY <1>12, <3>1, <4>2, <4>3, UnitsApart
    <3> QED
      BY <1>12, <2>3, <3>1, <3>2
  <2>5. reason # "none" => Within(r, cursor) /\ (h # <<>> => h[Len(h)].at < cursor)
    <3> SUFFICES ASSUME reason # "none"
                 PROVE  Within(r, cursor) /\ (h # <<>> => h[Len(h)].at < cursor)
      OBVIOUS
    <3>1. m < n /\ cursor = ins[m + 1].at /\ cursor \in range
      BY <1>c, <1>19
    <3> HIDE DEF cursor
    <3>2. h # <<>> => Len(h) \in DOMAIN h
      <4>1. h # <<>> => Len(h) # 0
        BY <1>10, EmptySeq, SeqEqual
      <4> QED
        BY <1>10, <4>1
    <3>3. \A i \in DOMAIN h : h[i].at < cursor
      <4> TAKE i \in DOMAIN h
      <4>1. h[i] \in K /\ <<h[i], ins[m + 1]>> \in ByPlace /\ ins[m + 1] \in S
        BY <1>10, <3>1 DEF ToSet
      <4> QED
        BY <1>12, <3>1, <4>1, UnitsApart DEF K
    <3> QED
      BY <2>3, <3>1, <3>2, <3>3
  <2>6. AcceptsSearch(r, v)
    <3> HIDE DEF cursor
    <3> QED
      BY <1>7, <1>11, <1>14, <2>1, <2>2, <2>4, <2>5 DEF AcceptsSearch
  <2> QED
    BY <2>6 DEF Accepts, Searches
<1> QED
  BY <1>20, <1>21 DEF v

LEMMA SpansAreNumbers == MemorySpan \in Nat /\ ListingSpan \in Nat
  BY SMT DEF MemorySpan, ListingSpan

LEMMA SpanIs ==
    ASSUME NEW max \in Nat, NEW r
    PROVE  InSpan(r, max) <=>
                /\ r.address \in Offset /\ r.length \in 1..max
                /\ r.address + r.length - 1 <= MaxOffset
  BY DEF InSpan, Span, Fits

LEMMA SpanParams ==
    ASSUME op \in {"get_listing", "list_comments"}, NEW r, Valid(r)
    PROVE  /\ r.limit \in Nat /\ r.limit > 0
           /\ r.address \in Offset /\ r.address \in Int /\ r.length \in Nat /\ r.length > 0
           /\ EndOf(r) \in Offset /\ EndOf(r) \in Int /\ EndOf(r) >= r.address
<1>0. \A at \in Offset : \A n \in Nat : n > 0 /\ at + n - 1 <= MaxOffset =>
        at \in Int /\ at + n - 1 \in Offset /\ at + n - 1 \in Int /\ at + n - 1 >= at
  BY OffsetsAreNumbers DEF Offset
<1>1. CASE op = "get_listing"
  <2>1. r \in ListingParams
    BY <1>1 DEF Valid
  <2>2. r.limit \in 1..256 /\ InSpan(r, ListingSpan)
    BY <2>1 DEF ListingParams
  <2>3. /\ r.address \in Offset /\ r.length \in 1..ListingSpan
        /\ r.address + r.length - 1 <= MaxOffset
    BY <2>2, SpanIs, SpansAreNumbers
  <2> QED
    BY <1>0, <2>2, <2>3, SpansAreNumbers DEF EndOf
<1>2. CASE op = "list_comments"
  <2>1. r \in ListCommentsParams
    BY <1>2 DEF Valid
  <2>2. r.limit \in 1..128 /\ InSpan(r, MemorySpan)
    BY <2>1 DEF ListCommentsParams
  <2>3. /\ r.address \in Offset /\ r.length \in 1..MemorySpan
        /\ r.address + r.length - 1 <= MaxOffset
    BY <2>2, SpanIs, SpansAreNumbers
  <2> QED
    BY <1>0, <2>2, <2>3, SpansAreNumbers DEF EndOf
<1> QED
  BY <1>1, <1>2

\* A next address moves the start of a span and keeps its end.
LEMMA SpanMoves ==
    ASSUME op \in {"get_listing", "list_comments"}, NEW r, Valid(r),
           NEW c \in r.address..EndOf(r)
    PROVE  /\ GoesOn(r, RestOfRange(r, c)) /\ RestOfRange(r, c).address = c
           /\ c \in Offset /\ c \in Int /\ c # Absent
<1> DEFINE next == RestOfRange(r, c)
           rest == EndOf(r) - c + 1
<1>1. /\ r.address \in Offset /\ r.address \in Int /\ r.length \in Nat
      /\ EndOf(r) \in Offset /\ EndOf(r) \in Int /\ EndOf(r) = r.address + r.length - 1
  BY SpanParams DEF EndOf
<1>2. /\ c \in Offset /\ c \in Int /\ c # Absent /\ c >= r.address
      /\ rest \in Nat /\ rest > 0 /\ rest <= r.length /\ c + rest - 1 = EndOf(r)
  BY <1>1, OffsetsAreNumbers DEF Offset, Absent
<1>3. CASE op = "get_listing"
  <2>1. r \in ListingParams
    BY <1>3 DEF Valid
  <2>2. /\ r \in [address : Offset, length : 1..ListingSpan, limit : 1..256]
        /\ r.length \in 1..ListingSpan
    BY <2>1 DEF ListingParams
  <2>3. /\ next = [r EXCEPT !.address = c, !.length = rest]
        /\ next.address = c /\ next.length = rest
    BY <2>2 DEF RestOfRange
  <2>4. rest \in 1..ListingSpan
    BY <1>2, <2>2, SpansAreNumbers
  <2>5. next \in [address : Offset, length : 1..ListingSpan, limit : 1..256]
    BY <1>2, <2>2, <2>3, <2>4
  <2>6. EndOf(next) = EndOf(r)
    BY <1>2, <2>3 DEF EndOf
  <2> HIDE DEF next, rest
  <2>7. Valid(next)
    <3>1. InSpan(next, ListingSpan)
      BY <1>1, <1>2, <2>3, <2>4, OffsetIs, SpanIs, SpansAreNumbers
    <3>2. next \in ListingParams
      BY <2>5, <3>1 DEF ListingParams
    <3> QED
      BY <1>3, <3>2 DEF Valid
  <2>8. ASSUME NEW x \in RowSet, Ahead(next, x)
        PROVE  Ahead(r, x)
    <3>1. x \in CodeUnit
      BY <1>3 DEF RowSet, Searches, Windows
    <3>2. x.end >= c
      BY <1>3, <2>3, <2>8 DEF Ahead, Searches, Windows
    <3>3. x.end >= r.address
      BY <1>1, <1>2, <3>1, <3>2, UnitFields
    <3> QED
      BY <1>3, <3>3 DEF Ahead, Searches, Windows
  <2>9. ASSUME NEW q \in Programs
        PROVE  Wanted(q, next) = {x \in Wanted(q, r) : Ahead(next, x)}
    <3>1. /\ Wanted(q, next) = {u \in ToSet(q.units) : u.end >= c /\ u.at <= EndOf(r)}
          /\ Wanted(q, r) = {u \in ToSet(q.units) : u.end >= r.address /\ u.at <= EndOf(r)}
      BY <1>3, <2>3, <2>6 DEF Wanted, Pages, Searches
    <3>2. \A x : Ahead(next, x) = (x.end >= c)
      BY <1>3, <2>3 DEF Ahead, Searches, Windows
    <3>3. \A u \in ToSet(q.units) : u.end >= c => u.end >= r.address
      BY <1>1, <1>2, UnitIs
    <3> QED
      BY <3>1, <3>2, <3>3
  <2>10. Scanning(next)
    BY <1>3 DEF Scanning, Scans
  <2>11. GoesOn(r, next)
    BY <2>7, <2>8, <2>9, <2>10 DEF GoesOn
  <2> QED
    BY <1>2, <2>3, <2>11 DEF next
<1>4. CASE op = "list_comments"
  <2> DEFINE P == [address : Offset, length : 1..MemorySpan, comment_type : StoredCommentType,
                   query : Optional(Text(256)), limit : 1..128]
  <2>1. r \in ListCommentsParams
    BY <1>4 DEF Valid
  <2>2. r \in P /\ r.length \in 1..MemorySpan
    BY <2>1 DEF ListCommentsParams
  <2>3. /\ next = [r EXCEPT !.address = c, !.length = rest]
        /\ next.address = c /\ next.length = rest /\ next.query = r.query
    BY <2>2 DEF RestOfRange
  <2>4. rest \in 1..MemorySpan
    BY <1>2, <2>2, SpansAreNumbers
  <2>5. next \in P
    BY <1>2, <2>2, <2>3, <2>4
  <2>6. EndOf(next) = EndOf(r)
    BY <1>2, <2>3 DEF EndOf
  <2> HIDE DEF next, rest
  <2>7. Valid(next)
    <3>1. InSpan(next, MemorySpan)
      BY <1>1, <1>2, <2>3, <2>4, OffsetIs, SpanIs, SpansAreNumbers
    <3>2. next \in ListCommentsParams
      BY <2>5, <3>1 DEF ListCommentsParams
    <3> QED
      BY <1>4, <3>2 DEF Valid
  <2>8. ASSUME NEW x \in RowSet, Ahead(next, x)
        PROVE  Ahead(r, x)
    <3>1. x \in Offset
      BY <1>4 DEF RowSet, Searches, Windows
    <3>2. x >= c
      BY <1>4, <2>3, <2>8 DEF Ahead, Searches, Windows
    <3>3. x >= r.address
      BY <1>1, <1>2, <3>1, <3>2, OffsetsAreNumbers
    <3> QED
      BY <1>4, <3>3 DEF Ahead, Searches, Windows
  <2>9. ASSUME NEW q \in Programs
        PROVE  Wanted(q, next) = {x \in Wanted(q, r) : Ahead(next, x)}
    <3>1. /\ Wanted(q, next) = {m \in q.marks : m \in c..EndOf(r) /\ TextContains(r.query, m)}
          /\ Wanted(q, r) = {m \in q.marks : m \in r.address..EndOf(r) /\ TextContains(r.query, m)}
      BY <1>4, <2>3, <2>6 DEF Wanted, Pages, Searches
    <3>2. \A x : Ahead(next, x) = (x >= c)
      BY <1>4, <2>3 DEF Ahead, Searches, Windows
    <3>3. \A m \in q.marks : m \in c..EndOf(r) <=> m \in r.address..EndOf(r) /\ m >= c
      BY <1>1, <1>2, MarksAreNumbers
    <3> QED
      BY <3>1, <3>2, <3>3
  <2>10. Scanning(next)
    BY <1>4 DEF Scanning, Scans
  <2>11. GoesOn(r, next)
    BY <2>7, <2>8, <2>9, <2>10 DEF GoesOn
  <2> QED
    BY <1>2, <2>3, <2>11 DEF next
<1> QED
  BY <1>3, <1>4

\* list_comments: the comments up to the one after which next_address lies.
LEMMA CommentsGive ==
    ASSUME op = "list_comments", NEW p \in Programs, NEW r, Valid(r), NEW time \in Nat
    PROVE  ScanGiven(p, r, Answer(p, r, time)) /\ Accepts(r, Answer(p, r, time))
<1> DEFINE v == Answer(p, r, time)
           S == {m \in p.marks : m \in r.address..EndOf(r)}
           stored == Ascending(S)
           n == Len(stored)
           K == {x \in S : TextContains(r.query, x)}
           found(k) == Chosen(stored, {i \in 1..k : TextContains(r.query, stored[i])})
           full == {k \in DOMAIN stored : Len(found(k)) = r.limit}
           m == Min({ScanLimit, n} \cup full)
           more == m < n
           next == RestOfRange(r, stored[m] + 1)
           h == Hits(stored, K, m)
<1>1. v = [address |-> r.address, end |-> EndOf(r), comment_type |-> r.comment_type,
           rows |-> found(m), scanned |-> m, truncated |-> more,
           next_address |-> IF more THEN NextOffset(stored[m]) ELSE Absent]
  BY DEF Answer, Searches, Comments, AfterMark
<1>2. /\ r.limit \in Nat /\ r.limit > 0 /\ ScanLimit \in Nat /\ ScanLimit > 0
      /\ r.address \in Int /\ EndOf(r) \in Int /\ EndOf(r) \in Offset
  BY SpanParams, UtilityAssumption
<1>3. Ordered(S, ByNumber) /\ Lists(stored, S, ByNumber) /\ S \in SUBSET Int
  <2>1. S \in SUBSET p.marks
    OBVIOUS
  <2> HIDE DEF S
  <2> QED
    BY <2>1, MarksAreNumbers, AscendingIsList
<1>4. n \in Nat /\ DOMAIN stored = 1..n /\ \A i \in 1..n : stored[i] \in S
  <2> HIDE DEF S, stored
  <2> QED
    BY <1>3, ListIs
<1>5. \A k \in Nat : k <= n => {i \in 1..k : TextContains(r.query, stored[i])} = Places(stored, K, k)
  <2> HIDE DEF S, stored, n
  <2> QED
    BY <1>4 DEF Places
<1>6. K \in SUBSET S
  OBVIOUS
<1>7. Wanted(p, r) = K
  BY DEF Wanted, Pages, Searches
<1>s. \A x \in S : x \in Int /\ x >= r.address /\ x <= EndOf(r) /\ x \in Offset
  <2>1. p.marks \subseteq Offset
    BY ProgramIs
  <2> QED
    BY <1>2, <2>1, OffsetsAreNumbers
<1> HIDE DEF v, stored, S, n, K
<1>8. m \in Nat /\ m <= n /\ m <= ScanLimit /\ (\A k \in full : m <= k) /\ (m = 0 => n = 0)
  <2> DEFINE T == {ScanLimit, n} \cup full
  <2>1. T \subseteq Nat /\ T # {} /\ n \in T /\ ScanLimit \in T
    BY <1>2, <1>4
  <2>2. \A k \in T : k = 0 => n = 0
    BY <1>2, <1>4
  <2> HIDE DEF T
  <2>3. Min(T) \in Nat /\ Min(T) \in T /\ \A k \in T : Min(T) <= k
    BY <2>1, LeastIs
  <2> QED
    BY <2>1, <2>2, <2>3 DEF T
<1>9. found(m) = h
  BY <1>5, <1>8 DEF Hits
<1>10. \A k \in 1..(m - 1) : Cardinality(Places(stored, K, k)) # r.limit
  <2> TAKE k \in 1..(m - 1)
  <2>1. k \in DOMAIN stored /\ k \in Nat /\ k <= n /\ k \in 0..n /\ ~ (m <= k)
    <3> HIDE DEF m
    <3> QED
      BY <1>4, <1>8
  <2>2. Len(found(k)) # r.limit
    <3>1. k \notin full
      BY <1>8, <2>1
    <3> QED
      BY <2>1, <3>1
  <2>3. found(k) = Hits(stored, K, k)
    BY <1>5, <2>1 DEF Hits
  <2>4. HitsGiven(stored, S, ByNumber, K, k)
    <3>1. k \in 0..Len(stored)
      BY <2>1 DEF n
    <3> QED
      BY <1>3, <1>6, <3>1, HitsLists
  <2> QED
    BY <2>2, <2>3, <2>4 DEF HitsGiven
<1> HIDE DEF m, found
<1>11. HitsGiven(stored, S, ByNumber, K, m)
  <2>1. m \in 0..Len(stored)
    BY <1>4, <1>8 DEF n
  <2> QED
    BY <1>3, <1>6, <2>1, HitsLists
<1>12. /\ h \in Seq(S) /\ IsInjective(h) /\ Len(h) = Cardinality(Places(stored, K, m))
       /\ m = n => ToSet(h) = K
       /\ m < n => stored[m + 1] \in S /\ ToSet(h) = {x \in K : <<x, stored[m + 1]>> \in ByNumber}
  BY <1>11 DEF HitsGiven, n
<1>13. Len(h) <= r.limit
  BY <1>2, <1>8, <1>10, <1>12, HitsCount
<1> HIDE DEF h
<1>14. /\ Rows(v) = h /\ v.rows = h
       /\ v.next_address = IF more THEN NextOffset(stored[m]) ELSE Absent
  BY <1>1, <1>9 DEF Rows
<1>15. v # <<>>
  BY <1>1
<1>16. Rows(v) \in Seq(RowSet) /\ IsInjective(Rows(v))
  <2>1. S \subseteq RowSet
    BY <1>s DEF RowSet, Searches, Windows
  <2>2. Seq(S) \subseteq Seq(RowSet)
    BY <2>1, SeqMonotonic
  <2> QED
    BY <1>12, <1>14, <2>2
<1>17. GoOn(r, v) = IF v.next_address # Absent THEN {RestOfRange(r, v.next_address)} ELSE {}
  BY DEF GoOn, Searches, Pages, Windows
<1>18. m = n => GoOn(r, v) = {} /\ ToSet(Rows(v)) = Wanted(p, r)
  BY <1>4, <1>7, <1>12, <1>14, <1>17
<1>19. m < n => /\ GoOn(r, v) = {next} /\ GoesOn(r, next)
                /\ ToSet(Rows(v)) = {x \in Wanted(p, r) : ~ Ahead(next, x)}
  <2> SUFFICES ASSUME m < n
               PROVE  /\ GoOn(r, v) = {next} /\ GoesOn(r, next)
                      /\ ToSet(Rows(v)) = {x \in Wanted(p, r) : ~ Ahead(next, x)}
    OBVIOUS
  <2>1. m \in DOMAIN stored /\ m + 1 \in DOMAIN stored
    BY <1>4, <1>8
  <2>2. stored[m] \in S /\ stored[m + 1] \in S /\ stored[m] < stored[m + 1]
    <3>1. <<stored[m], stored[m + 1]>> \in ByNumber
      BY <1>3, <1>8, <2>1, ListIs
    <3> QED
      BY <1>4, <2>1, <3>1 DEF ByNumber
  <2>3. /\ stored[m] # MaxOffset /\ stored[m] + 1 \in r.address..EndOf(r)
        /\ stored[m] \in Int /\ stored[m + 1] \in Int
    <3>1. EndOf(r) <= MaxOffset
      BY <1>2, OffsetIs
    <3> QED
      BY <1>2, <1>s, <2>2, <3>1, OffsetsAreNumbers
  <2>4. v.next_address = stored[m] + 1
    BY <1>14, <2>3 DEF NextOffset
  <2>5. GoesOn(r, next) /\ next.address = stored[m] + 1 /\ stored[m] + 1 # Absent
    BY <2>3, SpanMoves
  <2>6. GoOn(r, v) = {next}
    BY <1>17, <2>4, <2>5
  <2> HIDE DEF next
  <2>7. \A x : Ahead(next, x) = (x >= stored[m] + 1)
    BY <2>5 DEF Ahead, Searches, Windows
  <2>8. \A x \in K : <<x, stored[m + 1]>> \in ByNumber <=> ~ Ahead(next, x)
    <3> TAKE x \in K
    <3>1. x \in S /\ x \in Int
      BY <1>3, <1>6
    <3>2. PICK j \in DOMAIN stored : stored[j] = x
      BY <1>3, <3>1, ListIs DEF ToSet
    <3>3. /\ <<x, stored[m + 1]>> \in ByNumber <=> j < m + 1
          /\ <<stored[m], x>> \in ByNumber <=> m < j
      BY <1>3, <2>1, <3>2, ListIs
    <3>4. j \in Nat
      BY <1>4
    <3>5. <<stored[m], x>> \in ByNumber <=> stored[m] < x
      BY <2>3, <3>1 DEF ByNumber
    <3>6. j < m + 1 <=> ~ (m < j)
      BY <1>8, <3>4
    <3>7. ~ (stored[m] < x) <=> ~ (x >= stored[m] + 1)
      BY <2>3, <3>1
    <3> QED
      BY <2>7, <3>3, <3>5, <3>6, <3>7
  <2> QED
    BY <1>7, <1>12, <1>14, <2>5, <2>6, <2>8
<1>20. ScanGiven(p, r, v)
  <2>1. m = n \/ m < n
    BY <1>4, <1>8
  <2> HIDE DEF next
  <2> QED
    BY <1>15, <1>16, <1>18, <1>19, <2>1 DEF ScanGiven
<1>21. Accepts(r, v)
  <2>1. Accepts(r, v) = AcceptsComments(r, v)
    BY DEF Accepts, Searches
  <2> QED
    BY <1>1, <1>8, <1>13, <1>14, <2>1 DEF AcceptsComments, RequestedEnd
<1> QED
  BY <1>20, <1>21 DEF v

\* get_listing: the code units up to the one after which next_address lies.
LEMMA ListingGives ==
    ASSUME op = "get_listing", NEW p \in Programs, NEW r, Valid(r), NEW time \in Nat,
           Answers(p, r)
    PROVE  ScanGiven(p, r, Answer(p, r, time)) /\ Accepts(r, Answer(p, r, time))
<1> DEFINE v == Answer(p, r, time)
           units == p.units
           begin == UnitAt(p, r.address)
           I == {i \in begin..Len(units) : units[i].at <= EndOf(r)}
           all == Chosen(units, I)
           W == {units[i] : i \in I}
           rows == Take(all, 0, r.limit)
           m == IF r.limit <= Len(all) THEN r.limit ELSE Len(all)
           after == NextOffset(rows[Len(rows)].end)
           more == after # Absent /\ after <= EndOf(r)
           next == RestOfRange(r, after)
<1>1. v = [address |-> r.address, end |-> EndOf(r), rows |-> rows, truncated |-> more,
           next_address |-> IF more THEN after ELSE Absent]
  BY DEF Answer, Searches, Listing
<1>2. /\ r.limit \in Nat /\ r.limit > 0 /\ r.address \in Offset /\ r.address \in Int
      /\ EndOf(r) \in Int /\ EndOf(r) \in Offset /\ EndOf(r) >= r.address
  BY SpanParams
<1>3. /\ Ordered(ToSet(units), ByPlace) /\ Lists(units, ToSet(units), ByPlace)
      /\ Len(units) \in Nat /\ DOMAIN units = 1..Len(units)
  BY UnitsAreList
<1>4. begin \in DOMAIN units /\ r.address >= units[begin].at /\ r.address <= units[begin].end
  <2>1. Mapped(p, r.address)
    <3>1. EndOf(r) <= p.top /\ p.top \in Int
      BY ProgramIs, OffsetIs DEF Answers, Region
    <3> QED
      BY <1>2, <3>1 DEF Mapped
  <2>2. /\ UnitAt(p, r.address) \in DOMAIN p.units
        /\ r.address \in p.units[UnitAt(p, r.address)].at..p.units[UnitAt(p, r.address)].end
    BY <1>2, <2>1, MappedAreUnits
  <2>3. p.units[UnitAt(p, r.address)] \in CodeUnit
    BY <2>2, UnitsAreList
  <2> QED
    BY <1>2, <2>2, <2>3, UnitFields
<1>5. \A i \in DOMAIN units : /\ units[i] \in ToSet(units) /\ units[i].at \in Int /\ units[i].end \in Int
                              /\ units[i].at <= units[i].end
  BY UnitIs DEF ToSet
<1>6. \A i, j \in DOMAIN units : i < j => units[i].end < units[j].at
  <2> TAKE i, j \in DOMAIN units
  <2>1. i < j => i \in 1..(j - 1)
    BY <1>3
  <2> QED
    BY <2>1, UnitsFollow
<1> HIDE DEF begin, units
<1>7. W = {u \in ToSet(units) : u.end >= r.address /\ u.at <= EndOf(r)}
  <2>1. \A i \in DOMAIN units : units[i].end >= r.address <=> i >= begin
    <3> TAKE i \in DOMAIN units
    <3>1. CASE i = begin
      BY <1>3, <1>4, <3>1
    <3>2. CASE i < begin
      <4>1. units[i].end < units[begin].at /\ units[begin].at <= r.address
        BY <1>2, <1>4, <1>5, <1>6, <3>2
      <4>2. units[i].end < r.address
        BY <1>2, <1>4, <1>5, <4>1
      <4> QED
        BY <1>2, <1>3, <1>4, <1>5, <3>2, <4>2
    <3>3. CASE i > begin
      <4>1. units[begin].end < units[i].at /\ units[i].at <= units[i].end
        BY <1>3, <1>4, <1>5, <1>6, <3>3
      <4>2. units[i].end >= r.address
        BY <1>2, <1>4, <1>5, <4>1
      <4> QED
        BY <1>3, <1>4, <3>3, <4>2
    <3> QED
      BY <1>3, <1>4, <3>1, <3>2, <3>3
  <2>2. I = {i \in DOMAIN units : units[i].end >= r.address /\ units[i].at <= EndOf(r)}
    BY <1>3, <1>4, <2>1
  <2> HIDE DEF I
  <2> QED
    BY <2>2 DEF ToSet
<1>8. Wanted(p, r) = W
  BY <1>7 DEF Wanted, Pages, Searches, units
<1>9. I \in SUBSET DOMAIN units /\ begin \in I
  BY <1>2, <1>3, <1>4, <1>5
<1>10. Ordered(W, ByPlace) /\ Lists(all, W, ByPlace) /\ units[begin] \in W
  <2> HIDE DEF I
  <2> QED
    BY <1>3, <1>9, ChosenLists
<1>11. \A u \in W : /\ u \in ToSet(units) /\ u \in CodeUnit /\ u.at \in Int /\ u.end \in Int
                    /\ u.at <= u.end /\ u.end \in Offset /\ u.len = u.end - u.at + 1
                    /\ u.end >= r.address /\ u.at <= EndOf(r)
  BY <1>7, UnitIs DEF units
<1>a. \A u, w \in W : <<u, w>> \in ByPlace <=> u.end < w.at
  BY <1>11, UnitsApart DEF units
<1> HIDE DEF v, W, I, all
<1>12. /\ Len(all) \in Nat /\ DOMAIN all = 1..Len(all) /\ ToSet(all) = W
       /\ \A i \in DOMAIN all : all[i] \in W
       /\ \A j, k \in DOMAIN all : <<all[j], all[k]>> \in ByPlace <=> j < k
  BY <1>10, ListIs
<1>13. Len(all) # 0
  BY <1>10, <1>12 DEF ToSet
<1>14. m \in Nat /\ m <= Len(all) /\ m > 0 /\ m <= r.limit
  BY <1>2, <1>12, <1>13
<1>15. /\ Len(rows) = m /\ Lists(rows, {all[i] : i \in 1..m}, ByPlace)
       /\ Ordered({all[i] : i \in 1..m}, ByPlace)
       /\ \A i \in 1..m : rows[i] = all[i]
  BY <1>2, <1>10, TakeLists
<1> HIDE DEF rows
<1>16. /\ rows \in Seq({all[i] : i \in 1..m}) /\ IsInjective(rows) /\ ToSet(rows) = {all[i] : i \in 1..m}
       /\ DOMAIN rows = 1..m
  BY <1>15, ListIs
<1>17. /\ m = Len(all) => ToSet(rows) = W
       /\ m < Len(all) => /\ all[m + 1] \in W
                          /\ ToSet(rows) = {x \in W : <<x, all[m + 1]>> \in ByPlace}
  <2>1. m \in 0..Len(all)
    BY <1>12, <1>14
  <2> HIDE DEF m
  <2> QED
    BY <1>10, <1>16, <2>1, CutList
<1> DEFINE last == all[m]
<1>18. /\ last \in W /\ rows[Len(rows)] = last /\ last.end \in Int /\ last.end \in Offset
       /\ last.end >= r.address
  BY <1>11, <1>12, <1>14, <1>15
<1>19. /\ last.end = MaxOffset => after = Absent
       /\ last.end # MaxOffset => after = last.end + 1 /\ after # Absent /\ after \in Int
  <2> HIDE DEF last
  <2> QED
    BY <1>18, OffsetIs DEF NextOffset, Absent
\* What is not yet listed begins behind the last row.
<1>20. \A x \in W : x \in ToSet(rows) <=> x.end <= last.end
  <2> TAKE x \in W
  <2>1. PICK j \in DOMAIN all : all[j] = x
    BY <1>12 DEF ToSet
  <2>2. x \in ToSet(rows) <=> j <= m
    <3>1. j <= m => x \in ToSet(rows)
      BY <1>12, <1>14, <1>16, <2>1
    <3>2. x \in ToSet(rows) => j <= m
      <4> SUFFICES ASSUME x \in ToSet(rows)
                   PROVE  j <= m
        OBVIOUS
      <4>1. PICK i \in 1..m : all[i] = x
        BY <1>16
      <4>2. i \in DOMAIN all
        BY <1>12, <1>14
      <4>3. ~ (i < j) /\ ~ (j < i)
        <5>1. <<x, x>> \notin ByPlace
          BY <1>10 DEF Ordered
        <5> QED
          BY <1>12, <2>1, <4>1, <4>2, <5>1
      <4> QED
        BY <1>12, <1>14, <4>3
    <3> QED
      BY <3>1, <3>2
  <2>3. m \in DOMAIN all
    BY <1>12, <1>14
  <2>4. CASE j < m
    <3>1. x.end < last.at
      BY <1>12, <1>18, <1>a, <2>1, <2>3, <2>4
    <3> QED
      BY <1>11, <1>18, <2>2, <2>4, <1>12, <1>14, <3>1
  <2>5. CASE j = m
    BY <1>11, <2>1, <2>2, <2>5, <1>12, <1>14
  <2>6. CASE m < j
    <3>1. last.end < x.at
      BY <1>12, <1>18, <1>a, <2>1, <2>3, <2>6
    <3> QED
      BY <1>11, <1>18, <2>2, <2>6, <1>12, <1>14, <3>1
  <2> QED
    BY <1>12, <1>14, <2>4, <2>5, <2>6
<1> HIDE DEF after, m, last, next
<1>21. v.rows = rows /\ Rows(v) = rows /\ v.next_address = IF more THEN after ELSE Absent
  BY <1>1 DEF Rows
<1>22. v # <<>>
  BY <1>1
<1>23. Rows(v) \in Seq(RowSet) /\ IsInjective(Rows(v))
  <2>1. {all[i] : i \in 1..m} \subseteq RowSet
    BY <1>11, <1>12, <1>14 DEF RowSet, Searches, Windows
  <2>2. Seq({all[i] : i \in 1..m}) \subseteq Seq(RowSet)
    BY <2>1, SeqMonotonic
  <2> QED
    BY <1>16, <1>21, <2>2
<1>24. GoOn(r, v) = IF v.next_address # Absent THEN {RestOfRange(r, v.next_address)} ELSE {}
  BY DEF GoOn, Searches, Pages, Windows
<1>25. ~ more => GoOn(r, v) = {} /\ ToSet(Rows(v)) = Wanted(p, r)
  <2> SUFFICES ASSUME ~ more
               PROVE  GoOn(r, v) = {} /\ ToSet(Rows(v)) = Wanted(p, r)
    OBVIOUS
  <2>1. GoOn(r, v) = {}
    BY <1>21, <1>24
  <2>2. ASSUME NEW x \in W
        PROVE  x.end <= last.end
    <3>1. PICK j \in DOMAIN all : all[j] = x
      BY <1>12 DEF ToSet
    <3>2. m \in DOMAIN all /\ last = all[m]
      BY <1>12, <1>14 DEF last
    <3>3. x # last => <<x, last>> \in ByPlace \/ <<last, x>> \in ByPlace
      BY <1>10, <1>18 DEF Ordered
    <3>4. <<last, x>> \notin ByPlace
      <4> SUFFICES ASSUME <<last, x>> \in ByPlace
                   PROVE  FALSE
        OBVIOUS
      <4>1. last.end < x.at
        BY <1>a, <1>18
      <4>2. last.end # MaxOffset /\ last.end < EndOf(r)
        BY <1>2, <1>11, <1>18, <4>1, OffsetIs
      <4> QED
        BY <1>2, <1>18, <1>19, <4>2
    <3>5. <<x, last>> \in ByPlace => x.end < last.at
      BY <1>a, <1>18
    <3> QED
      BY <1>11, <1>18, <3>3, <3>4, <3>5
  <2>3. ToSet(rows) \subseteq W
    BY <1>12, <1>14, <1>16
  <2> QED
    BY <1>8, <1>20, <1>21, <2>1, <2>2, <2>3
<1>26. more => /\ GoOn(r, v) = {next} /\ GoesOn(r, next)
               /\ ToSet(Rows(v)) = {x \in Wanted(p, r) : ~ Ahead(next, x)}
  <2> SUFFICES ASSUME more
               PROVE  /\ GoOn(r, v) = {next} /\ GoesOn(r, next)
                      /\ ToSet(Rows(v)) = {x \in Wanted(p, r) : ~ Ahead(next, x)}
    OBVIOUS
  <2>1. after = last.end + 1 /\ after \in r.address..EndOf(r)
    BY <1>2, <1>18, <1>19
  <2>2. GoesOn(r, next) /\ next.address = after
    BY <2>1, SpanMoves DEF next
  <2>3. GoOn(r, v) = {next}
    BY <1>21, <1>24 DEF next
  <2>4. \A x \in W : Ahead(next, x) <=> ~ (x.end <= last.end)
    <3>1. \A x : Ahead(next, x) = (x.end >= after)
      BY <2>2 DEF Ahead, Searches, Windows
    <3>2. \A e \in Int : e >= after <=> ~ (e <= last.end)
      BY <1>18, <2>1
    <3>3. \A x \in W : x.end \in Int
      BY <1>11
    <3> QED
      BY <3>1, <3>2, <3>3
  <2>5. ToSet(rows) \subseteq W
    BY <1>12, <1>14, <1>16
  <2> QED
    BY <1>8, <1>20, <1>21, <2>2, <2>3, <2>4, <2>5
<1>27. ScanGiven(p, r, v)
  <2> HIDE DEF more
  <2> QED
    BY <1>22, <1>23, <1>25, <1>26 DEF ScanGiven
<1>28. Accepts(r, v)
  <2>1. Accepts(r, v) = AcceptsListing(r, v)
    BY DEF Accepts, Searches
  <2>2. ASSUME NEW i \in 1..m
        PROVE  /\ rows[i] \in W
               /\ i > 1 => rows[i].at > rows[i - 1].end
    <3>1. rows[i] = all[i] /\ i \in DOMAIN all
      BY <1>12, <1>14, <1>15
    <3>2. i > 1 => rows[i].at > rows[i - 1].end
      <4> SUFFICES ASSUME i > 1
                   PROVE  rows[i].at > rows[i - 1].end
        OBVIOUS
      <4>1. i - 1 \in 1..m /\ i - 1 \in DOMAIN all /\ i - 1 < i
        BY <1>12, <1>14
      <4>2. rows[i - 1] = all[i - 1] /\ all[i - 1] \in W /\ all[i] \in W
        BY <1>12, <1>15, <3>1, <4>1
      <4>3. all[i - 1].end < all[i].at
        BY <1>12, <1>a, <3>1, <4>1, <4>2
      <4> QED
        BY <1>11, <3>1, <4>2, <4>3
    <3> QED
      BY <1>12, <3>1, <3>2
  <2>3. \A u \in W : u.kind \in {"data", "instruction", "undefined"}
    BY <1>11, UnitFields
  <2>4. /\ v.address = r.address /\ v.end = EndOf(r) /\ Len(v.rows) = m /\ DOMAIN v.rows = 1..m
    BY <1>1, <1>15, <1>16, <1>21
  <2> QED
    BY <1>11, <1>14, <1>21, <2>1, <2>2, <2>3, <2>4 DEF AcceptsListing, RequestedEnd
<1> QED
  BY <1>27, <1>28 DEF v

-----------------------------------------------------------------------------
(* The windows of functions.                                                *)

LEMMA WindowParams ==
    ASSUME op \in Windows, NEW r, Valid(r)
    PROVE  /\ r.start_after \in ScanOffset /\ r.start_after \in Int /\ r.start_after >= None
           /\ r.function_limit \in Nat /\ r.function_limit > 0
           /\ op = "find_similar_functions" => r.result_limit \in Nat
<1>1. CASE op = "search_decompiled_code"
  <2>1. r \in SearchDecompiledCodeParams
    BY <1>1 DEF Valid
  <2> QED
    BY <1>1, <2>1, OffsetIs, NoneIsNoOffset DEF SearchDecompiledCodeParams, ScanOffset
<1>2. CASE op = "find_similar_functions"
  <2>1. r \in FindSimilarFunctionsParams
    BY <1>2 DEF Valid
  <2> QED
    BY <2>1, OffsetIs, NoneIsNoOffset DEF FindSimilarFunctionsParams, ScanOffset
<1> QED
  BY <1>1, <1>2 DEF Windows

\* Where the functions are that a window is taken of.
Entries(p) == {u.at : u \in Instructions(p, Offset)}

LEMMA EntriesWanted ==
    ASSUME op \in Windows, NEW p \in Programs, NEW r
    PROVE  /\ op = "search_decompiled_code" => Wanted(p, r) = Entries(p) \ (0..r.start_after)
           /\ op = "find_similar_functions" =>
                Wanted(p, r) = Entries(p) \ ((0..r.start_after) \cup {r.address})
           /\ Entries(p) \subseteq Offset
<1>1. ToSet(Code(p)) = Instructions(p, Offset)
  BY CodeMembers DEF Code
<1>2. Entries(p) \subseteq Offset
  BY DEF Entries, Instructions
<1> QED
  BY <1>1, <1>2 DEF Wanted, Pages, Searches, Entries

LEMMA NextWindow ==
    ASSUME op \in Windows, NEW r, Valid(r), NEW c \in Offset
    PROVE  LET next == [r EXCEPT !.start_after = c]
           IN next.start_after = c /\ Valid(next) /\ (Scanning(r) => Scanning(next))
<1> DEFINE next == [r EXCEPT !.start_after = c]
<1>1. CASE op = "search_decompiled_code"
  <2>1. r \in SearchDecompiledCodeParams
    BY <1>1 DEF Valid
  <2>2. next \in SearchDecompiledCodeParams /\ next.start_after = c
    BY <2>1 DEF SearchDecompiledCodeParams, ScanOffset
  <2> HIDE DEF next
  <2>3. next.start_after = c /\ Valid(next) /\ (Scanning(r) => Scanning(next))
    BY <1>1, <2>2 DEF Valid, Scanning, Scans, Windows
  <2> QED
    BY <2>3 DEF next
<1>2. CASE op = "find_similar_functions"
  <2>1. r \in FindSimilarFunctionsParams
    BY <1>2 DEF Valid
  <2>2. /\ next \in FindSimilarFunctionsParams /\ next.start_after = c
        /\ next.function_limit = r.function_limit /\ next.result_limit = r.result_limit
    BY <2>1 DEF FindSimilarFunctionsParams, ScanOffset
  <2> HIDE DEF next
  <2>3. next.start_after = c /\ Valid(next) /\ (Scanning(r) => Scanning(next))
    BY <1>2, <2>2 DEF Valid, Scanning, Scans, Windows
  <2> QED
    BY <2>3 DEF next
<1> QED
  BY <1>1, <1>2 DEF Windows

\* A cursor moves start_after and nothing else.
LEMMA WindowMoves ==
    ASSUME op \in Windows, NEW r, Valid(r), Scanning(r), NEW c \in Offset, c > r.start_after
    PROVE  /\ GoesOn(r, [r EXCEPT !.start_after = c])
           /\ [r EXCEPT !.start_after = c].start_after = c
<1> DEFINE next == [r EXCEPT !.start_after = c]
<1>0. /\ r.start_after \in Int /\ r.start_after >= None /\ c \in Nat
      /\ \A n \in Offset : n \in Nat
      /\ None \in Int /\ None < 0
  BY WindowParams, OffsetIs, NoneIsNoOffset
<1>1. next.start_after = c /\ Valid(next) /\ Scanning(next)
  BY NextWindow
<1>2. op = "find_similar_functions" => next.address = r.address
  <2>1. op = "find_similar_functions" => r \in FindSimilarFunctionsParams
    BY DEF Valid
  <2> QED
    BY <2>1 DEF FindSimilarFunctionsParams
<1> HIDE DEF next
<1>3. \A x \in Offset : x \in Nat /\ (x \in 0..c <=> ~ (x > c)) /\ (x \in 0..r.start_after <=> ~ (x > r.start_after))
  BY <1>0
<1>4. \A x : Ahead(next, x) = (x > c) /\ Ahead(r, x) = (x > r.start_after)
  BY <1>1 DEF Ahead, Windows, Searches
<1>5. ASSUME NEW x \in RowSet, Ahead(next, x)
      PROVE  Ahead(r, x)
  <2>1. x \in Nat
    BY <1>0, <1>5 DEF RowSet, Windows, Searches
  <2>2. x > c
    BY <1>4, <1>5
  <2>3. x > r.start_after
    BY <1>0, <2>1, <2>2
  <2> QED
    BY <1>4, <2>3
<1>6. ASSUME NEW q \in Programs
      PROVE  Wanted(q, next) = {x \in Wanted(q, r) : Ahead(next, x)}
  <2>1. Entries(q) \subseteq Offset
    BY EntriesWanted
  <2>2. \A x \in Offset : x > c => x > r.start_after
    BY <1>0
  <2>3. CASE op = "search_decompiled_code"
    <3>1. /\ Wanted(q, r) = Entries(q) \ (0..r.start_after)
          /\ Wanted(q, next) = Entries(q) \ (0..c)
      BY <1>1, <2>3, EntriesWanted
    <3> QED
      BY <1>3, <1>4, <2>1, <2>2, <3>1
  <2>4. CASE op = "find_similar_functions"
    <3>1. /\ Wanted(q, r) = Entries(q) \ ((0..r.start_after) \cup {r.address})
          /\ Wanted(q, next) = Entries(q) \ ((0..c) \cup {r.address})
      BY <1>1, <1>2, <2>4, EntriesWanted
    <3> QED
      BY <1>3, <1>4, <2>1, <2>2, <3>1
  <2> QED
    BY <2>3, <2>4 DEF Windows
<1> QED
  BY <1>1, <1>5, <1>6 DEF GoesOn, next

\* What a window of functions is: the next ones, as many as the limit and the time allow.
WindowGiven(p, r, w, all) ==
    /\ Len(w) \in Nat /\ Len(w) <= r.function_limit /\ DOMAIN w = 1..Len(w)
    /\ Lists(w, ToSet(w), ByPlace) /\ Ordered(ToSet(w), ByPlace)
    /\ Len(w) <= Len(all) /\ Len(all) \in Nat
    /\ \A i \in DOMAIN w : /\ w[i] \in ToSet(p.units) /\ w[i] \in CodeUnit
                           /\ w[i].at \in Offset /\ w[i].at \in Nat
                           /\ w[i].at > r.start_after
                           /\ \A j \in DOMAIN w : j < i => w[j].at < w[i].at
    /\ Len(all) = Len(w) => {w[i].at : i \in DOMAIN w} = Entries(p) \ (0..r.start_after)
    /\ Len(w) # 0 => {w[i].at : i \in DOMAIN w} =
                        {at \in Entries(p) \ (0..r.start_after) : ~ (at > w[Len(w)].at)}

LEMMA WindowIs ==
    ASSUME op \in Windows, NEW p \in Programs, NEW r, Valid(r), NEW time \in Nat
    PROVE  WindowGiven(p, r, Window(p, r, time), EntriesAfter(p, r.start_after))
<1> DEFINE a == r.start_after
           range == (a + 1)..MaxOffset
           all == EntriesAfter(p, a)
           S == Instructions(p, range)
           n == Min({r.function_limit, time})
           m == IF n <= Len(all) THEN n ELSE Len(all)
           w == Window(p, r, time)
           T == {all[i] : i \in 1..m}
<1>1. /\ a \in Int /\ a >= None /\ None \in Int /\ None = -1 /\ r.function_limit \in Nat
      /\ MaxOffset \in Nat
  BY WindowParams, NoneIsNoOffset, OffsetsAreNumbers DEF None
<1>2. n \in Nat /\ n <= r.function_limit
  BY <1>1, MinOfTwo
<1>3. w = Take(all, 0, n)
  BY DEF Window
<1>4. Ordered(S, ByPlace) /\ Lists(all, S, ByPlace)
  BY CodeIsList DEF EntriesAfter
<1>5. \A u \in S : /\ u \in ToSet(p.units) /\ u \in CodeUnit /\ u.at \in Offset /\ u.at \in Nat
                   /\ u.at > a /\ u.kind = "instruction"
  <2> TAKE u \in S
  <2>1. u \in ToSet(p.units) /\ u.at \in range /\ u.kind = "instruction"
    BY DEF Instructions
  <2> QED
    BY <1>1, <2>1, UnitIs, OffsetIs
<1>6. {u.at : u \in S} = Entries(p) \ (0..a)
  <2>1. ASSUME NEW u \in S
        PROVE  u \in Instructions(p, Offset) /\ u.at \notin 0..a
    BY <1>1, <1>5 DEF Instructions
  <2>2. ASSUME NEW u \in Instructions(p, Offset), u.at \notin 0..a
        PROVE  u \in S
    <3>1. u \in ToSet(p.units) /\ u.at \in Offset /\ u.kind = "instruction"
      BY DEF Instructions
    <3>2. u.at \in Nat /\ u.at <= MaxOffset
      BY <3>1, OffsetIs
    <3>3. u.at \in range
      BY <1>1, <2>2, <3>2
    <3> QED
      BY <3>1, <3>3 DEF Instructions
  <2> HIDE DEF S
  <2> QED
    BY <2>1, <2>2 DEF Entries
<1> HIDE DEF n, all, S, w
<1>7. /\ m \in Nat /\ m <= Len(all) /\ Len(w) = m /\ Ordered(T, ByPlace)
      /\ Lists(w, T, ByPlace) /\ \A i \in 1..m : w[i] = all[i]
  BY <1>2, <1>3, <1>4, TakeLists
<1>8. /\ Len(all) \in Nat /\ DOMAIN all = 1..Len(all) /\ \A i \in DOMAIN all : all[i] \in S
  BY <1>4, ListIs
<1>9. m <= n
  BY <1>2, <1>8
<1>10. /\ m = Len(all) => T = S
       /\ m < Len(all) => all[m + 1] \in S /\ T = {x \in S : <<x, all[m + 1]>> \in ByPlace}
  <2>1. m \in 0..Len(all)
    BY <1>7, <1>8
  <2> HIDE DEF m
  <2> QED
    BY <1>4, <2>1, CutList
<1>11. /\ DOMAIN w = 1..m /\ ToSet(w) = T
       /\ \A j, k \in DOMAIN w : <<w[j], w[k]>> \in ByPlace <=> j < k
       /\ \A i \in DOMAIN w : w[i] \in T
  BY <1>7, ListIs
<1> HIDE DEF m
<1>12. T \subseteq S
  BY <1>7, <1>8
<1> HIDE DEF T
<1>13. ASSUME NEW i \in DOMAIN w
       PROVE  /\ w[i] \in ToSet(p.units) /\ w[i] \in CodeUnit
              /\ w[i].at \in Offset /\ w[i].at \in Nat /\ w[i].at > a
              /\ \A j \in DOMAIN w : j < i => w[j].at < w[i].at
  <2>1. w[i] \in S
    BY <1>11, <1>12
  <2>2. \A j \in DOMAIN w : j < i => w[j].at < w[i].at
    <3> TAKE j \in DOMAIN w
    <3>1. w[j] \in S
      BY <1>11, <1>12
    <3>2. /\ j < i => <<w[j], w[i]>> \in ByPlace
          /\ w[j] \in ToSet(p.units) /\ w[i] \in ToSet(p.units)
      BY <1>5, <1>11, <2>1, <3>1
    <3> QED
      BY <3>2, UnitsApart
  <2> QED
    BY <1>5, <2>1, <2>2
<1>14. {w[i].at : i \in DOMAIN w} = {u.at : u \in T}
  BY <1>11 DEF ToSet
<1>15. m = Len(all) => {w[i].at : i \in DOMAIN w} = Entries(p) \ (0..a)
  BY <1>6, <1>10, <1>14
<1>16. ASSUME m # 0
       PROVE  {w[i].at : i \in DOMAIN w} = {at \in Entries(p) \ (0..a) : ~ (at > w[m].at)}
  <2>1. m \in DOMAIN w /\ w[m] = all[m] /\ m \in DOMAIN all
    BY <1>7, <1>8, <1>11, <1>16
  <2> DEFINE last == w[m]
  <2>2. last \in S /\ last.at \in Nat /\ last \in ToSet(p.units)
    BY <1>5, <1>11, <1>12, <2>1
  <2> HIDE DEF last
  <2>3. ASSUME NEW u \in S
        PROVE  u \in T <=> ~ (u.at > last.at)
    <3>1. u \in T => ~ (u.at > last.at)
      <4> SUFFICES ASSUME u \in T
                   PROVE  ~ (u.at > last.at)
        OBVIOUS
      <4>1. PICK i \in DOMAIN w : w[i] = u
        BY <1>11 DEF ToSet
      <4>2. i = m \/ i < m
        BY <1>7, <1>11, <4>1
      <4>3. u.at \in Nat
        BY <1>5
      <4>4. i < m => u.at < last.at
        BY <1>13, <2>1, <4>1 DEF last
      <4>5. i = m => u.at = last.at
        BY <4>1 DEF last
      <4> QED
        BY <2>2, <4>2, <4>3, <4>4, <4>5
    <3>2. u \notin T => u.at > last.at
      <4> SUFFICES ASSUME u \notin T
                   PROVE  u.at > last.at
        OBVIOUS
      <4>1. m # Len(all)
        BY <1>10
      <4>a. m \in Nat /\ Len(all) \in Nat /\ m <= Len(all)
        BY <1>7, <1>8
      <4>b. m < Len(all) /\ m + 1 \in 1..Len(all)
        BY <4>1, <4>a
      <4>2. m < Len(all) /\ m + 1 \in DOMAIN all
        BY <1>8, <4>b
      <4> DEFINE after == all[m + 1]
      <4>3. after \in S /\ <<u, after>> \notin ByPlace
        BY <1>10, <4>2
      <4>4. <<last, after>> \in ByPlace
        <5>1. m < m + 1
          BY <1>7
        <5>2. \A j, k \in DOMAIN all : <<all[j], all[k]>> \in ByPlace <=> j < k
          BY <1>4, ListIs
        <5> QED
          BY <2>1, <4>2, <5>1, <5>2 DEF last
      <4> HIDE DEF after
      <4>5. u \in ToSet(p.units) /\ u.at \in Nat /\ after \in ToSet(p.units) /\ after.at \in Nat
        BY <1>5, <4>3
      <4>6. ~ (u.at < after.at) /\ last.at < after.at
        BY <2>2, <4>3, <4>4, <4>5, UnitsApart
      <4> QED
        BY <2>2, <4>5, <4>6
    <3> QED
      BY <3>1, <3>2
  <2>4. {u.at : u \in T} = {at \in {u.at : u \in S} : ~ (at > last.at)}
    BY <1>12, <2>3
  <2> QED
    BY <1>6, <1>14, <2>4 DEF last
<1>17. /\ Lists(w, ToSet(w), ByPlace) /\ Ordered(ToSet(w), ByPlace)
  BY <1>7, <1>11
<1>18. Len(w) \in Nat /\ Len(w) <= r.function_limit
  BY <1>1, <1>2, <1>7, <1>9
<1> QED
  BY <1>7, <1>8, <1>11, <1>13, <1>15, <1>16, <1>17, <1>18 DEF WindowGiven, w, all

\* search_decompiled_code: the entries of a window.
LEMMA SearchDecompiledGives ==
    ASSUME op = "search_decompiled_code", NEW p \in Programs, NEW r, Valid(r), NEW time \in Nat
    PROVE  ScanGiven(p, r, Answer(p, r, time)) /\ Accepts(r, Answer(p, r, time))
<1> DEFINE v == Answer(p, r, time)
           w == Window(p, r, time)
           all == EntriesAfter(p, r.start_after)
           rows == [i \in DOMAIN w |-> w[i].at]
           n == Len(w)
           more == Len(all) > n
           next == [r EXCEPT !.start_after = w[n].at]
<1>1. v = [text |-> r.text, scanned |-> n, rows |-> rows, has_more |-> more,
           next_cursor |-> LastSeen(w)]
  BY DEF Answer, Searches, SearchDecompiledCode
<1>2. op \in Windows /\ Scanning(r)
  BY DEF Windows, Scanning, Scans
<1>3. WindowGiven(p, r, w, all)
  BY <1>2, WindowIs
<1> HIDE DEF w, all, v
<1>4. /\ n \in Nat /\ n <= r.function_limit /\ DOMAIN w = 1..n /\ n <= Len(all) /\ Len(all) \in Nat
      /\ \A i \in DOMAIN w : /\ w[i].at \in Offset /\ w[i].at \in Nat /\ w[i].at > r.start_after
                             /\ \A j \in DOMAIN w : j < i => w[j].at < w[i].at
      /\ Len(all) = n => {w[i].at : i \in DOMAIN w} = Entries(p) \ (0..r.start_after)
      /\ n # 0 => {w[i].at : i \in DOMAIN w} =
                    {at \in Entries(p) \ (0..r.start_after) : ~ (at > w[n].at)}
  BY <1>3 DEF WindowGiven
<1>5. Lists(w, ToSet(w), ByPlace) /\ Ordered(ToSet(w), ByPlace)
  BY <1>3 DEF WindowGiven
<1>6. w = <<>> <=> n = 0
  <2>1. w \in Seq(ToSet(w))
    BY <1>5, ListIs
  <2> QED
    BY <2>1, EmptySeq, SeqEqual
<1> HIDE DEF n
<1>7. /\ n = 0 => LastSeen(w) = None
      /\ n # 0 => LastSeen(w) = w[n].at /\ n \in DOMAIN w /\ w[n].at \in Offset
                  /\ w[n].at # None /\ w[n].at > r.start_after
  BY <1>4, <1>6, NoneIsNoOffset DEF LastSeen, n
<1>8. rows \in Seq(Offset) /\ Len(rows) = n /\ DOMAIN rows = 1..n
      /\ ToSet(rows) = {w[i].at : i \in DOMAIN w}
  <2>1. rows \in [1..n -> Offset]
    BY <1>4
  <2> QED
    BY <1>4, <2>1, SeqDef DEF ToSet
<1>9. IsInjective(rows)
  <2>1. \A i, j \in 1..n : i < j => w[i].at # w[j].at
    BY <1>4
  <2>2. \A i, j \in 1..n : w[i].at = w[j].at => i = j
    BY <1>4, <2>1
  <2> QED
    BY <1>4, <2>2 DEF IsInjective
<1> DEFINE given == {w[i].at : i \in DOMAIN w}
<1>10. /\ v # <<>> /\ v.text = r.text /\ v.scanned = n /\ v.rows = rows /\ v.has_more = more
       /\ v.next_cursor = LastSeen(w)
  BY <1>1
<1>11. Rows(v) = rows
  BY <1>10 DEF Rows, Searches
<1>12. RowSet = Offset
  BY <1>2 DEF RowSet, Searches, Windows
<1>13. Ends(v) <=> ~ more
  BY <1>2, <1>10 DEF Ends, Windows
<1>14. GoOn(r, v) = IF more /\ LastSeen(w) # None THEN {[r EXCEPT !.start_after = LastSeen(w)]} ELSE {}
  BY <1>2, <1>10 DEF GoOn, Searches, Pages, Windows
<1>15. Wanted(p, r) = Entries(p) \ (0..r.start_after)
  BY <1>2, EntriesWanted
<1> HIDE DEF rows
<1>16. ~ more => GoOn(r, v) = {} /\ ToSet(Rows(v)) = Wanted(p, r)
  <2> SUFFICES ASSUME ~ more
               PROVE  GoOn(r, v) = {} /\ ToSet(Rows(v)) = Wanted(p, r)
    OBVIOUS
  <2>1. Len(all) = n
    BY <1>4
  <2> QED
    BY <1>4, <1>8, <1>11, <1>14, <1>15, <2>1
<1>17. n = 0 => GoOn(r, v) = {}
  BY <1>7, <1>14
<1>18. more /\ n # 0 => /\ GoOn(r, v) = {next} /\ GoesOn(r, next)
                        /\ ToSet(Rows(v)) = {x \in Wanted(p, r) : ~ Ahead(next, x)}
  <2> SUFFICES ASSUME more, n # 0
               PROVE  /\ GoOn(r, v) = {next} /\ GoesOn(r, next)
                      /\ ToSet(Rows(v)) = {x \in Wanted(p, r) : ~ Ahead(next, x)}
    OBVIOUS
  <2>1. GoOn(r, v) = {next}
    BY <1>7, <1>14
  <2>2. GoesOn(r, next) /\ next.start_after = w[n].at
    BY <1>2, <1>7, WindowMoves
  <2> HIDE DEF next
  <2>3. \A x : Ahead(next, x) <=> x > w[n].at
    BY <1>2, <2>2 DEF Ahead, Windows, Searches
  <2> QED
    BY <1>4, <1>8, <1>11, <1>15, <2>1, <2>2, <2>3
<1>19. ScanGiven(p, r, v)
  <2> HIDE DEF more, next
  <2> QED
    BY <1>8, <1>9, <1>10, <1>11, <1>12, <1>13, <1>16, <1>17, <1>18 DEF ScanGiven
<1>20. Accepts(r, v)
  <2>1. AcceptsSearchDecompiled(r, v)
    <3>1. Cursor(v, v.scanned)
      BY <1>7, <1>10 DEF Cursor
    <3>2. \A i \in 1..n : Advances(IF i = 1 THEN r.start_after ELSE rows[i - 1], rows[i])
      <4> TAKE i \in 1..n
      <4>1. rows[i] = w[i].at /\ w[i].at > r.start_after
        BY <1>4 DEF rows
      <4>2. i # 1 => rows[i] > rows[i - 1]
        <5> SUFFICES ASSUME i # 1
                     PROVE  rows[i] > rows[i - 1]
          OBVIOUS
        <5>1. i - 1 \in 1..n /\ i - 1 < i
          BY <1>4
        <5>2. rows[i - 1] = w[i - 1].at /\ w[i - 1].at < w[i].at
          BY <1>4, <5>1 DEF rows
        <5> QED
          BY <1>4, <4>1, <5>1, <5>2
      <4> QED
        BY <4>1, <4>2 DEF Advances
    <3>3. rows # <<>> => LastSeen(w) = rows[n]
      <4> SUFFICES ASSUME rows # <<>>
                   PROVE  LastSeen(w) = rows[n]
        OBVIOUS
      <4>1. n # 0
        BY <1>8, EmptySeq, SeqEqual
      <4> QED
        BY <1>7, <4>1 DEF rows
    <3> QED
      BY <1>4, <1>8, <1>10, <3>1, <3>2, <3>3 DEF AcceptsSearchDecompiled
  <2> QED
    BY <2>1 DEF Accepts, Searches
<1> QED
  BY <1>19, <1>20 DEF v

-----------------------------------------------------------------------------
(* Similar functions: the matches of a window by rank, then its failures.    *)

Joined(s, t, S, T) ==
    /\ s \o t \in Seq(S \cup T)
    /\ Len(s \o t) = Len(s) + Len(t) /\ DOMAIN (s \o t) = 1..(Len(s) + Len(t))
    /\ \A i \in 1..Len(s) : (s \o t)[i] = s[i]
    /\ \A i \in DOMAIN (s \o t) : i > Len(s) => i - Len(s) \in DOMAIN t /\ (s \o t)[i] = t[i - Len(s)]
    /\ ToSet(s \o t) = ToSet(s) \cup ToSet(t)
    /\ (/\ IsInjective(s) /\ IsInjective(t)
        /\ \A i \in DOMAIN s, j \in DOMAIN t : s[i] # t[j]) => IsInjective(s \o t)
LEMMA JoinLists ==
    ASSUME NEW S, NEW T, NEW s \in Seq(S), NEW t \in Seq(T)
    PROVE  Joined(s, t, S, T)
<1> DEFINE m == Len(s)
           n == Len(t)
           c == s \o t
<1>1. m \in Nat /\ DOMAIN s = 1..m /\ n \in Nat /\ DOMAIN t = 1..n
  BY LenProperties
<1>2. s \in Seq(S \cup T) /\ t \in Seq(S \cup T)
  BY SeqMonotonic
<1>3. /\ c \in Seq(S \cup T) /\ Len(c) = m + n
      /\ \A i \in 1..(m + n) : c[i] = IF i <= m THEN s[i] ELSE t[i - m]
  BY <1>2, ConcatProperties
<1>4. DOMAIN c = 1..(m + n)
  BY <1>3, LenProperties
<1> HIDE DEF m, n, c
<1>5. \A i \in 1..(m + n) : /\ i <= m => i \in 1..m /\ c[i] = s[i]
                            /\ ~ (i <= m) => i - m \in 1..n /\ c[i] = t[i - m]
  BY <1>1, <1>3
<1>6. ASSUME IsInjective(s), IsInjective(t), \A i \in DOMAIN s, j \in DOMAIN t : s[i] # t[j]
      PROVE  IsInjective(c)
  <2> SUFFICES ASSUME NEW i \in 1..(m + n), NEW j \in 1..(m + n), c[i] = c[j]
               PROVE  i = j
    BY <1>4 DEF IsInjective
  <2>1. CASE i <= m /\ j <= m
    BY <1>1, <1>5, <1>6, <2>1 DEF IsInjective
  <2>2. CASE ~ (i <= m) /\ ~ (j <= m)
    <3>1. i - m \in DOMAIN t /\ j - m \in DOMAIN t /\ c[i] = t[i - m] /\ c[j] = t[j - m]
      BY <1>1, <1>5, <2>2
    <3>2. \A a, b \in DOMAIN t : t[a] = t[b] => a = b
      BY <1>6 DEF IsInjective
    <3>3. i - m = j - m
      BY <3>1, <3>2
    <3> QED
      BY <1>1, <3>3
  <2>3. CASE i <= m /\ ~ (j <= m)
    BY <1>1, <1>5, <1>6, <2>3
  <2>4. CASE ~ (i <= m) /\ j <= m
    BY <1>1, <1>5, <1>6, <2>4
  <2> QED
    BY <2>1, <2>2, <2>3, <2>4
<1>7. ToSet(c) = ToSet(s) \cup ToSet(t)
  <2>1. \A i \in 1..m : i \in 1..(m + n) /\ i <= m
    BY <1>1
  <2>3. \A i \in 1..m : c[i] = s[i]
    BY <1>5, <2>1
  <2>4. ASSUME NEW i \in 1..n
        PROVE  \E k \in 1..(m + n) : c[k] = t[i]
    <3> DEFINE k == i + m
    <3>1. k \in 1..(m + n) /\ ~ (k <= m) /\ k - m = i
      BY <1>1
    <3> HIDE DEF k
    <3>2. c[k] = t[k - m]
      BY <1>5, <3>1
    <3> QED
      BY <3>1, <3>2
  <2>a. ToSet(s) \subseteq ToSet(c)
    BY <1>1, <1>4, <2>1, <2>3 DEF ToSet
  <2>b. ToSet(t) \subseteq ToSet(c)
    BY <1>1, <1>4, <2>4 DEF ToSet
  <2>5. ToSet(s) \subseteq ToSet(c) /\ ToSet(t) \subseteq ToSet(c)
    BY <2>a, <2>b
  <2>6. ToSet(c) \subseteq ToSet(s) \cup ToSet(t)
    BY <1>1, <1>4, <1>5 DEF ToSet
  <2> QED
    BY <2>5, <2>6
<1>8. /\ \A i \in 1..m : c[i] = s[i]
      /\ \A i \in DOMAIN c : i > m => i - m \in DOMAIN t /\ c[i] = t[i - m]
  BY <1>1, <1>4, <1>5
<1> QED
  BY <1>3, <1>4, <1>6, <1>7, <1>8 DEF m, n, c, Joined

\* Different functions begin at different places.
LEMMA PlacesOf ==
    ASSUME NEW p \in Programs, NEW T \in SUBSET ToSet(p.units), NEW s \in Seq(T), IsInjective(s)
    PROVE  LET at == [i \in DOMAIN s |-> s[i].at]
           IN at \in Seq(Offset) /\ IsInjective(at) /\ ToSet(at) = {u.at : u \in ToSet(s)}
<1> DEFINE at == [i \in DOMAIN s |-> s[i].at]
<1>1. DOMAIN s = 1..Len(s) /\ Len(s) \in Nat /\ \A i \in DOMAIN s : s[i] \in T
  BY LenProperties, ElementOfSeq
<1>2. \A i \in DOMAIN s : s[i].at \in Offset /\ s[i] \in ToSet(p.units)
  BY <1>1, UnitIs
<1>3. at \in Seq(Offset)
  <2>1. at \in [1..Len(s) -> Offset]
    BY <1>1, <1>2
  <2> QED
    BY <1>1, <2>1, SeqDef
<1>4. IsInjective(at)
  <2>1. \A i, j \in DOMAIN s : s[i].at = s[j].at => s[i] = s[j]
    BY <1>2, UnitsApart
  <2> QED
    BY <2>1 DEF IsInjective
<1>5. ToSet(at) = {u.at : u \in ToSet(s)}
  BY DEF ToSet
<1> QED
  BY <1>3, <1>4, <1>5

BySimilar == {q \in CodeUnit \X CodeUnit : MoreSimilar(q[1], q[2])}

LEMMA SimilarLists ==
    ASSUME NEW p \in Programs, NEW S \in SUBSET ToSet(p.units)
    PROVE  /\ Ordered(S, BySimilar) /\ Lists(Ranked(S, MoreSimilar), S, BySimilar)
           /\ \A u, w \in S : <<u, w>> \in BySimilar => w.ops <= u.ops
<1>1. \A u \in S : /\ u \in CodeUnit /\ u.at \in Int /\ u.ops \in Int
  BY UnitIs
<1>2. \A u, w \in S : <<u, w>> \in BySimilar <=> MoreSimilar(u, w)
  BY <1>1 DEF BySimilar
<1>3. \A u, w \in S : u.at = w.at => u = w
  BY UnitsApart
<1>4. Ordered(S, BySimilar)
  <2>1. IsFiniteSet(S)
    BY UnitsAreList, FS_Subset DEF Ordered
  <2>2. \A x \in S : <<x, x>> \notin BySimilar
    BY <1>1, <1>2 DEF MoreSimilar
  <2>3. \A x, y, z \in S :
            <<x, y>> \in BySimilar /\ <<y, z>> \in BySimilar => <<x, z>> \in BySimilar
    BY <1>1, <1>2 DEF MoreSimilar
  <2>4. \A x, y \in S : x # y => <<x, y>> \in BySimilar \/ <<y, x>> \in BySimilar
    BY <1>1, <1>2, <1>3 DEF MoreSimilar
  <2> QED
    BY <2>1, <2>2, <2>3, <2>4 DEF Ordered
<1>5. Ranked(S, MoreSimilar) =
        [k \in 1..Cardinality(S) |->
            CHOOSE x \in S : Cardinality({y \in S : <<y, x>> \in BySimilar}) = k - 1]
  <2> DEFINE f(k) == CHOOSE x \in S : Cardinality({y \in S : <<y, x>> \in BySimilar}) = k - 1
             g(k) == CHOOSE x \in S : Cardinality({y \in S : MoreSimilar(y, x)}) = k - 1
  <2>1. \A x \in S : {y \in S : <<y, x>> \in BySimilar} = {y \in S : MoreSimilar(y, x)}
    BY <1>2
  <2>2. \A k : f(k) = g(k)
    BY <2>1
  <2>3. Ranked(S, MoreSimilar) = [k \in 1..Cardinality(S) |-> g(k)]
    BY DEF Ranked
  <2> HIDE DEF f, g
  <2>4. [k \in 1..Cardinality(S) |-> g(k)] = [k \in 1..Cardinality(S) |-> f(k)]
    BY <2>2
  <2>5. Ranked(S, MoreSimilar) = [k \in 1..Cardinality(S) |-> f(k)]
    BY <2>3, <2>4
  <2> QED
    BY <2>5 DEF f
<1>6. Lists(Ranked(S, MoreSimilar), S, BySimilar)
  BY <1>4, <1>5, RankLists
<1>7. \A u, w \in S : <<u, w>> \in BySimilar => w.ops <= u.ops
  BY <1>1, <1>2 DEF MoreSimilar
<1> QED
  BY <1>4, <1>6, <1>7

\* find_similar_functions: the matches and failures of a window, the asked one apart.
LEMMA SimilarGives ==
    ASSUME op = "find_similar_functions", NEW p \in Programs, NEW r, Valid(r), NEW time \in Nat
    PROVE  /\ Scanning(r) => ScanGiven(p, r, Answer(p, r, time))
           /\ \A next \in GoOn(r, Answer(p, r, time)) : Valid(next)
           /\ Accepts(r, Answer(p, r, time))
<1> DEFINE v == Answer(p, r, time)
           w == Window(p, r, time)
           all == EntriesAfter(p, r.start_after)
           others == {i \in DOMAIN w : w[i].at # r.address}
           bad == {i \in others : ~ Decompiles(p, w[i].at)}
           A == {w[i] : i \in {i \in others : Decompiles(p, w[i].at)}}
           B == {w[i] : i \in bad}
           ranked == Ranked(A, MoreSimilar)
           found == Take(ranked, 0, r.result_limit)
           failures == Chosen(w, bad)
           rows == found \o failures
           n == Len(w)
           more == Len(all) > n
           next == [r EXCEPT !.start_after = w[n].at]
<1>1. v = [address |-> r.address, scanned |-> n, rows |-> found, failures |-> failures,
           has_more |-> more, next_cursor |-> LastSeen(w)]
  BY DEF Answer, Searches, FindSimilarFunctions
<1>2. op \in Windows /\ r.result_limit \in Nat /\ r.function_limit \in Nat
  BY WindowParams DEF Windows
<1>3. WindowGiven(p, r, w, all)
  BY <1>2, WindowIs
<1> HIDE DEF w, all, v
<1>4. /\ n \in Nat /\ n <= r.function_limit /\ DOMAIN w = 1..n /\ n <= Len(all) /\ Len(all) \in Nat
      /\ \A i \in DOMAIN w : /\ w[i] \in ToSet(p.units) /\ w[i].at \in Offset /\ w[i].at \in Nat
                             /\ w[i].at > r.start_after
      /\ Len(all) = n => {w[i].at : i \in DOMAIN w} = Entries(p) \ (0..r.start_after)
      /\ n # 0 => {w[i].at : i \in DOMAIN w} =
                    {at \in Entries(p) \ (0..r.start_after) : ~ (at > w[n].at)}
  BY <1>3 DEF WindowGiven
<1>5. Lists(w, ToSet(w), ByPlace) /\ Ordered(ToSet(w), ByPlace)
  BY <1>3 DEF WindowGiven
<1>6. w = <<>> <=> n = 0
  <2>1. w \in Seq(ToSet(w))
    BY <1>5, ListIs
  <2> QED
    BY <2>1, EmptySeq, SeqEqual
<1> HIDE DEF n
<1>7. /\ n = 0 => LastSeen(w) = None
      /\ n # 0 => LastSeen(w) = w[n].at /\ n \in DOMAIN w /\ w[n].at \in Offset
                  /\ w[n].at # None /\ w[n].at > r.start_after
  BY <1>4, <1>6, NoneIsNoOffset DEF LastSeen, n
\* Matches and failures share no function, and together they are all but the one asked about.
<1>8. /\ A \subseteq ToSet(p.units) /\ B \subseteq ToSet(p.units) /\ A \cup B \subseteq ToSet(w)
      /\ \A x \in A : \A y \in B : x # y
      /\ {u.at : u \in A \cup B} = {w[i].at : i \in DOMAIN w} \ {r.address}
      /\ bad \in SUBSET DOMAIN w
  <2>1. A = {u \in ToSet(w) : u.at # r.address /\ Decompiles(p, u.at)}
    BY DEF ToSet
  <2>2. B = {u \in ToSet(w) : u.at # r.address /\ ~ Decompiles(p, u.at)}
    BY DEF ToSet
  <2>3. ToSet(w) \subseteq ToSet(p.units) /\ {w[i].at : i \in DOMAIN w} = {u.at : u \in ToSet(w)}
    BY <1>4 DEF ToSet
  <2>4. bad \in SUBSET DOMAIN w
    OBVIOUS
  <2> HIDE DEF A, B, bad
  <2>5. \A x \in A : \A y \in B : x # y
    BY <2>1, <2>2
  <2>6. {u.at : u \in A \cup B} = {w[i].at : i \in DOMAIN w} \ {r.address}
    BY <2>1, <2>2, <2>3
  <2> QED
    BY <2>1, <2>2, <2>3, <2>4, <2>5, <2>6
<1>9. /\ Ordered(A, BySimilar) /\ Lists(ranked, A, BySimilar)
      /\ \A x, y \in A : <<x, y>> \in BySimilar => y.ops <= x.ops
  <2> HIDE DEF A
  <2> QED
    BY <1>8, SimilarLists
<1>10. Ordered(B, ByPlace) /\ Lists(failures, B, ByPlace)
  <2>1. DOMAIN w = DOMAIN w /\ Ordered(ToSet(w), ByPlace) /\ Lists(w, ToSet(w), ByPlace)
    BY <1>5
  <2> HIDE DEF bad
  <2> QED
    BY <1>8, <2>1, ChosenLists
<1> HIDE DEF A, B, ranked, failures, others, bad
<1>11. /\ Len(ranked) \in Nat /\ Len(ranked) = Cardinality(A) /\ DOMAIN ranked = 1..Len(ranked)
       /\ ToSet(ranked) = A
       /\ \A j, k \in DOMAIN ranked : <<ranked[j], ranked[k]>> \in BySimilar <=> j < k
       /\ \A i \in DOMAIN ranked : ranked[i] \in A
  BY <1>9, ListIs
<1>12. /\ Len(failures) \in Nat /\ Len(failures) = Cardinality(B) /\ failures \in Seq(B)
       /\ DOMAIN failures = 1..Len(failures)
       /\ IsInjective(failures) /\ ToSet(failures) = B /\ \A i \in DOMAIN failures : failures[i] \in B
  BY <1>10, ListIs
<1> DEFINE m == IF r.result_limit <= Len(ranked) THEN r.result_limit ELSE Len(ranked)
           C == {ranked[i] : i \in 1..m}
<1>13. /\ m \in Nat /\ m <= Len(ranked) /\ Len(found) = m /\ Ordered(C, BySimilar)
       /\ Lists(found, C, BySimilar) /\ \A i \in 1..m : found[i] = ranked[i]
  BY <1>2, <1>9, TakeLists
<1>14. m <= r.result_limit
  BY <1>2, <1>11
<1>15. r.result_limit >= Len(ranked) => m = Len(ranked)
  BY <1>2, <1>11
<1> HIDE DEF found, m
<1>16. /\ found \in Seq(C) /\ IsInjective(found) /\ ToSet(found) = C /\ DOMAIN found = 1..m
       /\ \A i \in DOMAIN found : found[i] \in C
  BY <1>13, ListIs
<1>17. C \subseteq A /\ (m = Len(ranked) => C = A)
  BY <1>11, <1>13 DEF ToSet
<1> HIDE DEF C
\* No more matches and failures than functions looked at.
<1>18. Cardinality(A) + Cardinality(B) <= n
  <2>1. IsFiniteSet(A) /\ IsFiniteSet(B) /\ IsFiniteSet(ToSet(w)) /\ Cardinality(ToSet(w)) = n
    BY <1>5, <1>9, <1>10, ListIs DEF Ordered, n
  <2>2. A \cap B = {}
    BY <1>8
  <2>3. Cardinality(A \cup B) = Cardinality(A) + Cardinality(B) - Cardinality(A \cap B)
    BY <2>1, FS_Union
  <2>4. Cardinality(A \cap B) = 0
    BY <2>2, FS_EmptySet
  <2>5. Cardinality(A \cup B) <= n
    BY <1>8, <2>1, FS_Subset
  <2>6. Cardinality(A) \in Nat /\ Cardinality(B) \in Nat
    BY <1>11, <1>12
  <2> QED
    BY <1>4, <2>3, <2>4, <2>5, <2>6
<1>19. Cardinality(A) \in Nat /\ Cardinality(B) \in Nat /\ Cardinality(A) <= n
  BY <1>4, <1>11, <1>12, <1>18
<1>20. /\ rows \in Seq(C \cup B) /\ IsInjective(rows) /\ ToSet(rows) = C \cup B
  <2>1. \A i \in DOMAIN found, j \in DOMAIN failures : found[i] # failures[j]
    BY <1>8, <1>12, <1>16, <1>17
  <2>2. found \in Seq(C) /\ IsInjective(found) /\ ToSet(found) = C
    BY <1>16
  <2>3. failures \in Seq(B) /\ IsInjective(failures) /\ ToSet(failures) = B
    BY <1>12
  <2>4. /\ found \o failures \in Seq(C \cup B) /\ IsInjective(found \o failures)
        /\ ToSet(found \o failures) = ToSet(found) \cup ToSet(failures)
    <3>1. Joined(found, failures, C, B)
      BY <2>2, <2>3, JoinLists
    <3> QED
      BY <2>1, <2>2, <2>3, <3>1 DEF Joined
  <2> QED
    BY <2>2, <2>3, <2>4
<1> HIDE DEF rows
<1> DEFINE at == [i \in DOMAIN rows |-> rows[i].at]
<1>21. at \in Seq(Offset) /\ IsInjective(at) /\ ToSet(at) = {u.at : u \in C \cup B}
  <2>1. C \cup B \in SUBSET ToSet(p.units)
    BY <1>8, <1>17
  <2> QED
    BY <1>20, <2>1, PlacesOf
<1>22. /\ v # <<>> /\ v.address = r.address /\ v.scanned = n /\ v.rows = found
       /\ v.failures = failures /\ v.has_more = more /\ v.next_cursor = LastSeen(w)
  BY <1>1
<1>23. Rows(v) = at
  BY <1>22 DEF Rows, Searches, rows
<1> HIDE DEF at
<1>24. RowSet = Offset
  BY <1>2 DEF RowSet, Searches, Windows
<1>25. Ends(v) <=> ~ more
  BY <1>2, <1>22 DEF Ends, Windows
<1>26. GoOn(r, v) = IF more /\ LastSeen(w) # None THEN {[r EXCEPT !.start_after = LastSeen(w)]} ELSE {}
  BY <1>2, <1>22 DEF GoOn, Searches, Pages, Windows
<1>27. Wanted(p, r) = Entries(p) \ ((0..r.start_after) \cup {r.address})
  BY <1>2, EntriesWanted
<1>28. ASSUME Scanning(r)
       PROVE  ScanGiven(p, r, v)
  <2>1. C = A
    <3>1. r.function_limit <= r.result_limit
      BY <1>28 DEF Scanning
    <3>2. r.result_limit >= Len(ranked)
      BY <1>2, <1>4, <1>11, <1>19, <3>1
    <3> QED
      BY <1>15, <1>17, <3>2
  <2>2. ToSet(Rows(v)) = {w[i].at : i \in DOMAIN w} \ {r.address}
    BY <1>8, <1>21, <1>23, <2>1
  <2>3. ~ more => GoOn(r, v) = {} /\ ToSet(Rows(v)) = Wanted(p, r)
    <3> SUFFICES ASSUME ~ more
                 PROVE  GoOn(r, v) = {} /\ ToSet(Rows(v)) = Wanted(p, r)
      OBVIOUS
    <3>1. Len(all) = n
      BY <1>4
    <3> QED
      BY <1>4, <1>26, <1>27, <2>2, <3>1
  <2>4. n = 0 => GoOn(r, v) = {}
    BY <1>7, <1>26
  <2>5. more /\ n # 0 => /\ GoOn(r, v) = {next} /\ GoesOn(r, next)
                         /\ ToSet(Rows(v)) = {x \in Wanted(p, r) : ~ Ahead(next, x)}
    <3> SUFFICES ASSUME more, n # 0
                 PROVE  /\ GoOn(r, v) = {next} /\ GoesOn(r, next)
                        /\ ToSet(Rows(v)) = {x \in Wanted(p, r) : ~ Ahead(next, x)}
      OBVIOUS
    <3>1. GoOn(r, v) = {next}
      BY <1>7, <1>26
    <3>2. GoesOn(r, next) /\ next.start_after = w[n].at
      BY <1>2, <1>7, <1>28, WindowMoves
    <3> HIDE DEF next
    <3>3. \A x : Ahead(next, x) <=> x > w[n].at
      BY <1>2, <3>2 DEF Ahead, Windows, Searches
    <3> QED
      BY <1>4, <1>27, <2>2, <3>1, <3>2, <3>3
  <2> HIDE DEF more, next
  <2> QED
    BY <1>21, <1>22, <1>23, <1>24, <1>25, <2>3, <2>4, <2>5 DEF ScanGiven
<1>29. Accepts(r, v)
  <2>1. Cursor(v, v.scanned)
    BY <1>7, <1>22 DEF Cursor
  <2>2. v.scanned > 0 => Advances(r.start_after, v.next_cursor)
    BY <1>4, <1>7, <1>22 DEF Advances
  <2>3. Len(v.rows) <= r.result_limit /\ Len(v.rows) + Len(v.failures) <= v.scanned
    BY <1>4, <1>11, <1>12, <1>13, <1>14, <1>18, <1>19, <1>22
  <2>4. \A i \in 2..Len(v.rows) : v.rows[i].ops <= v.rows[i - 1].ops
    <3> SUFFICES ASSUME NEW i \in 2..m
                 PROVE  found[i].ops <= found[i - 1].ops
      BY <1>13, <1>22
    <3>1. i \in 1..m /\ i - 1 \in 1..m /\ i \in DOMAIN ranked /\ i - 1 \in DOMAIN ranked /\ i - 1 < i
      BY <1>11, <1>13
    <3>2. found[i] = ranked[i] /\ found[i - 1] = ranked[i - 1]
      BY <1>13, <3>1
    <3>3. <<ranked[i - 1], ranked[i]>> \in BySimilar /\ ranked[i] \in A /\ ranked[i - 1] \in A
      BY <1>11, <3>1
    <3> QED
      BY <1>9, <3>2, <3>3
  <2>5. AcceptsSimilar(r, v)
    BY <1>4, <1>22, <2>1, <2>2, <2>3, <2>4 DEF AcceptsSimilar
  <2> QED
    BY <2>5 DEF Accepts, Searches
<1>30. \A goal \in GoOn(r, v) : Valid(goal)
  <2>1. LastSeen(w) # None => LastSeen(w) \in Offset
    BY <1>7
  <2>2. \A c \in Offset : Valid([r EXCEPT !.start_after = c])
    BY <1>2, NextWindow
  <2> QED
    BY <1>26, <2>1, <2>2
<1> QED
  BY <1>28, <1>29, <1>30 DEF v

-----------------------------------------------------------------------------
(* The references of a range: pairs of an offset and a number.               *)

ByEnd == {q \in (Int \X Int) \X (Int \X Int) : EarlierEnd(q[1], q[2])}
\* A place that lies in the range, and behind what r was to leave out.
InRange(r, end) ==
    end[1] \in From(r)..r.end /\ (end[1] = r.cursor => end[2] > r.cursor_offset)
\* The request that goes on with this one.
FromEnd(r, end) == [r EXCEPT !.cursor = end[1], !.cursor_offset = end[2] - 1]

LEMMA LastReferenceIsNumber == LastReference \in Nat
  BY SMT DEF LastReference

LEMMA RangeParams ==
    ASSUME op = "get_references_range", NEW r, Valid(r)
    PROVE  /\ r.start \in Int /\ r.end \in Int /\ r.start \in Offset /\ r.end \in Offset
           /\ r.start <= r.end /\ r.start # None /\ r.cursor \in Int
           /\ r.cursor # None => r.cursor \in r.start..r.end
           /\ r.cursor_offset \in Nat
           /\ r.limit \in Nat /\ r.limit > 0 /\ r.scan_limit \in Nat /\ r.scan_limit > 0
           /\ From(r) \in Int /\ From(r) \in r.start..r.end /\ From(r) \in Offset
           /\ r.cursor # None => From(r) = r.cursor
<1>1. r \in ReferencesRangeParams
  BY DEF Valid
<1>2. /\ r.start \in Offset /\ r.end \in Offset /\ r.cursor \in ScanOffset
      /\ r.cursor_offset \in 0..LastReference /\ r.limit \in 1..500 /\ r.scan_limit \in ScanSteps
      /\ ScanRange(r)
  BY <1>1 DEF ReferencesRangeParams
<1>3. /\ r.start \in Int /\ r.end \in Int /\ r.cursor \in Int
      /\ r.start # None /\ r.cursor_offset \in Nat /\ r.limit \in Nat /\ r.limit > 0
      /\ r.scan_limit \in Nat /\ r.scan_limit > 0
  BY <1>2, OffsetIs, NoneIsNoOffset, LastReferenceIsNumber, StepsAreNumbers DEF ScanOffset
<1>4. r.start <= r.end /\ (r.cursor # None => r.cursor \in r.start..r.end)
  BY <1>2, <1>3 DEF ScanRange
<1>5. /\ From(r) \in Int /\ From(r) \in r.start..r.end
      /\ r.cursor # None => From(r) = r.cursor
  BY <1>3, <1>4 DEF From
<1>6. From(r) \in Offset
  BY <1>2, <1>3, <1>5, OffsetsAreNumbers DEF Offset
<1> QED
  BY <1>2, <1>3, <1>4, <1>5, <1>6

\* A cursor and its offset name the reference the next answer begins with.
LEMMA EndMoves ==
    ASSUME op = "get_references_range", NEW r, Valid(r), NEW end \in Int \X Int,
           InRange(r, end), end[2] \in 1..LastReference
    PROVE  /\ GoesOn(r, FromEnd(r, end))
           /\ \A x \in RowSet : Ahead(FromEnd(r, end), x) <=> ~ EarlierEnd(x, end)
<1> DEFINE next == FromEnd(r, end)
           c == end[1]
           k == end[2] - 1
<1>1. /\ r.start \in Int /\ r.end \in Int /\ r.start \in Offset /\ r.end \in Offset
      /\ r.start <= r.end /\ r.start # None /\ r.cursor \in Int
      /\ r.cursor_offset \in Nat /\ From(r) \in Int /\ From(r) \in r.start..r.end
      /\ r.cursor # None => From(r) = r.cursor
  BY RangeParams
<1>2. /\ c \in Int /\ c >= From(r) /\ c \in r.start..r.end /\ c <= r.end
      /\ k \in Int /\ k >= 0 /\ k <= LastReference /\ k \in 0..LastReference
      /\ end[2] \in Int /\ k + 1 = end[2]
      /\ c = r.cursor => k >= r.cursor_offset
  <2>1. c \in From(r)..r.end /\ (c = r.cursor => end[2] > r.cursor_offset)
    BY DEF InRange
  <2> QED
    BY <1>1, <2>1, LastReferenceIsNumber
<1>3. c \in Offset /\ c # None
  BY <1>1, <1>2, OffsetsAreNumbers, NoneIsNoOffset DEF Offset
<1>4. r \in ReferencesRangeParams
  BY DEF Valid
<1>5. /\ next.start = r.start /\ next.end = r.end /\ next.cursor = c /\ next.cursor_offset = k
      /\ next \in [start : Offset, end : Offset, direction : {"from", "to"}, cursor : ScanOffset,
                   cursor_offset : 0..LastReference, limit : 1..500, scan_limit : ScanSteps]
  BY <1>2, <1>3, <1>4 DEF ReferencesRangeParams, FromEnd, ScanOffset
<1> HIDE DEF next
<1>6. Valid(next)
  <2>a. /\ r.start # None /\ r.end # None /\ r.start <= r.end
        /\ c \in {None} \cup r.start..r.end
    BY <1>1, <1>2, NoneIsNoOffset
  <2>b. next.start # None /\ next.end # None /\ next.start <= next.end
        /\ next.cursor \in {None} \cup next.start..next.end
    BY <1>5, <2>a, Zenon
  <2>1. ScanRange(next)
    BY <2>b, Zenon DEF ScanRange
  <2>2. next \in ReferencesRangeParams
    BY <1>3, <1>5, <2>1 DEF ReferencesRangeParams
  <2> QED
    BY <2>2 DEF Valid
<1>7. Scanning(next)
  BY DEF Scanning, Scans
<1>8. From(next) = c
  BY <1>3, <1>5 DEF From
<1>9. RowSet = Offset \X Nat
  BY DEF RowSet, Searches, Windows
<1>10. \A x : /\ Ahead(next, x) <=> x[1] > c \/ (x[1] = c /\ x[2] > k)
              /\ Ahead(r, x) <=> x[1] > From(r)
                                 \/ (x[1] = From(r) /\ (x[1] = r.cursor => x[2] > r.cursor_offset))
  BY <1>5, <1>8 DEF Ahead, Searches, Windows
<1>11. \A x \in RowSet : x[1] \in Offset /\ x[1] \in Int /\ x[2] \in Nat
  BY <1>9, OffsetIs
<1> HIDE DEF c, k
<1>12. ASSUME NEW x \in RowSet, Ahead(next, x)
       PROVE  Ahead(r, x)
  <2>1. x[1] \in Int /\ x[2] \in Int
    BY <1>11
  <2>2. CASE x[1] > c
    <3>1. x[1] > From(r)
      BY <1>1, <1>2, <2>1, <2>2
    <3> QED
      BY <1>10, <3>1
  <2>3. CASE x[1] = c /\ x[2] > k
    <3>1. c = r.cursor => x[2] > r.cursor_offset
      BY <1>1, <1>2, <2>1, <2>3
    <3>2. c > From(r) \/ c = From(r)
      BY <1>1, <1>2
    <3> QED
      BY <1>10, <2>3, <3>1, <3>2
  <2> QED
    BY <1>10, <1>12, <2>2, <2>3
<1>13. ASSUME NEW q \in Programs
       PROVE  Wanted(q, next) = {x \in Wanted(q, r) : Ahead(next, x)}
  <2>1. /\ Wanted(q, r) = {x \in (q.marks \cap (From(r)..r.end)) \X (1..q.size) :
                            x[1] = r.cursor => x[2] > r.cursor_offset}
        /\ Wanted(q, next) = {x \in (q.marks \cap (c..r.end)) \X (1..q.size) :
                            x[1] = c => x[2] > k}
    BY <1>5, <1>8 DEF Wanted, Pages, Searches
  <2>2. ASSUME NEW x \in q.marks \X (1..q.size)
        PROVE  x \in Wanted(q, next) <=> x \in Wanted(q, r) /\ Ahead(next, x)
    <3>1. x[1] \in q.marks /\ x[1] \in Int /\ x[2] \in Int
      BY MarksAreNumbers, SizesAreNumbers
    <3>2. x \in Wanted(q, next) <=> x[1] \in c..r.end /\ (x[1] = c => x[2] > k)
      BY <2>1
    <3>3. x \in Wanted(q, r) <=> x[1] \in From(r)..r.end /\ (x[1] = r.cursor => x[2] > r.cursor_offset)
      BY <2>1
    <3>4. x[1] \in c..r.end <=> x[1] >= c /\ x[1] <= r.end
      BY <1>1, <1>2, <3>1
    <3>5. x[1] \in From(r)..r.end <=> x[1] >= From(r) /\ x[1] <= r.end
      BY <1>1, <3>1
    <3>6. x[1] >= c <=> x[1] > c \/ x[1] = c
      BY <1>2, <3>1
    <3>7. x[1] >= c => x[1] >= From(r)
      BY <1>1, <1>2, <3>1
    <3>8. (x[1] >= c /\ (x[1] = c => x[2] > k) /\ x[1] = r.cursor) => x[2] > r.cursor_offset
      <4> SUFFICES ASSUME x[1] >= c, x[1] = c => x[2] > k, x[1] = r.cursor
                   PROVE  x[2] > r.cursor_offset
        OBVIOUS
      <4>1. r.cursor # None
        BY <3>1, MarksAreNumbers, ProgramIs, NoneIsNoOffset
      <4>2. c = r.cursor
        BY <1>1, <1>2, <3>1, <4>1
      <4> QED
        BY <1>1, <1>2, <3>1, <4>2
    <3> QED
      BY <1>10, <3>2, <3>3, <3>4, <3>5, <3>6, <3>7, <3>8
  <2>3. Wanted(q, r) \subseteq q.marks \X (1..q.size) /\ Wanted(q, next) \subseteq q.marks \X (1..q.size)
    BY <2>1
  <2> QED
    BY <2>2, <2>3
<1>14. ASSUME NEW x \in RowSet
       PROVE  Ahead(next, x) <=> ~ EarlierEnd(x, end)
  <2>1. x[1] \in Int /\ x[2] \in Int
    BY <1>11
  <2>2. EarlierEnd(x, end) <=> x[1] < c \/ (x[1] = c /\ x[2] < end[2])
    BY DEF EarlierEnd, c
  <2>3. x[2] > k <=> ~ (x[2] < end[2])
    BY <1>2, <2>1
  <2>4. x[1] > c \/ x[1] = c <=> ~ (x[1] < c)
    BY <1>2, <2>1
  <2>5. ~ (x[1] > c /\ x[1] = c) /\ ~ (x[1] > c /\ x[1] < c)
    BY <1>2, <2>1
  <2> QED
    BY <1>10, <2>2, <2>3, <2>4, <2>5
<1>15. GoesOn(r, next)
  BY <1>6, <1>7, <1>12, <1>13 DEF GoesOn
<1> QED
  BY <1>14, <1>15 DEF next

LEMMA EndsAreList ==
    ASSUME NEW S \in SUBSET (Int \X Int), IsFiniteSet(S)
    PROVE  /\ Ordered(S, ByEnd) /\ Lists(Ranked(S, EarlierEnd), S, ByEnd)
           /\ \A x, y \in S : <<x, y>> \in ByEnd <=> EarlierEnd(x, y)
<1>1. \A x \in S : x[1] \in Int /\ x[2] \in Int /\ x = <<x[1], x[2]>>
  OBVIOUS
<1>2. \A x, y \in S : <<x, y>> \in ByEnd <=> EarlierEnd(x, y)
  BY DEF ByEnd
<1>3. Ordered(S, ByEnd)
  <2>1. \A x \in S : <<x, x>> \notin ByEnd
    BY <1>1, <1>2 DEF EarlierEnd
  <2>2. \A x, y, z \in S : <<x, y>> \in ByEnd /\ <<y, z>> \in ByEnd => <<x, z>> \in ByEnd
    BY <1>1, <1>2 DEF EarlierEnd
  <2>3. \A x, y \in S : x # y => <<x, y>> \in ByEnd \/ <<y, x>> \in ByEnd
    <3> TAKE x, y \in S
    <3>1. x # y => x[1] # y[1] \/ x[2] # y[2]
      BY <1>1
    <3> QED
      BY <1>1, <1>2, <3>1 DEF EarlierEnd
  <2> QED
    BY <2>1, <2>2, <2>3 DEF Ordered
<1>4. Ranked(S, EarlierEnd) =
        [k \in 1..Cardinality(S) |->
            CHOOSE x \in S : Cardinality({y \in S : <<y, x>> \in ByEnd}) = k - 1]
  <2> DEFINE f(k) == CHOOSE x \in S : Cardinality({y \in S : <<y, x>> \in ByEnd}) = k - 1
             g(k) == CHOOSE x \in S : Cardinality({y \in S : EarlierEnd(y, x)}) = k - 1
  <2>1. \A x \in S : {y \in S : <<y, x>> \in ByEnd} = {y \in S : EarlierEnd(y, x)}
    BY <1>2
  <2>2. \A k : f(k) = g(k)
    BY <2>1
  <2>3. Ranked(S, EarlierEnd) = [k \in 1..Cardinality(S) |-> g(k)]
    BY DEF Ranked
  <2> HIDE DEF f, g
  <2>4. [k \in 1..Cardinality(S) |-> g(k)] = [k \in 1..Cardinality(S) |-> f(k)]
    BY <2>2
  <2>5. Ranked(S, EarlierEnd) = [k \in 1..Cardinality(S) |-> f(k)]
    BY <2>3, <2>4
  <2> QED
    BY <2>5 DEF f
<1> QED
  BY <1>2, <1>3, <1>4, RankLists

\* get_references_range: the references in front of the cursor and its offset.
LEMMA ReferencesGive ==
    ASSUME op = "get_references_range", NEW p \in Programs, NEW r, Valid(r), NEW time \in Nat,
           Answers(p, r)
    PROVE  ScanGiven(p, r, Answer(p, r, time)) /\ Accepts(r, Answer(p, r, time))
<1> DEFINE v == Answer(p, r, time)
           W == {x \in (p.marks \cap (From(r)..r.end)) \X (1..p.size) :
                    x[1] = r.cursor => x[2] > r.cursor_offset}
           left == Ranked(W, EarlierEnd)
           n == Len(left)
           m == Least({n, time, r.limit, r.scan_limit})
           reason == IF m = n THEN "none"
                     ELSE IF m = time THEN "time_limit"
                     ELSE IF m = r.limit THEN "result_limit" ELSE "scan_limit"
           rows == Take(left, 0, m)
           end == left[m + 1]
           next == FromEnd(r, end)
           cursor == IF reason = "none" THEN None ELSE end[1]
           rank == IF reason = "none" THEN 0 ELSE end[2] - 1
<1>1. v = [start |-> r.start, end |-> r.end, direction |-> r.direction, rows |-> rows,
           scanned |-> m, status |-> Status(reason), cursor |-> cursor, cursor_offset |-> rank]
  BY DEF Answer, Searches, ReferencesRange
<1>2. /\ r.start \in Int /\ r.end \in Int /\ r.start <= r.end /\ r.start # None /\ r.cursor \in Int
      /\ r.limit \in Nat /\ r.scan_limit \in Nat /\ From(r) \in Int /\ From(r) \in r.start..r.end
      /\ r.cursor # None => From(r) = r.cursor
  BY RangeParams
<1>3. Wanted(p, r) = W
  BY DEF Wanted, Pages, Searches
<1>4. \A x \in W : /\ x \in Int \X Int /\ x \in Offset \X Nat
                   /\ x[1] \in Offset /\ x[1] \in Int /\ x[2] \in Int /\ x[2] \in 1..p.size
                   /\ x[1] \in p.marks \cap (From(r)..r.end)
                   /\ InRange(r, x)
  <2>1. /\ \A at \in p.marks : at \in Offset /\ at \in Int
        /\ \A i \in 1..p.size : i \in Nat /\ i \in Int
    BY ProgramIs, OffsetIs
  <2> QED
    BY <2>1 DEF InRange
<1>5. IsFiniteSet(W)
  <2>1. IsFiniteSet(p.marks \cap (From(r)..r.end))
    BY MarksAreNumbers
  <2>2. IsFiniteSet(1..p.size)
    BY SizesAreNumbers, FS_Interval
  <2>3. IsFiniteSet((p.marks \cap (From(r)..r.end)) \X (1..p.size))
    BY <2>1, <2>2, FS_Product
  <2> QED
    BY <2>3, FS_Subset
<1>6. /\ Ordered(W, ByEnd) /\ Lists(left, W, ByEnd)
      /\ \A x, y \in W : <<x, y>> \in ByEnd <=> EarlierEnd(x, y)
  <2>1. W \in SUBSET (Int \X Int)
    BY <1>4
  <2> HIDE DEF W
  <2> QED
    BY <1>5, <2>1, EndsAreList
<1> HIDE DEF W, left, v
<1>7. /\ n \in Nat /\ DOMAIN left = 1..n /\ \A i \in 1..n : left[i] \in W
      /\ \A j, k \in DOMAIN left : <<left[j], left[k]>> \in ByEnd <=> j < k
  BY <1>6, ListIs
<1>8. m \in Nat /\ m <= n /\ m <= r.limit /\ m <= r.scan_limit
  <2> DEFINE T == {n, time, r.limit, r.scan_limit}
  <2>1. T \subseteq Nat /\ T # {} /\ n \in T /\ r.limit \in T /\ r.scan_limit \in T
    BY <1>2, <1>7
  <2> HIDE DEF T
  <2>2. Min(T) \in Nat /\ \A k \in T : Min(T) <= k
    BY <2>1, LeastIs
  <2> QED
    BY <2>1, <2>2 DEF Least, T
<1>9. /\ reason # "none" <=> m < n
      /\ reason # "none" => reason \in {"scan_limit", "time_limit", "result_limit"}
  BY <1>7, <1>8
<1> HIDE DEF m, reason
<1>10. /\ Len(rows) = m /\ Ordered({left[i] : i \in 1..m}, ByEnd)
       /\ Lists(rows, {left[i] : i \in 1..m}, ByEnd) /\ \A i \in 1..m : rows[i] = left[i]
  <2> DEFINE k == IF m <= Len(left) THEN m ELSE Len(left)
  <2>1. k = m
    BY <1>7, <1>8 DEF n
  <2>2. /\ Len(rows) = k /\ Ordered({left[i] : i \in 1..k}, ByEnd)
        /\ Lists(rows, {left[i] : i \in 1..k}, ByEnd) /\ \A i \in 1..k : rows[i] = left[i]
    BY <1>6, <1>8, TakeLists
  <2> HIDE DEF k
  <2> QED
    BY <2>1, <2>2
<1>11. /\ m = n => {left[i] : i \in 1..m} = W
       /\ m < n => end \in W /\ {left[i] : i \in 1..m} = {x \in W : <<x, end>> \in ByEnd}
  <2>1. m \in 0..Len(left)
    BY <1>7, <1>8
  <2> QED
    BY <1>6, <2>1, CutList
<1> HIDE DEF n, rows
<1>12. /\ rows \in Seq({left[i] : i \in 1..m}) /\ IsInjective(rows)
       /\ ToSet(rows) = {left[i] : i \in 1..m} /\ DOMAIN rows = 1..m
  BY <1>10, ListIs
<1>13. {left[i] : i \in 1..m} \subseteq W
  BY <1>7, <1>8
<1> HIDE DEF end, next
<1>14. /\ v # <<>> /\ v.start = r.start /\ v.end = r.end /\ v.direction = r.direction
       /\ v.rows = rows /\ v.scanned = m /\ v.status = Status(reason)
       /\ v.cursor = cursor /\ v.cursor_offset = rank
  BY <1>1
<1>15. Rows(v) = rows
  BY <1>14 DEF Rows, Searches
<1>16. Rows(v) \in Seq(RowSet) /\ IsInjective(Rows(v))
  <2>1. W \subseteq RowSet
    BY <1>4 DEF RowSet, Searches, Windows
  <2>2. Seq({left[i] : i \in 1..m}) \subseteq Seq(RowSet)
    BY <1>13, <2>1, SeqMonotonic
  <2> QED
    BY <1>12, <1>15, <2>2
<1>17. GoOn(r, v) = IF cursor # None
                    THEN {[r EXCEPT !.cursor = cursor, !.cursor_offset = rank]} ELSE {}
  BY <1>14 DEF GoOn, Searches, Pages, Windows
<1>18. m = n => GoOn(r, v) = {} /\ ToSet(Rows(v)) = Wanted(p, r)
  <2> SUFFICES ASSUME m = n
               PROVE  GoOn(r, v) = {} /\ ToSet(Rows(v)) = Wanted(p, r)
    OBVIOUS
  <2>1. cursor = None
    BY <1>7, <1>9
  <2> QED
    BY <1>3, <1>11, <1>12, <1>15, <1>17, <2>1
<1>19. ASSUME m < n
       PROVE  /\ cursor = end[1] /\ rank = end[2] - 1 /\ end \in W /\ cursor \in From(r)..r.end
              /\ cursor \in Int /\ rank \in 0..LastReference
              /\ GoOn(r, v) = {next} /\ GoesOn(r, next)
              /\ ToSet(Rows(v)) = {x \in Wanted(p, r) : ~ Ahead(next, x)}
  <2>1. cursor = end[1] /\ rank = end[2] - 1 /\ end \in W
    BY <1>9, <1>11, <1>19
  <2>2. /\ end \in Int \X Int /\ InRange(r, end) /\ end[1] \in Offset /\ end[1] \in Int
        /\ end[1] \in From(r)..r.end /\ end[2] \in 1..p.size /\ end[2] \in Int
    BY <1>4, <2>1
  <2>3. p.size \in Nat /\ p.size <= LastReference
    <3>1. p.marks \cap (From(r)..r.end) # {}
      BY <1>4, <2>1
    <3>2. RangeAnswers(p, r)
      BY DEF Answers, Searches
    <3> QED
      BY <3>1, <3>2, SizesAreNumbers DEF RangeAnswers
  <2>4. end[2] \in 1..LastReference /\ end[2] - 1 \in 0..LastReference
    BY <2>2, <2>3, LastReferenceIsNumber
  <2>5. cursor # None
    BY <2>1, <2>2, NoneIsNoOffset
  <2>6. GoOn(r, v) = {next}
    BY <1>17, <2>1, <2>5 DEF next, FromEnd
  <2>7. GoesOn(r, next) /\ \A x \in RowSet : Ahead(next, x) <=> ~ EarlierEnd(x, end)
    BY <2>2, <2>4, EndMoves DEF next
  <2>8. W \subseteq RowSet
    BY <1>4 DEF RowSet, Searches, Windows
  <2>9. {x \in W : <<x, end>> \in ByEnd} = {x \in W : ~ Ahead(next, x)}
    BY <1>6, <2>1, <2>7, <2>8
  <2> QED
    BY <1>3, <1>11, <1>12, <1>15, <1>19, <2>1, <2>2, <2>4, <2>6, <2>7, <2>9
<1>20. ScanGiven(p, r, v)
  <2>1. m = n \/ m < n
    BY <1>7, <1>8
  <2> QED
    BY <1>14, <1>16, <1>18, <1>19, <2>1 DEF ScanGiven
<1>21. Accepts(r, v)
  <2>1. v.status.reason = reason /\ v.status.truncated = (reason # "none")
    BY <1>14 DEF Status
  <2>2. Early(v, {"scan_limit", "time_limit", "result_limit"})
    BY <1>9, <2>1 DEF Early
  <2>3. \A at \in From(r)..r.end : Within(r, at)
    <3> TAKE at \in From(r)..r.end
    <3>1. at \in Int /\ at >= From(r) /\ at <= r.end
      BY <1>2
    <3>2. at \in r.start..r.end
      BY <1>2, <3>1
    <3> QED
      BY <1>2, <3>1, <3>2 DEF Within
  <2>4. ASSUME NEW i \in 1..m
        PROVE  /\ rows[i] \in W
               /\ i > 1 => rows[i - 1][1] <= rows[i][1]
    <3>1. rows[i] = left[i] /\ i \in DOMAIN left /\ left[i] \in W
      BY <1>7, <1>8, <1>10
    <3>2. i > 1 => rows[i - 1][1] <= rows[i][1]
      <4> SUFFICES ASSUME i > 1
                   PROVE  rows[i - 1][1] <= rows[i][1]
        OBVIOUS
      <4>1. i - 1 \in 1..m /\ i - 1 \in 1..n /\ i - 1 < i
        BY <1>7, <1>8
      <4>2. rows[i - 1] = left[i - 1] /\ left[i - 1] \in W
        BY <1>7, <1>10, <4>1
      <4>3. EarlierEnd(left[i - 1], left[i])
        BY <1>6, <1>7, <3>1, <4>1, <4>2
      <4>4. left[i - 1][1] \in Int /\ left[i][1] \in Int
        BY <1>4, <3>1, <4>2
      <4> QED
        BY <3>1, <4>2, <4>3, <4>4 DEF EarlierEnd
    <3> QED
      BY <3>1, <3>2
  <2>5. m < n /\ m > 0 => rows[m][1] <= cursor
    <3> SUFFICES ASSUME m < n, m > 0
                 PROVE  rows[m][1] <= cursor
      OBVIOUS
    <3>1. m \in 1..m
      BY <1>8
    <3>2. rows[m] \in {x \in W : <<x, end>> \in ByEnd} /\ end \in W /\ cursor = end[1]
      BY <1>10, <1>11, <1>19, <3>1
    <3>3. EarlierEnd(rows[m], end) /\ rows[m][1] \in Int /\ end[1] \in Int
      BY <1>4, <1>6, <3>2
    <3> HIDE DEF cursor
    <3> QED
      BY <3>2, <3>3 DEF EarlierEnd
  <2>6. rows # <<>> => m > 0
    BY <1>8, <1>10, <1>12, EmptySeq, SeqEqual
  <2>7. m < n => Within(r, cursor) /\ rank \in 0..LastReference
    <3> HIDE DEF cursor, rank
    <3> QED
      BY <1>19, <2>3
  <2>8. \A i \in DOMAIN v.rows :
            Within(r, v.rows[i][1]) /\ (i > 1 => v.rows[i - 1][1] <= v.rows[i][1])
    BY <1>4, <1>12, <1>14, <2>3, <2>4
  <2>9. v.status.truncated => /\ Within(r, v.cursor) /\ v.cursor_offset <= LastReference
                              /\ v.rows # <<>> => v.rows[Len(v.rows)][1] <= v.cursor
    <3> HIDE DEF cursor, rank
    <3>1. rank \in 0..LastReference => rank <= LastReference
      BY LastReferenceIsNumber
    <3> QED
      BY <1>9, <1>10, <1>14, <2>1, <2>5, <2>6, <2>7, <3>1
  <2>10. AcceptsReferencesRange(r, v)
    <3> HIDE DEF cursor, rank
    <3> QED
      BY <1>8, <1>10, <1>14, <2>2, <2>8, <2>9 DEF AcceptsReferencesRange
  <2> QED
    BY <2>10 DEF Accepts, Searches
<1> QED
  BY <1>20, <1>21 DEF v

-----------------------------------------------------------------------------
(* All the scans.                                                           *)

\* What the bridge owes a scan, and that the MCP server takes it.
LEMMA ScansGive ==
    ASSUME op \in Scans, NEW p \in Programs, NEW r, Valid(r), NEW time \in Nat, Answers(p, r)
    PROVE  /\ Scanning(r) => ScanGiven(p, r, Answer(p, r, time))
           /\ \A next \in GoOn(r, Answer(p, r, time)) : Valid(next)
           /\ Accepts(r, Answer(p, r, time))
<1> DEFINE v == Answer(p, r, time)
<1> HIDE DEF v
<1>1. ScanGiven(p, r, v) => \A next \in GoOn(r, v) : Valid(next)
  BY DEF ScanGiven, GoesOn
<1>2. CASE op \in Searches
  BY <1>1, <1>2, SearchGives DEF v
<1>3. CASE op = "get_listing"
  BY <1>1, <1>3, ListingGives DEF v
<1>4. CASE op = "list_comments"
  BY <1>1, <1>4, CommentsGive DEF v
<1>5. CASE op = "get_references_range"
  BY <1>1, <1>5, ReferencesGive DEF v
<1>6. CASE op = "search_decompiled_code"
  BY <1>1, <1>6, SearchDecompiledGives DEF v
<1>7. CASE op = "find_similar_functions"
  BY <1>7, SimilarGives
<1> QED
  BY <1>2, <1>3, <1>4, <1>5, <1>6, <1>7 DEF Scans

\* At the start everything that is wanted lies ahead.
LEMMA AtFirst ==
    ASSUME op \in Scans, NEW p \in Programs, NEW r, Valid(r)
    PROVE  Wanted(p, r) \subseteq RowSet /\ \A x \in Wanted(p, r) : Ahead(r, x)
<1>1. CASE op \in Searches
  <2>1. /\ RowSet = CodeUnit /\ \A x : Ahead(r, x) <=> x.at >= From(r)
        /\ Wanted(p, r) = {u \in ToSet(Code(p)) : u.at \in p.marks \cap (From(r)..Upto(r))}
    BY <1>1 DEF RowSet, Ahead, Wanted, Pages, Searches, Windows
  <2>2. From(r) \in Int /\ Upto(r) \in Int
    BY <1>1, SearchMoves, OffsetIs
  <2>3. ToSet(Code(p)) \subseteq CodeUnit
    BY CodeMembers, UnitIs DEF Code, Instructions
  <2> QED
    BY <2>1, <2>2, <2>3
<1>2. CASE op = "get_listing"
  <2>1. /\ RowSet = CodeUnit /\ \A x : Ahead(r, x) <=> x.end >= r.address
        /\ Wanted(p, r) = {u \in ToSet(p.units) : u.end >= r.address /\ u.at <= EndOf(r)}
    BY <1>2 DEF RowSet, Ahead, Wanted, Pages, Searches, Windows
  <2> QED
    BY <2>1, UnitIs
<1>3. CASE op = "list_comments"
  <2>1. /\ RowSet = Offset /\ \A x : Ahead(r, x) <=> x >= r.address
        /\ Wanted(p, r) = {m \in p.marks : m \in r.address..EndOf(r) /\ TextContains(r.query, m)}
    BY <1>3 DEF RowSet, Ahead, Wanted, Pages, Searches, Windows
  <2>2. r.address \in Int /\ EndOf(r) \in Int /\ p.marks \subseteq Offset
    BY <1>3, SpanParams, ProgramIs
  <2> QED
    BY <2>1, <2>2
<1>4. CASE op = "get_references_range"
  <2>1. /\ RowSet = Offset \X Nat
        /\ \A x : Ahead(r, x) <=>
                    x[1] > From(r)
                    \/ (x[1] = From(r) /\ (x[1] = r.cursor => x[2] > r.cursor_offset))
        /\ Wanted(p, r) = {x \in (p.marks \cap (From(r)..r.end)) \X (1..p.size) :
                            x[1] = r.cursor => x[2] > r.cursor_offset}
    BY <1>4 DEF RowSet, Ahead, Wanted, Pages, Searches, Windows
  <2>2. /\ From(r) \in Int /\ r.end \in Int
        /\ \A at \in p.marks : at \in Offset /\ at \in Int
        /\ \A i \in 1..p.size : i \in Nat
    BY <1>4, RangeParams, ProgramIs, OffsetIs
  <2>3. \A at \in From(r)..r.end : at > From(r) \/ at = From(r)
    BY <2>2
  <2> QED
    BY <2>1, <2>2, <2>3
<1>5. CASE op \in Windows
  <2>1. RowSet = Offset /\ \A x : Ahead(r, x) <=> x > r.start_after
    BY <1>5 DEF RowSet, Ahead, Searches, Windows
  <2>2. Wanted(p, r) \subseteq Offset \ (0..r.start_after)
    BY <1>5, EntriesWanted DEF Windows
  <2>3. \A x \in Offset : x \notin 0..r.start_after => x > r.start_after
    BY <1>5, WindowParams, OffsetIs
  <2> QED
    BY <2>1, <2>2, <2>3
<1> QED
  BY <1>1, <1>2, <1>3, <1>4, <1>5 DEF Scans, Windows

-----------------------------------------------------------------------------
(* Where a scanning client is.                                              *)

Once(s, x) == \E i \in DOMAIN s : s[i] = x /\ \A j \in DOMAIN s : s[j] = x => j = i
\* With the rows s it has come from the request f to the request r: those it has lie
\* behind, those r wants ahead, and of the rows that every version had none is missing.
CameTo(p, f, r, s, rows, changed) ==
    /\ Valid(f) /\ Valid(r) /\ Scanning(r) /\ s \in Seq(RowSet)
    /\ \A q \in Programs : Wanted(q, r) = {x \in Wanted(q, f) : Ahead(r, x)}
    /\ \A i \in DOMAIN s : ~ Ahead(r, s[i])
    /\ rows \subseteq Wanted(p, f)
    /\ \A x \in rows : Ahead(r, x) \/ Once(s, x)
    /\ ~ changed => ToSet(s) = {x \in Wanted(p, f) : ~ Ahead(r, x)} /\ IsInjective(s)
CameThrough(p, f, s, rows, changed) ==
    /\ \A x \in rows : Once(s, x)
    /\ ~ changed => ToSet(s) = Wanted(p, f) /\ IsInjective(s)

\* At its first request a client has nothing and misses nothing.
LEMMA ScanStarts ==
    ASSUME op \in Scans, NEW p \in Programs, NEW f, Valid(f), Scanning(f),
           NEW rows \in SUBSET Wanted(p, f), NEW changed
    PROVE  CameTo(p, f, f, <<>>, rows, changed)
<1>1. \A q \in Programs : Wanted(q, f) = {x \in Wanted(q, f) : Ahead(f, x)}
  BY AtFirst
<1>2. << >> \in Seq(RowSet) /\ DOMAIN << >> = {}
  BY EmptySeq
<1>3. ToSet(<< >>) = {} /\ IsInjective(<< >>)
  BY <1>2 DEF ToSet, IsInjective
<1>4. {x \in Wanted(p, f) : ~ Ahead(f, x)} = {} /\ \A x \in rows : Ahead(f, x)
  BY AtFirst
<1> QED
  BY <1>1, <1>2, <1>3, <1>4 DEF CameTo

\* An edit takes some of the rows that every version had.
LEMMA ScanEdited ==
    ASSUME NEW p, NEW f, NEW r, NEW s, NEW rows, NEW changed,
           CameTo(p, f, r, s, rows, changed),
           NEW q, NEW kept \in SUBSET (rows \cap Wanted(q, f))
    PROVE  CameTo(q, f, r, s, kept, TRUE)
  BY DEF CameTo

\* Rows that come behind others and are none of them.
LEMMA OnceJoined ==
    ASSUME NEW S, NEW s \in Seq(S), NEW t \in Seq(S), NEW x
    PROVE  /\ Once(s, x) /\ x \notin ToSet(t) => Once(s \o t, x)
           /\ IsInjective(t) /\ x \in ToSet(t) /\ x \notin ToSet(s) => Once(s \o t, x)
<1> DEFINE m == Len(s)
           n == Len(t)
           c == s \o t
<1>1. Joined(s, t, S, S)
  BY JoinLists
<1>2. m \in Nat /\ n \in Nat /\ DOMAIN s = 1..m /\ DOMAIN t = 1..n
  BY LenProperties
<1>3. /\ DOMAIN c = 1..(m + n) /\ \A i \in 1..m : c[i] = s[i]
      /\ \A i \in DOMAIN c : i > m => i - m \in DOMAIN t /\ c[i] = t[i - m]
  BY <1>1 DEF Joined
<1> HIDE DEF m, n, c
<1>4. \A j \in DOMAIN c : j \in 1..m \/ j > m
  BY <1>2, <1>3
<1>5. ASSUME Once(s, x), x \notin ToSet(t)
      PROVE  Once(c, x)
  <2>1. PICK i \in DOMAIN s : s[i] = x /\ \A j \in DOMAIN s : s[j] = x => j = i
    BY <1>5 DEF Once
  <2>2. i \in DOMAIN c /\ c[i] = x
    BY <1>2, <1>3, <2>1
  <2>3. ASSUME NEW j \in DOMAIN c, c[j] = x
        PROVE  j = i
    <3>1. ~ (j > m)
      BY <1>3, <1>5, <2>3 DEF ToSet
    <3> QED
      BY <1>2, <1>3, <1>4, <2>1, <2>3, <3>1
  <2> QED
    BY <2>2, <2>3 DEF Once
<1>6. ASSUME IsInjective(t), x \in ToSet(t), x \notin ToSet(s)
      PROVE  Once(c, x)
  <2>1. PICK k \in DOMAIN t : t[k] = x
    BY <1>6 DEF ToSet
  <2> DEFINE i == m + k
  <2>2. i \in 1..(m + n) /\ i > m /\ i - m = k /\ i \in Int
    BY <1>2
  <2> HIDE DEF i
  <2>3. i \in DOMAIN c /\ c[i] = x
    BY <1>3, <2>1, <2>2
  <2>4. ASSUME NEW j \in DOMAIN c, c[j] = x
        PROVE  j = i
    <3>1. j \notin 1..m
      BY <1>2, <1>3, <1>6, <2>4 DEF ToSet
    <3>2. j > m /\ j \in Int
      BY <1>3, <1>4, <3>1
    <3>3. j - m \in DOMAIN t /\ t[j - m] = x
      BY <1>3, <2>4, <3>2
    <3>4. j - m = k
      BY <1>6, <2>1, <3>3 DEF IsInjective
    <3> QED
      BY <1>2, <2>2, <3>2, <3>4
  <2> QED
    BY <2>3, <2>4 DEF Once
<1> QED
  BY <1>5, <1>6 DEF c

\* The rows of an answer are ones the client does not have.
LEMMA NewRows ==
    ASSUME op \in Scans, NEW p \in Programs, NEW f, NEW r, NEW s, NEW rows, NEW changed,
           CameTo(p, f, r, s, rows, changed), NEW t \in Seq(RowSet), IsInjective(t),
           ToSet(t) \subseteq Wanted(p, r)
    PROVE  /\ s \o t \in Seq(RowSet) /\ ToSet(s \o t) = ToSet(s) \cup ToSet(t)
           /\ IsInjective(s) => IsInjective(s \o t)
           /\ \A x \in rows : Ahead(r, x) /\ x \in ToSet(t) => Once(s \o t, x)
           /\ \A x \in rows : ~ Ahead(r, x) => Once(s \o t, x)
           /\ \A x \in ToSet(t) : Ahead(r, x)
           /\ \A x \in ToSet(s) : ~ Ahead(r, x)
<1>1. s \in Seq(RowSet) /\ \A x \in ToSet(s) : ~ Ahead(r, x)
  BY DEF CameTo, ToSet
<1>2. \A x \in ToSet(t) : Ahead(r, x)
  BY DEF CameTo
<1>3. Joined(s, t, RowSet, RowSet)
  BY <1>1, JoinLists
<1>4. RowSet \cup RowSet = RowSet
  OBVIOUS
<1>5. s \o t \in Seq(RowSet) /\ ToSet(s \o t) = ToSet(s) \cup ToSet(t)
  BY <1>3, <1>4 DEF Joined
<1>6. IsInjective(s) => IsInjective(s \o t)
  <2>1. \A i \in DOMAIN s, j \in DOMAIN t : s[i] # t[j]
    BY <1>1, <1>2 DEF ToSet
  <2> QED
    BY <1>3, <2>1 DEF Joined
<1>7. ASSUME NEW x \in rows
      PROVE  /\ Ahead(r, x) /\ x \in ToSet(t) => Once(s \o t, x)
             /\ ~ Ahead(r, x) => Once(s \o t, x)
  <2>1. Ahead(r, x) /\ x \in ToSet(t) => Once(s \o t, x)
    BY <1>1, OnceJoined
  <2>2. ~ Ahead(r, x) => Once(s, x) /\ x \notin ToSet(t)
    BY <1>2 DEF CameTo
  <2> QED
    BY <1>1, <2>1, <2>2, OnceJoined
<1> QED
  BY <1>1, <1>2, <1>5, <1>6, <1>7

\* An answer that names a place takes the client there.
LEMMA ScanMoves ==
    ASSUME op \in Scans, NEW p \in Programs, NEW f, NEW r, NEW s, NEW rows, NEW changed,
           CameTo(p, f, r, s, rows, changed), NEW v, ScanGiven(p, r, v), GoOn(r, v) # {}
    PROVE  \E next : /\ GoOn(r, v) = {next}
                     /\ CameTo(p, f, next, s \o Rows(v), rows, changed)
<1> DEFINE t == Rows(v)
<1>1. PICK next : /\ GoOn(r, v) = {next} /\ GoesOn(r, next)
                  /\ ToSet(t) = {x \in Wanted(p, r) : ~ Ahead(next, x)}
  BY DEF ScanGiven
<1>2. t \in Seq(RowSet) /\ IsInjective(t)
  BY DEF ScanGiven
<1> HIDE DEF t
<1>3. /\ s \o t \in Seq(RowSet) /\ ToSet(s \o t) = ToSet(s) \cup ToSet(t)
      /\ IsInjective(s) => IsInjective(s \o t)
      /\ \A x \in rows : Ahead(r, x) /\ x \in ToSet(t) => Once(s \o t, x)
      /\ \A x \in rows : ~ Ahead(r, x) => Once(s \o t, x)
      /\ \A x \in ToSet(s) : ~ Ahead(r, x)
  <2>1. ToSet(t) \subseteq Wanted(p, r)
    BY <1>1
  <2> QED
    BY <1>2, <2>1, NewRows
<1>4. /\ Valid(f) /\ Valid(next) /\ Scanning(next) /\ s \in Seq(RowSet)
      /\ \A q \in Programs : Wanted(q, r) = {x \in Wanted(q, f) : Ahead(r, x)}
      /\ \A x \in RowSet : Ahead(next, x) => Ahead(r, x)
      /\ \A q \in Programs : Wanted(q, next) = {x \in Wanted(q, r) : Ahead(next, x)}
      /\ rows \subseteq Wanted(p, f)
      /\ ~ changed => ToSet(s) = {x \in Wanted(p, f) : ~ Ahead(r, x)} /\ IsInjective(s)
  BY <1>1 DEF CameTo, GoesOn
<1>5. \A q \in Programs : Wanted(q, f) \subseteq RowSet
  BY <1>4, AtFirst
<1>6. ASSUME NEW q \in Programs
      PROVE  Wanted(q, next) = {x \in Wanted(q, f) : Ahead(next, x)}
  BY <1>4, <1>5
<1>7. \A x \in ToSet(s \o t) : ~ Ahead(next, x)
  <2>1. ToSet(s) \subseteq RowSet
    BY <1>4, ElementOfSeq, LenProperties DEF ToSet
  <2> QED
    BY <1>1, <1>3, <1>4, <2>1
<1>8. \A x \in rows : Ahead(next, x) \/ Once(s \o t, x)
  <2> TAKE x \in rows
  <2>1. CASE Ahead(r, x)
    <3>1. x \in Wanted(p, r)
      BY <1>4, <2>1
    <3> QED
      BY <1>1, <1>3, <2>1, <3>1
  <2>2. CASE ~ Ahead(r, x)
    BY <1>3, <2>2
  <2> QED
    BY <2>1, <2>2
<1>9. ~ changed => ToSet(s \o t) = {x \in Wanted(p, f) : ~ Ahead(next, x)} /\ IsInjective(s \o t)
  <2> SUFFICES ASSUME ~ changed
               PROVE  ToSet(s \o t) = {x \in Wanted(p, f) : ~ Ahead(next, x)} /\ IsInjective(s \o t)
    OBVIOUS
  <2>1. ToSet(s) = {x \in Wanted(p, f) : ~ Ahead(r, x)} /\ IsInjective(s)
    BY <1>4
  <2>2. ToSet(t) = {x \in Wanted(p, f) : Ahead(r, x) /\ ~ Ahead(next, x)}
    BY <1>1, <1>4
  <2>3. \A x \in Wanted(p, f) : Ahead(next, x) => Ahead(r, x)
    BY <1>4, <1>5
  <2> QED
    BY <1>3, <2>1, <2>2, <2>3
<1>10. \A i \in DOMAIN (s \o t) : ~ Ahead(next, (s \o t)[i])
  BY <1>7 DEF ToSet
<1>11. CameTo(p, f, next, s \o t, rows, changed)
  BY <1>3, <1>4, <1>6, <1>8, <1>9, <1>10 DEF CameTo
<1> QED
  BY <1>1, <1>11 DEF t

\* An answer that names none and says so is the end.
LEMMA ScanEnds ==
    ASSUME op \in Scans, NEW p \in Programs, NEW f, NEW r, NEW s, NEW rows, NEW changed,
           CameTo(p, f, r, s, rows, changed), NEW v, ScanGiven(p, r, v),
           GoOn(r, v) = {}, Ends(v)
    PROVE  CameThrough(p, f, s \o Rows(v), rows, changed)
<1> DEFINE t == Rows(v)
<1>1. t \in Seq(RowSet) /\ IsInjective(t) /\ ToSet(t) = Wanted(p, r)
  BY DEF ScanGiven
<1> HIDE DEF t
<1>2. /\ ToSet(s \o t) = ToSet(s) \cup ToSet(t)
      /\ IsInjective(s) => IsInjective(s \o t)
      /\ \A x \in rows : Ahead(r, x) /\ x \in ToSet(t) => Once(s \o t, x)
      /\ \A x \in rows : ~ Ahead(r, x) => Once(s \o t, x)
  BY <1>1, NewRows
<1>3. /\ Wanted(p, r) = {x \in Wanted(p, f) : Ahead(r, x)} /\ rows \subseteq Wanted(p, f)
      /\ ~ changed => ToSet(s) = {x \in Wanted(p, f) : ~ Ahead(r, x)} /\ IsInjective(s)
  BY DEF CameTo
<1>4. \A x \in rows : Once(s \o t, x)
  BY <1>1, <1>2, <1>3
<1>5. ~ changed => ToSet(s \o t) = Wanted(p, f) /\ IsInjective(s \o t)
  BY <1>1, <1>2, <1>3
<1> QED
  BY <1>4, <1>5 DEF CameThrough, t

\* The invariant of the scans.
Started == request = first /\ seen = <<>> /\ reply = <<>> /\ ~ edited /\ always = {}
OnTheWay == CameTo(program, first, request, seen, always, edited)
Over == CameThrough(program, first, seen, always, edited)
ScanInv ==
    op \in Scans =>
        /\ ~ Scanning(first) => always = {}
        /\ phase = "asking" =>
            Started \/ (Valid(request) /\ (Scanning(first) => reply # <<>> /\ OnTheWay))
        /\ phase \in {"sent", "answered"} /\ Scanning(first) => OnTheWay
        /\ phase = "done" /\ Scanning(first) /\ Ends(reply) => Over
        /\ phase = "refused" => request = first
        /\ ~ (phase = "doubt" /\ honest)

\* What is said of the scans depends on the operation only, and that never changes.
LEMMA SamePoint ==
    ASSUME op' = op
    PROVE  /\ \A r : Valid(r)' <=> Valid(r)
           /\ \A r : Scanning(r)' <=> Scanning(r)
           /\ \A r, x : Ahead(r, x)' <=> Ahead(r, x)
           /\ \A q, r : Wanted(q, r)' = Wanted(q, r)
           /\ RowSet' = RowSet
<1>1. \A r : Valid(r)' <=> Valid(r)
  BY DEF Valid
<1>2. \A r : Scanning(r)' <=> Scanning(r)
  BY DEF Scanning, Scans, Searches
<1>3. \A r, x : Ahead(r, x)' <=> Ahead(r, x)
  BY DEF Ahead, Searches, Windows
<1>4. \A q, r : Wanted(q, r)' = Wanted(q, r)
  BY DEF Wanted, Pages, Searches
<1>5. RowSet' = RowSet
  BY DEF RowSet, Searches, Windows
<1> QED
  BY <1>1, <1>2, <1>3, <1>4, <1>5

LEMMA SameState ==
    ASSUME op' = op, NEW p, NEW f, NEW r, NEW s, NEW rows, NEW changed, NEW v,
           program' = p, first' = f, request' = r, seen' = s, always' = rows, edited' = changed,
           reply' = v
    PROVE  /\ OnTheWay' <=> CameTo(p, f, r, s, rows, changed)
           /\ Over' <=> CameThrough(p, f, s, rows, changed)
           /\ Scanning(first)' <=> Scanning(f)
           /\ Valid(request)' <=> Valid(r)
           /\ Ends(reply)' <=> Ends(v)
<1>1. /\ Valid(request)' <=> Valid(r)
      /\ Valid(first)' <=> Valid(f)
  BY DEF Valid
<1>2. Scanning(first)' <=> Scanning(f)
  BY DEF Scanning, Scans, Searches
<1>3. Scanning(request)' <=> Scanning(r)
  BY DEF Scanning, Scans, Searches
<1>4. \A x : Ahead(request, x)' <=> Ahead(r, x)
  BY DEF Ahead, Searches, Windows
<1>5. \A q : Wanted(q, request)' = Wanted(q, r) /\ Wanted(q, first)' = Wanted(q, f)
  BY DEF Wanted, Pages, Searches
<1>6. Wanted(program, first)' = Wanted(p, f)
  BY DEF Wanted, Pages, Searches
<1>7. RowSet' = RowSet
  BY DEF RowSet, Searches, Windows
<1>8. Ends(reply)' <=> Ends(v)
  BY DEF Ends, Windows
<1>9. \A x : Once(seen, x)' <=> Once(s, x)
  BY DEF Once
<1>10. OnTheWay' <=> CameTo(p, f, r, s, rows, changed)
  BY <1>1, <1>3, <1>4, <1>5, <1>6, <1>7, <1>9 DEF OnTheWay, CameTo
<1>11. Over' <=> CameThrough(p, f, s, rows, changed)
  BY <1>6, <1>9 DEF Over, CameThrough
<1> QED
  BY <1>1, <1>2, <1>8, <1>10, <1>11

\* What a client that scans wants, it can scan for.
LEMMA WantsScan ==
    ASSUME op \in Scans, NEW p, NEW f, Wants(p, f)
    PROVE  Scanning(f)
  BY DEF Wants, Scanning

\* What does not touch the client leaves it where it is.
LEMMA StaysOnTheWay ==
    ASSUME UNCHANGED <<op, program, first, request, seen, always, edited>>
    PROVE  /\ OnTheWay' <=> OnTheWay
           /\ Over' <=> Over
           /\ Scanning(first)' <=> Scanning(first)
           /\ Valid(request)' <=> Valid(request)
<1>1. OnTheWay' <=> OnTheWay
  BY SameState DEF OnTheWay
<1>2. Over' <=> Over
  BY SameState DEF Over
<1>3. Scanning(first)' <=> Scanning(first)
  BY SameState
<1>4. Valid(request)' <=> Valid(request)
  BY SameState
<1> QED
  BY <1>1, <1>2, <1>3, <1>4

\* Every step keeps the client where the invariant says.
LEMMA ScanInvHolds == Spec => []ScanInv
<1>1. Init => ScanInv
  BY DEF Init, ScanInv, Started
<1>2. ReplyInv /\ ScanInv /\ [Next]_vars => ScanInv'
  <2> SUFFICES ASSUME ReplyInv, ScanInv, [Next]_vars, op' \in Scans'
               PROVE  /\ ~ Scanning(first)' => always' = {}
                      /\ phase' = "asking" =>
                            Started' \/ (Valid(request)' /\ (Scanning(first)' => reply' # <<>> /\ OnTheWay'))
                      /\ phase' \in {"sent", "answered"} /\ Scanning(first)' => OnTheWay'
                      /\ phase' = "done" /\ Scanning(first)' /\ Ends(reply)' => Over'
                      /\ phase' = "refused" => request' = first'
                      /\ ~ (phase' = "doubt" /\ honest')
    BY DEF ScanInv
  <2>0. /\ op' = op /\ first' = first /\ op \in Scans /\ program \in Programs
        /\ (Scanning(first)' <=> Scanning(first))
    <3>1. UNCHANGED <<op, first>>
      BY DEF Next, vars, Refuse, Send, Edit, Decline, Reply, Misroute, Accept, Reject
    <3>2. op \in Scans
      BY <3>1 DEF Scans, Searches
    <3>3. Scanning(first)' <=> Scanning(first)
      BY <3>1 DEF Scanning, Scans, Searches
    <3> QED
      BY <3>1, <3>2, <3>3 DEF ReplyInv
  <2>i. /\ ~ Scanning(first) => always = {}
        /\ phase = "asking" =>
            Started \/ (Valid(request) /\ (Scanning(first) => reply # <<>> /\ OnTheWay))
        /\ phase \in {"sent", "answered"} /\ Scanning(first) => OnTheWay
        /\ phase = "done" /\ Scanning(first) /\ Ends(reply) => Over
        /\ phase = "refused" => request = first
        /\ ~ (phase = "doubt" /\ honest)
    BY <2>0 DEF ScanInv
  <2>1. CASE Refuse
    <3>1. /\ phase = "asking" /\ ~ Valid(request) /\ phase' = "refused"
          /\ request' = request /\ always' = always
      BY <2>1 DEF Refuse
    <3>2. request' = first'
      BY <2>0, <2>i, <3>1 DEF Started
    <3> QED
      BY <2>0, <2>i, <3>1, <3>2
  <2>2. CASE Send
    <3>1. /\ phase = "asking" /\ Valid(request) /\ phase' = "sent"
          /\ always' = IF reply = <<>> /\ Wants(program, first) THEN Wanted(program, first) ELSE always
          /\ UNCHANGED <<op, program, first, request, reply, honest, seen, edited>>
      BY <2>2 DEF Send
    <3>2. ~ Scanning(first) => always' = {}
      BY <2>0, <2>i, <3>1, WantsScan
    <3>3. ASSUME Scanning(first)
          PROVE  OnTheWay'
      <4>1. CASE Started
        <5>1. /\ request = first /\ seen = <<>> /\ ~ edited /\ always = {} /\ Valid(first)
          BY <3>1, <4>1 DEF Started
        <5>2. always' \in SUBSET Wanted(program, first)
          BY <3>1, <5>1
        <5>3. CameTo(program, first, first, <<>>, always', edited)
          BY <2>0, <3>3, <5>1, <5>2, ScanStarts
        <5>4. /\ program' = program /\ first' = first /\ request' = first /\ seen' = <<>>
              /\ edited' = edited
          BY <3>1, <5>1
        <5> QED
          BY <2>0, <5>3, <5>4, SameState
      <4>2. CASE ~ Started
        <5>1. OnTheWay /\ always' = always
          BY <2>i, <3>1, <3>3, <4>2
        <5> QED
          BY <3>1, <5>1, StaysOnTheWay
      <4> QED
        BY <4>1, <4>2
    <3> QED
      BY <2>0, <3>1, <3>2, <3>3
  <2>3. CASE Edit
    <3>1. /\ phase = "asking" /\ reply # <<>> /\ phase' = "asking" /\ edited' = TRUE
          /\ UNCHANGED <<op, first, request, reply, seen>>
      BY <2>3 DEF Edit
    <3>2. always' = IF Wants(program', first) THEN always \cap Wanted(program', first) ELSE {}
      BY <2>3 DEF Edit
    <3>3. Valid(request) /\ (Scanning(first) => OnTheWay)
      BY <2>i, <3>1 DEF Started
    <3>4. Valid(request)'
      BY <3>1, <3>3, SamePoint
    <3>5. ASSUME Scanning(first)
          PROVE  OnTheWay'
      <4>1. CameTo(program, first, request, seen, always, edited)
        BY <3>3, <3>5 DEF OnTheWay
      <4>2. PICK q : q = program'
        OBVIOUS
      <4>3. always' \in SUBSET (always \cap Wanted(q, first))
        BY <3>2, <4>2
      <4>4. CameTo(q, first, request, seen, always', TRUE)
        BY <4>1, <4>3, ScanEdited
      <4> QED
        BY <3>1, <4>2, <4>4, SameState
    <3> QED
      BY <2>0, <2>i, <3>1, <3>2, <3>4, <3>5
  <2>4. CASE Decline
    <3>1. phase' = "declined" /\ always' = always
      BY <2>4 DEF Decline
    <3> QED
      BY <2>0, <2>i, <3>1
  <2>5. CASE Reply
    <3>1. /\ phase = "sent" /\ phase' = "answered"
          /\ UNCHANGED <<op, program, first, request, seen, always, edited>>
      BY <2>5 DEF Reply
    <3> QED
      BY <2>0, <2>i, <3>1, StaysOnTheWay
  <2>6. CASE Misroute
    <3>1. /\ phase = "sent" /\ phase' = "answered"
          /\ UNCHANGED <<op, program, first, request, seen, always, edited>>
      BY <2>6 DEF Misroute
    <3> QED
      BY <2>0, <2>i, <3>1, StaysOnTheWay
  <2>7. CASE Accept
    <3>1. CASE ~ honest
      <4>1. phase' = "misled" /\ always' = always
        BY <2>7, <3>1 DEF Accept
      <4> QED
        BY <2>0, <2>i, <4>1
    <3>2. CASE honest
      <4>1. /\ phase = "answered" /\ UNCHANGED <<op, program, first, reply, honest, always, edited>>
            /\ phase' = IF GoOn(request, reply) # {} THEN "asking" ELSE "done"
            /\ request' = IF GoOn(request, reply) # {}
                          THEN CHOOSE r \in GoOn(request, reply) : TRUE ELSE request
            /\ seen' = seen \o Rows(reply)
        BY <2>7, <3>2 DEF Accept
      <4>2. Valid(request) /\ Answers(program, request) /\ Given(request, reply)
        BY <3>2, <4>1 DEF ReplyInv
      <4>3. /\ Scanning(request) => ScanGiven(program, request, reply)
            /\ \A next \in GoOn(request, reply) : Valid(next)
        <5>1. PICK time \in Nat : reply = Answer(program, request, time)
          BY <4>2, QueriesAssumption DEF Given
        <5> QED
          BY <2>0, <4>2, <5>1, ScansGive
      <4>4. ASSUME Scanning(first)
            PROVE  /\ CameTo(program, first, request, seen, always, edited)
                   /\ ScanGiven(program, request, reply)
        BY <2>i, <4>1, <4>3, <4>4 DEF OnTheWay, CameTo
      <4>5. CASE GoOn(request, reply) # {}
        <5>1. request' \in GoOn(request, reply) /\ phase' = "asking"
          BY <4>1, <4>5
        <5>2. Valid(request)'
          BY <4>1, <4>3, <5>1, SamePoint
        <5>3. ASSUME Scanning(first)
              PROVE  reply' # <<>> /\ OnTheWay'
          <6>1. PICK next : /\ GoOn(request, reply) = {next}
                            /\ CameTo(program, first, next, seen \o Rows(reply), always, edited)
            BY <2>0, <4>4, <4>5, <5>3, ScanMoves
          <6>2. request' = next /\ reply # <<>>
            BY <4>4, <5>1, <5>3, <6>1 DEF ScanGiven
          <6> QED
            BY <4>1, <6>1, <6>2, SameState
        <5> QED
          BY <2>0, <2>i, <4>1, <5>1, <5>2, <5>3
      <4>6. CASE GoOn(request, reply) = {}
        <5>1. phase' = "done" /\ request' = request
          BY <4>1, <4>6
        <5>2. Ends(reply)' <=> Ends(reply)
          BY <4>1, <5>1, SameState
        <5>3. ASSUME Scanning(first), Ends(reply)
              PROVE  Over'
          <6>1. CameThrough(program, first, seen \o Rows(reply), always, edited)
            BY <2>0, <4>4, <4>6, <5>3, ScanEnds
          <6> QED
            BY <4>1, <5>1, <6>1, SameState
        <5> QED
          BY <2>0, <2>i, <4>1, <5>1, <5>2, <5>3
      <4> QED
        BY <4>5, <4>6
    <3> QED
      BY <3>1, <3>2
  <2>8. CASE Reject
    <3>1. phase = "answered" /\ ~ Accepts(request, reply)
          /\ phase' = "doubt" /\ UNCHANGED <<honest, always>>
      BY <2>8 DEF Reject
    <3>2. ~ honest
      <4> SUFFICES ASSUME honest PROVE FALSE
        OBVIOUS
      <4>1. Valid(request) /\ Answers(program, request) /\ Given(request, reply)
        BY <3>1 DEF ReplyInv
      <4>2. PICK time \in Nat : reply = Answer(program, request, time)
        BY <4>1, QueriesAssumption DEF Given
      <4> QED
        BY <2>0, <3>1, <4>1, <4>2, ScansGive
    <3> QED
      BY <2>0, <2>i, <3>1, <3>2
  <2>9. CASE UNCHANGED vars
    <3>1. UNCHANGED <<op, program, first, request, reply, honest, phase, seen, always, edited>>
      BY <2>9 DEF vars
    <3>2. Ends(reply)' <=> Ends(reply)
      BY <3>1, SameState
    <3>3. Started' <=> Started
      BY <3>1 DEF Started
    <3>4. /\ OnTheWay' <=> OnTheWay
          /\ Over' <=> Over
          /\ Valid(request)' <=> Valid(request)
      BY <3>1, StaysOnTheWay
    <3> QED
      BY <2>0, <2>i, <3>1, <3>2, <3>3, <3>4
  <2> QED
    BY <2>1, <2>2, <2>3, <2>4, <2>5, <2>6, <2>7, <2>8, <2>9 DEF Next
<1> QED
  BY <1>1, <1>2, ReplyInvHolds, PTL DEF Spec

\* The own answer of a scan is never a doubt: what the budget, the limit and the end of
\* the range left of it is what the MCP server's checks expect (the validate_* functions
\* of research.rs, flow.rs and utilities.rs against the loops of ResearchCommands,
\* FlowCommands and UtilityCommands).
THEOREM ScansAreAccepted == Spec => [](op \in Scans => HonestAccepted)
<1>1. ScanInv => (op \in Scans => HonestAccepted)
  BY DEF ScanInv, HonestAccepted
<1> QED
  BY <1>1, ScanInvHolds, PTL

\* The address or cursor that a scan's answer names is one the MCP server lets through,
\* whatever was found and wherever the budget ran out: no scan is refused half-way.
THEOREM ScansGoOn == Spec => [](op \in Scans => ContinuationsSent)
<1>1. ScanInv => (op \in Scans => ContinuationsSent)
  BY DEF ScanInv, ContinuationsSent
<1> QED
  BY <1>1, ScanInvHolds, PTL

\* Following next_address or the cursor until nothing is left out gives every unit,
\* comment, match, reference and function there is in the range, none twice, for every
\* limit and every budget, also one that stops each answer after its first step.
THEOREM ScansAreWhole == Spec => [](op \in Scans => WholeAndOnce)
<1>1. ReplyInv /\ ScanInv => (op \in Scans => WholeAndOnce)
  <2> SUFFICES ASSUME ReplyInv, ScanInv, op \in Scans, phase = "done", ~ edited, Ends(reply),
                      Wants(program, first)
               PROVE  ToSet(seen) = Wanted(program, first) /\ IsInjective(seen)
    BY DEF WholeAndOnce
  <2>1. Scanning(first)
    BY WantsScan
  <2>2. Over
    BY <2>1 DEF ScanInv
  <2> QED
    BY <2>2 DEF Over, CameThrough
<1> QED
  BY <1>1, ReplyInvHolds, ScanInvHolds, PTL

\* A program that is edited between two answers of a scan: a row that every version had is
\* given exactly once, because the next answer begins at an address or behind a reference
\* or entry, and not behind a number of rows.
THEOREM ScansAreStable == Spec => []StableRows
<1>1. ScanInv => StableRows
  <2> SUFFICES ASSUME ScanInv, phase = "done", op \in Scans, Ends(reply), NEW row \in always
               PROVE  Cardinality({i \in DOMAIN seen : seen[i] = row}) = 1
    BY DEF StableRows
  <2>1. Once(seen, row)
    BY DEF ScanInv, Over, CameThrough
  <2>2. PICK i \in DOMAIN seen : seen[i] = row /\ \A j \in DOMAIN seen : seen[j] = row => j = i
    BY <2>1 DEF Once
  <2>3. {j \in DOMAIN seen : seen[j] = row} = {i}
    BY <2>2
  <2> QED
    BY <2>3, FS_Singleton
<1> QED
  BY <1>1, ScanInvHolds, PTL
=============================================================================

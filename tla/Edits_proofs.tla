---------------------------- MODULE Edits_proofs ----------------------------
(***************************************************************************)
(* Edits of any programs, from any plans, with any bounds.  Four inductive     *)
(* invariants, each on top of the one before:                                *)
(*                                                                         *)
(*   WritesInv  how much of the request the database holds in each phase,      *)
(*   Seen       what is known of the request and of each row that is written,   *)
(*   Layouts    what the checks say of a type stays true until it is written,   *)
(*   Grounds    what the checks and readbacks show of what will be answered.    *)
(***************************************************************************)
EXTENDS Edits, TLAPS

-----------------------------------------------------------------------------
(* Writing rows.                                                            *)

\* A database with the tables it had at first, and in each the places it had.
Keeps(d) ==
    /\ d = [f \in DOMAIN Original |-> d[f]]
    /\ \A f \in DOMAIN Original : d[f] = [k \in DOMAIN Original[f] |-> d[f][k]]

\* Database d after the first n rows.
Written(d, rows, n) ==
    [f \in DOMAIN d |-> [k \in DOMAIN d[f] |->
        LET here == {i \in 1..n : Cell(rows[i]) = <<f, k>>}
        IN IF here = {} THEN d[f][k] ELSE rows[Max(here)].value]]

LEMMA PutKeeps ==
    ASSUME NEW d, NEW x, Keeps(d)
    PROVE  Keeps(Put(d, x))
  BY DEF Keeps, Put

\* A row changes the one cell it is about.
LEMMA PutCell ==
    ASSUME NEW d, NEW x, NEW f \in DOMAIN d, NEW k \in DOMAIN d[f]
    PROVE  /\ DOMAIN Put(d, x) = DOMAIN d
           /\ DOMAIN Put(d, x)[f] = DOMAIN d[f]
           /\ Cell(x) # <<f, k>> => Put(d, x)[f][k] = d[f][k]
           /\ Cell(x) = <<f, k>> => Put(d, x)[f][k] = x.value
  BY DEF Put, Cell

LEMMA WrittenNone ==
    ASSUME NEW d, NEW rows, Keeps(d)
    PROVE  Written(d, rows, 0) = d
<1>1. \A f, k : {i \in 1..0 : Cell(rows[i]) = <<f, k>>} = {}
  OBVIOUS
<1> QED
  BY <1>1 DEF Written, Keeps

LEMMA WrittenKeeps ==
    ASSUME NEW d, NEW rows, NEW n, Keeps(d)
    PROVE  Keeps(Written(d, rows, n))
  BY DEF Keeps, Written

LEMMA MaxNext ==
    ASSUME NEW n \in Nat, NEW S \in SUBSET (1..(n + 1)), n + 1 \in S
    PROVE  Max(S) = n + 1
<1>1. n + 1 \in S /\ \A y \in S : n + 1 >= y
  OBVIOUS
<1>2. \A x \in S : (\A y \in S : x >= y) => x = n + 1
  OBVIOUS
<1> QED
  BY <1>1, <1>2 DEF Max

\* Row n + 1 on top of the first n: of several rows about one cell the last counts.
LEMMA WrittenNext ==
    ASSUME NEW d, NEW rows, NEW n \in Nat, Keeps(d)
    PROVE  Put(Written(d, rows, n), rows[n + 1]) = Written(d, rows, n + 1)
<1> DEFINE x == rows[n + 1]
           old == Written(d, rows, n)
           new == Written(d, rows, n + 1)
           Here(m, f, k) == {i \in 1..m : Cell(rows[i]) = <<f, k>>}
<1>1. Keeps(old) /\ Keeps(new) /\ Keeps(Put(old, x))
  BY WrittenKeeps, PutKeeps
<1>2. ASSUME NEW f \in DOMAIN Original, NEW k \in DOMAIN Original[f]
      PROVE  Put(old, x)[f][k] = new[f][k]
  <2>1. f \in DOMAIN old /\ k \in DOMAIN old[f] /\ f \in DOMAIN d /\ k \in DOMAIN d[f]
    BY <1>1, <1>2 DEF Keeps
  <2>2. /\ old[f][k] = IF Here(n, f, k) = {} THEN d[f][k] ELSE rows[Max(Here(n, f, k))].value
        /\ new[f][k] = IF Here(n + 1, f, k) = {} THEN d[f][k]
                        ELSE rows[Max(Here(n + 1, f, k))].value
    BY <2>1 DEF Written
  <2>3. CASE Cell(x) = <<f, k>>
    <3>1. n + 1 \in Here(n + 1, f, k) /\ Here(n + 1, f, k) \in SUBSET (1..(n + 1))
      BY <2>3
    <3>2. Max(Here(n + 1, f, k)) = n + 1
      BY <3>1, MaxNext
    <3>3. new[f][k] = x.value
      BY <2>2, <3>1, <3>2
    <3> QED
      BY <2>1, <2>3, <3>3, PutCell
  <2>4. CASE Cell(x) # <<f, k>>
    <3>1. Here(n + 1, f, k) = Here(n, f, k)
      <4>1. \A i \in 1..(n + 1) : i \in 1..n \/ i = n + 1
        OBVIOUS
      <4>2. \A i \in 1..n : i \in 1..(n + 1)
        OBVIOUS
      <4> QED
        BY <2>4, <4>1, <4>2
    <3>2. new[f][k] = old[f][k]
      BY <2>2, <3>1
    <3> QED
      BY <2>1, <2>4, <3>2, PutCell
  <2> QED
    BY <2>3, <2>4
<1>3. \A f \in DOMAIN Original : Put(old, x)[f] = new[f]
  BY <1>1, <1>2 DEF Keeps
<1> QED
  BY <1>1, <1>3 DEF Keeps

-----------------------------------------------------------------------------

\* What is where.
Control ==
    /\ active \in Programs /\ expected \in Programs
    /\ phase \in {"idle", "sent", "checked", "writing", "answered", "refused", "doubt"}
    /\ row \in Nat /\ commands \in 0..MaxCommands /\ userSteps \in 0..MaxUserSteps
Tables ==
    /\ db = [p \in Programs |-> db[p]]
    /\ \A p \in Programs : Keeps(db[p])
    /\ Keeps(saved)
\* The database of the request, phase by phase: rows one to row of a batch that is
\* being written, all of them behind it, none if anything failed.
Transaction ==
    LET rows == Rows(saved, request)
    IN /\ phase = "checked" => row = 0
       /\ phase = "writing" => db[expected] = Written(saved, rows, row)
       /\ phase = "answered" => row = Len(rows) /\ db[expected] = Written(saved, rows, row)
       /\ phase = "refused" => db[expected] = saved
       /\ phase = "doubt" => db[expected] \in {saved, Edited(saved, rows)}
WritesInv == Control /\ Tables /\ Transaction

LEMMA WritesInit == Init => WritesInv
  BY OriginalAssumption, EditsAssumption
     DEF Init, WritesInv, Control, Tables, Transaction, Keeps

LEMMA WritesStep == WritesInv /\ [Next]_vars => WritesInv'
<1> SUFFICES ASSUME WritesInv, [Next]_vars
             PROVE  WritesInv'
  OBVIOUS
<1> USE DEF WritesInv, Control, Tables, Transaction, Held, userVars, clientVars
<1>1. CASE UserEdits
  <2>1. PICK i \in DOMAIN UserRows : db' = [db EXCEPT ![active] = Put(@, UserRows[i])]
    BY <1>1 DEF UserEdits
  <2>2. Keeps(Put(db[active], UserRows[i]))
    BY PutKeeps
  <2>3. Tables'
    BY <1>1, <2>1, <2>2 DEF UserEdits
  <2>4. Control'
    BY <1>1, EditsAssumption DEF UserEdits
  <2> QED
    BY <1>1, <2>3, <2>4 DEF UserEdits
<1>2. CASE UserSwitches
  BY <1>2, EditsAssumption DEF UserSwitches
<1>3. CASE Look
  BY <1>3 DEF Look
<1>4. CASE Ask
  <2>1. Control'
    BY <1>4, EditsAssumption DEF Ask
  <2>2. Tables' /\ phase' \in {"sent", "idle"}
    BY <1>4 DEF Ask
  <2> QED
    BY <2>1, <2>2
<1>5. CASE TakeResult
  <2>1. /\ phase = "answered" /\ phase' \in {"idle", "doubt"}
        /\ UNCHANGED <<userVars, db, expected, request, row, saved, late, commands>>
    BY <1>5 DEF TakeResult
  <2>2. db[expected] = Edited(saved, Rows(saved, request))
    BY <2>1 DEF Written, Edited
  <2> QED
    BY <2>1, <2>2
<1>6. CASE TakeError
  BY <1>6 DEF TakeError
<1>7. CASE Check
  BY <1>7 DEF Check
<1>8. CASE StartTransaction
  <2>1. saved' = db[expected] /\ phase = "checked" /\ phase' = "writing" /\ row' = 0
        /\ UNCHANGED <<userVars, db, clientVars>>
    BY <1>8 DEF StartTransaction
  <2>2. Written(saved', Rows(saved', request'), row') = db[expected]
    BY <2>1, WrittenNone
  <2> QED
    BY <2>1, <2>2
<1>9. CASE WriteRow
  <2> DEFINE rows == Rows(saved, request)
             written == Put(db[expected], rows[row + 1])
  <2>1. /\ phase = "writing" /\ UNCHANGED <<userVars, clientVars, saved, late, rejected>>
        /\ \/ db' = [db EXCEPT ![expected] = written] /\ row' = row + 1 /\ phase' = "writing"
           \/ db' = [db EXCEPT ![expected] = saved] /\ row' = row /\ phase' = "refused"
    BY <1>9 DEF WriteRow, Rollback
  <2>2. written = Written(saved, rows, row + 1)
    BY <2>1, WrittenNext
  <2>3. Keeps(written)
    BY PutKeeps
  <2>4. Control' /\ Tables'
    BY <2>1, <2>3
  <2>5. rows = Rows(saved', request')
    BY <2>1
  <2> QED
    BY <2>1, <2>2, <2>4, <2>5
<1>10. CASE NativeFault
  BY <1>10 DEF NativeFault, Rollback
<1>11. CASE LeaveInTime
  BY <1>11 DEF LeaveInTime, Rollback
<1>12. CASE Commit
  <2>1. /\ phase = "writing" /\ row = Len(Rows(saved, request)) /\ phase' \in {"answered", "doubt"}
        /\ UNCHANGED <<userVars, db, clientVars, row, saved>>
    BY <1>12 DEF Commit
  <2>2. db[expected] = Edited(saved, Rows(saved, request))
    BY <2>1 DEF Written, Edited
  <2> QED
    BY <2>1, <2>2
<1>13. CASE UNCHANGED vars
  BY <1>13 DEF vars
<1> QED
  BY <1>1, <1>2, <1>3, <1>4, <1>5, <1>6, <1>7, <1>8, <1>9, <1>10, <1>11, <1>12, <1>13
     DEF Next, Finished

LEMMA WritesHold == Spec => []WritesInv
  BY WritesInit, WritesStep, PTL DEF Spec

\* Whatever fails wherever in a batch, a refused batch left the database as it was
\* when the transaction began, an answered one has every row in place and nothing
\* else, and one in doubt is one of the two: transaction and tx undo everything
\* unless every row was written and read back.
THEOREM EditsAreAllOrNothing == Spec => []AllOrNothing
<1>1. WritesInv => AllOrNothing
  <2>1. WritesInv /\ phase = "answered" => db[expected] = Edited(saved, Rows(saved, request))
    BY DEF WritesInv, Transaction, Written, Edited
  <2> QED
    BY <2>1 DEF WritesInv, Transaction, AllOrNothing
<1> QED
  BY <1>1, WritesHold, PTL

-----------------------------------------------------------------------------

\* A request that validate() lets pass expects what view v shows.
Expects(r, v) ==
    LET p == r.p
    IN /\ r.op = "batch_set_comments" =>
            /\ p.updates \in Seq(CommentUpdate)
            /\ \A i \in DOMAIN p.updates :
                LET u == p.updates[i]
                IN /\ <<u.address, u.comment_type>> \in DOMAIN Original.comment
                   /\ u.expected_comment = v.comment[<<u.address, u.comment_type>>]
       /\ r.op \in {"set_bookmark", "delete_bookmark"} =>
            p.expected_comment = v.bookmark[p.address]
       /\ r.op = "batch_rename" =>
            /\ p.updates \in Seq(RenameUpdate)
            /\ \A i \in DOMAIN p.updates :
                LET u == p.updates[i]
                IN /\ u.address \in DOMAIN Original[u.kind]
                   /\ u.expected_name = v[u.kind][u.address]
       /\ r.op \in {"rename_variable", "set_variable_type"} =>
            p.selector.name = v.variable[VariableKey(p)].name
       /\ r.op = "set_function_signature" => p.expected_signature = Prototype(v, p.address)
       /\ r.op = "set_structure_field" =>
            LET t == v.type[p.path]
                f == t.fields[TheField(t, p.offset)]
            IN /\ FieldAt(t, p.offset) # {}
               /\ p.expected_name = f.name /\ p.expected_type_path = f.type

\* validate() needs every field it compares, so a request has a place for what it
\* expects, and Ask fills it.
LEMMA FillComments ==
    ASSUME NEW v, NEW plan \in Plans, plan.op = "batch_set_comments",
           Fill(plan, v) \in BatchCommentsParams
    PROVE  Expects([op |-> plan.op, p |-> Fill(plan, v)], v)
<1> DEFINE p == plan.p
           q == Fill(plan, v)
           Seen(u) == [u EXCEPT !.expected_comment = v.comment[<<u.address, u.comment_type>>]]
<1>1. q = [p EXCEPT !.updates = [i \in DOMAIN p.updates |-> Seen(p.updates[i])]]
  BY DEF Fill
<1>2. q \in [updates : Seq(CommentUpdate)]
  BY DEF BatchCommentsParams
<1>3. DOMAIN p = {"updates"}
  BY <1>1, <1>2
<1>4. q.updates = [i \in DOMAIN p.updates |-> Seen(p.updates[i])]
  BY <1>1, <1>3
<1>5. ASSUME NEW i \in DOMAIN q.updates
      PROVE  LET u == q.updates[i]
             IN /\ <<u.address, u.comment_type>> \in DOMAIN Original.comment
                /\ u.expected_comment = v.comment[<<u.address, u.comment_type>>]
  <2>1. i \in DOMAIN p.updates /\ q.updates[i] = Seen(p.updates[i])
    BY <1>4, <1>5
  <2>2. q.updates[i] \in CommentUpdate
    BY <1>2, <1>5
  <2>3. DOMAIN q.updates[i] = {"address", "comment_type", "comment", "expected_comment"}
    BY <2>2 DEF CommentUpdate
  <2>4. DOMAIN p.updates[i] = {"address", "comment_type", "comment", "expected_comment"}
    BY <2>1, <2>3
  <2>5. /\ q.updates[i].address = p.updates[i].address
        /\ q.updates[i].comment_type = p.updates[i].comment_type
        /\ q.updates[i].expected_comment =
                v.comment[<<p.updates[i].address, p.updates[i].comment_type>>]
    BY <2>1, <2>4
  <2>6. <<p.updates[i].address, p.updates[i].comment_type>> \in DOMAIN Original.comment
    BY <2>1, PlansAssumption
  <2> QED
    BY <2>5, <2>6
<1>6. q.updates \in Seq(CommentUpdate)
  BY <1>2
<1> QED
  BY <1>5, <1>6 DEF Expects

LEMMA FillRenames ==
    ASSUME NEW v, NEW plan \in Plans, plan.op = "batch_rename",
           Fill(plan, v) \in BatchRenameParams
    PROVE  Expects([op |-> plan.op, p |-> Fill(plan, v)], v)
<1> DEFINE p == plan.p
           q == Fill(plan, v)
           Seen(u) == [u EXCEPT !.expected_name = v[u.kind][u.address]]
<1>1. q = [p EXCEPT !.updates = [i \in DOMAIN p.updates |-> Seen(p.updates[i])]]
  BY DEF Fill
<1>2. q \in [updates : Seq(RenameUpdate)]
  BY DEF BatchRenameParams
<1>3. DOMAIN p = {"updates"}
  BY <1>1, <1>2
<1>4. q.updates = [i \in DOMAIN p.updates |-> Seen(p.updates[i])]
  BY <1>1, <1>3
<1>5. ASSUME NEW i \in DOMAIN q.updates
      PROVE  LET u == q.updates[i]
             IN /\ u.address \in DOMAIN Original[u.kind]
                /\ u.expected_name = v[u.kind][u.address]
  <2>1. i \in DOMAIN p.updates /\ q.updates[i] = Seen(p.updates[i])
    BY <1>4, <1>5
  <2>2. q.updates[i] \in RenameUpdate
    BY <1>2, <1>5
  <2>3. DOMAIN q.updates[i] = {"kind", "address", "name", "expected_name"}
    BY <2>2 DEF RenameUpdate
  <2>4. DOMAIN p.updates[i] = {"kind", "address", "name", "expected_name"}
    BY <2>1, <2>3
  <2>5. /\ q.updates[i].address = p.updates[i].address
        /\ q.updates[i].kind = p.updates[i].kind
        /\ q.updates[i].expected_name = v[p.updates[i].kind][p.updates[i].address]
    BY <2>1, <2>4
  <2>6. p.updates[i].address \in DOMAIN Original[p.updates[i].kind]
    BY <2>1, PlansAssumption
  <2> QED
    BY <2>5, <2>6
<1>6. q.updates \in Seq(RenameUpdate)
  BY <1>2
<1> QED
  BY <1>5, <1>6 DEF Expects

LEMMA FillBookmark ==
    ASSUME NEW v, NEW plan \in Plans, plan.op \in {"set_bookmark", "delete_bookmark"},
           Fill(plan, v) \in SetBookmarkParams \cup DeleteBookmarkParams
    PROVE  Expects([op |-> plan.op, p |-> Fill(plan, v)], v)
<1>1. Fill(plan, v) = [plan.p EXCEPT !.expected_comment = v.bookmark[plan.p.address]]
  BY DEF Fill
<1>2. {"address", "expected_comment"} \subseteq DOMAIN Fill(plan, v)
  BY DEF SetBookmarkParams, DeleteBookmarkParams
<1> QED
  BY <1>1, <1>2 DEF Expects

LEMMA FillField ==
    ASSUME NEW v, NEW plan \in Plans, plan.op = "set_structure_field",
           SetStructureFieldParams(Fill(plan, v))
    PROVE  Expects([op |-> plan.op, p |-> Fill(plan, v)], v)
<1> DEFINE p == plan.p
           q == Fill(plan, v)
           t == v.type[p.path]
           f == t.fields[TheField(t, p.offset)]
<1>1. {"path", "offset", "expected_name", "expected_type_path"} \subseteq DOMAIN p
  BY PlansAssumption
<1>2. q = IF FieldAt(t, p.offset) = {} THEN [p EXCEPT !.expected_name = NoName]
          ELSE [p EXCEPT !.expected_name = f.name, !.expected_type_path = f.type]
  BY ONLY plan.op = "set_structure_field" DEF Fill
<1>3. q.expected_name # NoName
  BY DEF SetStructureFieldParams, Text, NoName
<1>4. FieldAt(t, p.offset) # {}
  BY <1>1, <1>2, <1>3
<1>5. q = [p EXCEPT !.expected_name = f.name, !.expected_type_path = f.type]
  BY <1>2, <1>4
<1>6. q.path = p.path /\ q.offset = p.offset
  BY ONLY <1>1, <1>5
<1>7. q.expected_name = f.name
  BY ONLY <1>1, <1>5
<1>8. q.expected_type_path = f.type
  BY ONLY <1>1, <1>5
<1> QED
  BY <1>4, <1>6, <1>7, <1>8 DEF Expects

LEMMA FillVariable ==
    ASSUME NEW v, NEW plan \in Plans, plan.op \in {"rename_variable", "set_variable_type"},
           Fill(plan, v).selector \in VariableSelector
    PROVE  Expects([op |-> plan.op, p |-> Fill(plan, v)], v)
<1> DEFINE p == plan.p
           q == Fill(plan, v)
           name == v.variable[VariableKey(p)].name
<1>1. {"address", "selector"} \subseteq DOMAIN p
  BY PlansAssumption
<1>2. q = [p EXCEPT !.selector.name = name]
  BY DEF Fill
<1>3. q.selector = [p.selector EXCEPT !.name = name] /\ q.address = p.address
  BY <1>1, <1>2
<1>4. DOMAIN q.selector = {"symbol_id", "name", "storage"}
  BY DEF VariableSelector
<1>5. DOMAIN p.selector = {"symbol_id", "name", "storage"}
  BY <1>3, <1>4
<1>6. q.selector.name = name /\ q.selector.symbol_id = p.selector.symbol_id
  BY <1>3, <1>5
<1> QED
  BY <1>3, <1>6 DEF Expects, VariableKey

LEMMA FillSignature ==
    ASSUME NEW v, NEW plan \in Plans, plan.op = "set_function_signature"
    PROVE  Expects([op |-> plan.op, p |-> Fill(plan, v)], v)
<1>1. Fill(plan, v) = [plan.p EXCEPT !.expected_signature = Prototype(v, plan.p.address)]
  BY DEF Fill
<1>2. {"address", "expected_signature"} \subseteq DOMAIN plan.p
  BY PlansAssumption
<1>3. Fill(plan, v).expected_signature = Prototype(v, Fill(plan, v).address)
  BY <1>1, <1>2
<1> QED
  BY <1>3 DEF Expects

\* Each request, filled from a view, expects what is in it.
LEMMA FillExpects ==
    ASSUME NEW v, NEW plan \in Plans, ValidEdit([op |-> plan.op, p |-> Fill(plan, v)])
    PROVE  Expects([op |-> plan.op, p |-> Fill(plan, v)], v)
<1> DEFINE r == [op |-> plan.op, p |-> Fill(plan, v)]
<1>1. CASE r.op = "batch_set_comments"
  BY <1>1, FillComments DEF ValidEdit
<1>2. CASE r.op = "batch_rename"
  BY <1>2, FillRenames DEF ValidEdit
<1>3. CASE r.op \in {"set_bookmark", "delete_bookmark"}
  BY <1>3, FillBookmark DEF ValidEdit
<1>4. CASE r.op = "set_structure_field"
  BY <1>4, FillField DEF ValidEdit
<1>5. CASE r.op \in {"rename_variable", "set_variable_type"}
  BY <1>5, FillVariable DEF ValidEdit, RenameVariableParams, SetVariableTypeParams
<1>6. CASE r.op = "set_function_signature"
  BY <1>6, FillSignature
<1> QED
  BY <1>1, <1>2, <1>3, <1>4, <1>5, <1>6 DEF Expects

-----------------------------------------------------------------------------
(* What the client has seen.                                                *)

\* No update of a batch is about the place of another one.
Apart(r) ==
    LET us == r.p.updates
    IN /\ r.op = "batch_set_comments" =>
            \A i, j \in DOMAIN us :
                us[i].address = us[j].address /\ us[i].comment_type = us[j].comment_type => i = j
       /\ r.op = "batch_rename" =>
            \A i, j \in DOMAIN us : us[i].address = us[j].address => i = j

\* What row i of a request is about is in database d as in view v.
AsSeen(d, r, v, i) == Guarded(d, r, i) = Guarded(v, r, i)

\* The scan for duplicates before the transaction.
LEMMA BeforeApart ==
    ASSUME NEW d, NEW r, Before(d, r)
    PROVE  Apart(r)
<1> DEFINE us == r.p.updates
<1>1. ASSUME r.op = "batch_set_comments"
      PROVE  \A i, j \in DOMAIN us :
                us[i].address = us[j].address /\ us[i].comment_type = us[j].comment_type => i = j
  <2>1. IsInjective([i \in DOMAIN us |-> <<us[i].address, us[i].comment_type>>])
    BY <1>1 DEF Before, Creations
  <2> QED
    BY <2>1 DEF IsInjective
<1>2. ASSUME r.op = "batch_rename"
      PROVE  \A i, j \in DOMAIN us : us[i].address = us[j].address => i = j
  <2>1. IsInjective([i \in DOMAIN us |-> us[i].address])
    BY <1>2 DEF Before, Creations
  <2> QED
    BY <2>1 DEF IsInjective
<1> QED
  BY <1>1, <1>2 DEF Apart

\* Two operations compare what their client has seen before the transaction only.
ComparesEarly == {"set_structure_field", "set_function_signature"}
LEMMA BeforeAsSeen ==
    ASSUME NEW d, NEW r, NEW v, NEW i, Before(d, r), Expects(r, v), r.op \in ComparesEarly
    PROVE  AsSeen(d, r, v, i)
<1>1. CASE r.op = "set_function_signature"
  <2>1. Prototype(d, r.p.address) = Prototype(v, r.p.address)
    BY <1>1 DEF Before, Creations, Expects
  <2>2. /\ Guarded(d, r, i) = Prototype(d, r.p.address)
        /\ Guarded(v, r, i) = Prototype(v, r.p.address)
    BY <1>1 DEF Guarded
  <2> QED
    BY <2>1, <2>2 DEF AsSeen
<1>2. CASE r.op = "set_structure_field"
  <2> DEFINE Now(w) ==
        LET t == w.type[r.p.path] IN t.fields[TheField(t, r.p.offset)]
  <2>1. /\ FieldAt(d.type[r.p.path], r.p.offset) # {}
        /\ Now(d).name = r.p.expected_name /\ Now(d).type = r.p.expected_type_path
    BY <1>2 DEF Before, Creations
  <2>2. /\ FieldAt(v.type[r.p.path], r.p.offset) # {}
        /\ Now(v).name = r.p.expected_name /\ Now(v).type = r.p.expected_type_path
    BY <1>2 DEF Expects
  <2>3. Guarded(d, r, i) = <<Now(d).name, Now(d).type>>
    BY <1>2, <2>1 DEF Guarded
  <2>4. Guarded(v, r, i) = <<Now(v).name, Now(v).type>>
    BY <1>2, <2>2 DEF Guarded
  <2> QED
    BY <2>1, <2>2, <2>3, <2>4 DEF AsSeen
<1> QED
  BY <1>1, <1>2 DEF ComparesEarly

\* The other checks find nothing in the way.
LEMMA BeforeSpares ==
    ASSUME NEW d, NEW r, Before(d, r)
    PROVE  Spares(d, r)
<1>1. CASE r.op \in Creations
  BY <1>1 DEF Before, Spares, Creations
<1>2. CASE r.op = "create_function"
  BY <1>2 DEF Before, Spares, Creations
<1>3. CASE r.op = "create_memory_block"
  BY <1>3 DEF Before, Spares, Creations
<1>4. CASE r.op = "create_instructions"
  BY <1>4 DEF Before, Spares, Creations, Free, Extent
<1>5. CASE r.op = "define_data"
  BY <1>5 DEF Before, Spares, Creations, Free, Extent
<1>6. CASE r.op = "apply_data_type"
  BY <1>6 DEF Before, Spares, Creations, Free, Extent
<1>7. CASE r.op = "set_processor_context"
  BY <1>7 DEF Before, Spares, Creations, Extent
<1>8. CASE r.op = "clear_listing"
  <2>1. Extent(r) = r.p.address..EndOf(r.p)
    BY <1>8 DEF Extent
  <2>2. /\ \A at \in Extent(r) : d.function[at] = NoName
        /\ d.unit[r.p.address].at = r.p.address /\ d.unit[EndOf(r.p)].end <= EndOf(r.p)
        /\ \A at \in Extent(r) :
            d.unit[at].kind \in {"undefined", r.p.expected_kind} \/ r.p.expected_kind = "any"
    BY <1>8, <2>1 DEF Before, Creations
  <2> QED
    BY <1>8, <2>2 DEF Spares, Creations
<1>9. CASE r.op \notin Creations \cup {"create_function", "create_memory_block",
                "create_instructions", "define_data", "apply_data_type",
                "set_processor_context", "clear_listing"}
  BY <1>9 DEF Spares
<1> QED
  BY <1>1, <1>2, <1>3, <1>4, <1>5, <1>6, <1>7, <1>8, <1>9

\* The places that an early look is at are places of the database.
InTables(S) == \A c \in S : \E f \in DOMAIN Original : \E k \in DOMAIN Original[f] : c = <<f, k>>
\* Those that no check confines to the memory are places of the plan.
Located(r) ==
    /\ r.op = "set_structure_field" => r.p.path \in DOMAIN Original.type
    /\ r.op = "set_function_signature" =>
        r.p.address \in DOMAIN Original.function \cap DOMAIN Original.signature
    /\ r.op = "create_function" => r.p.address \in DOMAIN Original.function
    /\ r.op = "create_memory_block" => r.p.name \in DOMAIN Original.block

LEMMA FillLocated ==
    ASSUME NEW v, NEW plan \in Plans
    PROVE  Located([op |-> plan.op, p |-> Fill(plan, v)])
<1> DEFINE p == plan.p
           q == Fill(plan, v)
<1>1. CASE plan.op = "set_structure_field"
  <2>1. /\ {"path", "offset", "expected_name", "expected_type_path"} \subseteq DOMAIN p
        /\ p.path \in DOMAIN Original.type
    BY <1>1, PlansAssumption
  <2>2. \E m, n : q \in {[p EXCEPT !.expected_name = m],
                         [p EXCEPT !.expected_name = m, !.expected_type_path = n]}
    BY ONLY <1>1 DEF Fill
  <2>3. q.path = p.path
    BY ONLY <2>1, <2>2
  <2> QED
    BY <1>1, <2>1, <2>3 DEF Located
<1>2. CASE plan.op = "set_function_signature"
  <2>1. /\ {"address", "expected_signature"} \subseteq DOMAIN p
        /\ p.address \in DOMAIN Original.function \cap DOMAIN Original.signature
    BY <1>2, PlansAssumption
  <2>2. q = [p EXCEPT !.expected_signature = Prototype(v, p.address)]
    BY <1>2 DEF Fill
  <2>3. q.address = p.address
    BY ONLY <2>1, <2>2
  <2> QED
    BY <1>2, <2>1, <2>3 DEF Located
<1>3. CASE plan.op \in {"create_function", "create_memory_block"}
  <2>1. q = p
    BY <1>3 DEF Fill
  <2> QED
    BY <1>3, <2>1, PlansAssumption DEF Located
<1>4. CASE plan.op \notin {"set_structure_field", "set_function_signature", "create_function",
                           "create_memory_block"}
  BY <1>4 DEF Located
<1> QED
  BY <1>1, <1>2, <1>3, <1>4

\* Where an operation on the listing was checked there is memory.
LEMMA BeforeExtent ==
    ASSUME NEW d, Keeps(d), NEW r, Before(d, r),
           r.op \in {"clear_listing", "create_instructions", "define_data", "apply_data_type",
                     "set_processor_context"}
    PROVE  Extent(r) \subseteq DOMAIN Original["unit"]
<1>1. DOMAIN d.unit = DOMAIN Original["unit"]
  BY OriginalAssumption DEF Keeps
<1>2. CASE r.op = "clear_listing"
  BY <1>1, <1>2 DEF Before, Creations, Extent
<1>3. CASE r.op = "create_instructions"
  BY <1>1, <1>3 DEF Before, Creations, Extent, Free
<1>4. CASE r.op = "define_data"
  BY <1>1, <1>4 DEF Before, Creations, Extent, Free
<1>5. CASE r.op = "apply_data_type"
  BY <1>1, <1>5 DEF Before, Creations, Extent, Free
<1>6. CASE r.op = "set_processor_context"
  BY <1>1, <1>6 DEF Before, Creations, Extent
<1> QED
  BY <1>2, <1>3, <1>4, <1>5, <1>6

LEMMA BeforeInTables ==
    ASSUME NEW d, Keeps(d), NEW r, Located(r), Before(d, r)
    PROVE  InTables(LooksEarly(r))
<1>1. {"function", "signature", "type", "block", "unit"} \subseteq DOMAIN Original
  BY OriginalAssumption
<1>2. CASE r.op = "set_structure_field"
  <2>1. LooksEarly(r) = {<<"type", r.p.path>>} /\ r.p.path \in DOMAIN Original["type"]
    BY <1>2 DEF LooksEarly, Located
  <2> QED
    BY <1>1, <2>1 DEF InTables
<1>3. CASE r.op = "set_function_signature"
  <2>1. /\ LooksEarly(r) = {"function", "signature"} \X {r.p.address}
        /\ r.p.address \in DOMAIN Original["function"]
        /\ r.p.address \in DOMAIN Original["signature"]
    BY <1>3 DEF LooksEarly, Located
  <2> QED
    BY <1>1, <2>1 DEF InTables
<1>4. CASE r.op = "create_function"
  <2>1. LooksEarly(r) = {<<"function", r.p.address>>} /\ r.p.address \in DOMAIN Original["function"]
    BY <1>4 DEF LooksEarly, Located
  <2> QED
    BY <1>1, <2>1 DEF InTables
<1>5. CASE r.op = "create_memory_block"
  <2>1. LooksEarly(r) = {<<"block", r.p.name>>} /\ r.p.name \in DOMAIN Original["block"]
    BY <1>5 DEF LooksEarly, Located
  <2> QED
    BY <1>1, <2>1 DEF InTables
<1>6. CASE r.op = "clear_listing"
  <2>1. LooksEarly(r) = {"function", "unit"} \X Extent(r)
    BY <1>6 DEF LooksEarly
  <2>2. /\ Extent(r) \subseteq DOMAIN Original["unit"]
        /\ DOMAIN Original["function"] = DOMAIN Original["unit"]
    BY <1>6, BeforeExtent, OriginalAssumption
  <2> QED
    BY <1>1, <2>1, <2>2 DEF InTables
<1>7. CASE r.op \in {"create_instructions", "define_data", "apply_data_type",
                     "set_processor_context"}
  <2>1. LooksEarly(r) = {"unit"} \X Extent(r)
    BY <1>7 DEF LooksEarly
  <2>2. Extent(r) \subseteq DOMAIN Original["unit"]
    BY <1>7, BeforeExtent
  <2> QED
    BY <1>1, <2>1, <2>2 DEF InTables
<1>8. CASE r.op \notin {"set_structure_field", "set_function_signature", "create_function",
                        "create_memory_block", "clear_listing", "create_instructions",
                        "define_data", "apply_data_type", "set_processor_context"}
  BY <1>8 DEF LooksEarly, InTables
<1> QED
  BY <1>2, <1>3, <1>4, <1>5, <1>6, <1>7, <1>8

\* What an early check found in database d, which no guard in the transaction looks at.
Found(d, r, v) ==
    /\ r.op \notin Creations => Spares(d, r)
    /\ r.op \in ComparesEarly => AsSeen(d, r, v, 1)
\* It lasts as long as the places it is about.
LEMMA FoundStays ==
    ASSUME NEW d, NEW e, NEW r, NEW v, InTables(LooksEarly(r)), Found(d, r, v),
           \A f \in DOMAIN Original : \A k \in DOMAIN Original[f] :
                <<f, k>> \in LooksEarly(r) => e[f][k] = d[f][k]
    PROVE  Found(e, r, v)
<1>1. \A f, k : <<f, k>> \in LooksEarly(r) => e[f][k] = d[f][k]
  <2> TAKE f, k
  <2> HAVE <<f, k>> \in LooksEarly(r)
  <2>1. PICK g \in DOMAIN Original : \E l \in DOMAIN Original[g] : <<f, k>> = <<g, l>>
    BY DEF InTables
  <2>2. f = g /\ k \in DOMAIN Original[f]
    BY <2>1
  <2> QED
    BY <2>2
<1>2. CASE r.op = "set_structure_field"
  <2>1. <<"type", r.p.path>> \in LooksEarly(r)
    BY <1>2 DEF LooksEarly
  <2>2. e["type"][r.p.path] = d["type"][r.p.path]
    BY <1>1, <2>1
  <2>3. Guarded(e, r, 1) = Guarded(d, r, 1)
    BY <1>2, <2>2 DEF Guarded
  <2>4. Spares(e, r)
    BY <1>2 DEF Spares, Creations
  <2> QED
    BY <1>2, <2>3, <2>4 DEF Found, AsSeen, ComparesEarly
<1>3. CASE r.op = "set_function_signature"
  <2>1. {<<"function", r.p.address>>, <<"signature", r.p.address>>} \subseteq LooksEarly(r)
    BY <1>3 DEF LooksEarly
  <2>2. /\ e["function"][r.p.address] = d["function"][r.p.address]
        /\ e["signature"][r.p.address] = d["signature"][r.p.address]
    BY <1>1, <2>1
  <2>3. Guarded(e, r, 1) = Guarded(d, r, 1)
    BY <1>3, <2>2 DEF Guarded, Prototype
  <2>4. Spares(e, r)
    BY <1>3 DEF Spares, Creations
  <2> QED
    BY <1>3, <2>3, <2>4 DEF Found, AsSeen, ComparesEarly
<1>4. CASE r.op = "create_function"
  <2>1. <<"function", r.p.address>> \in LooksEarly(r)
    BY <1>4 DEF LooksEarly
  <2>2. e["function"][r.p.address] = d["function"][r.p.address]
    BY <1>1, <2>1
  <2> QED
    BY <1>4, <2>2 DEF Found, Spares, Creations, ComparesEarly
<1>5. CASE r.op = "create_memory_block"
  <2>1. <<"block", r.p.name>> \in LooksEarly(r)
    BY <1>5 DEF LooksEarly
  <2>2. e["block"][r.p.name] = d["block"][r.p.name]
    BY <1>1, <2>1
  <2> QED
    BY <1>5, <2>2 DEF Found, Spares, Creations, ComparesEarly
<1>6. CASE r.op = "clear_listing"
  <2>1. LooksEarly(r) = {"function", "unit"} \X Extent(r)
    BY <1>6 DEF LooksEarly
  <2>2. \A at \in Extent(r) :
            e["function"][at] = d["function"][at] /\ e["unit"][at] = d["unit"][at]
    BY <1>1, <2>1
  <2> QED
    BY <1>6, <2>2 DEF Found, Spares, Creations, ComparesEarly
<1>7. CASE r.op \in {"create_instructions", "define_data", "apply_data_type"}
  <2>1. LooksEarly(r) = {"unit"} \X Extent(r)
    BY <1>7 DEF LooksEarly
  <2>2. \A at \in Extent(r) : e["unit"][at] = d["unit"][at]
    BY <1>1, <2>1
  <2> QED
    BY <1>7, <2>2 DEF Found, Spares, Creations, ComparesEarly
<1>8. CASE r.op = "set_processor_context"
  <2>1. LooksEarly(r) = {"unit"} \X Extent(r)
    BY <1>8 DEF LooksEarly
  <2>2. \A at \in Extent(r) : e["unit"][at] = d["unit"][at]
    BY <1>1, <2>1
  <2> QED
    BY <1>8, <2>2 DEF Found, Spares, Creations, ComparesEarly
<1>9. CASE r.op \notin {"set_structure_field", "set_function_signature", "create_function",
                        "create_memory_block", "clear_listing", "create_instructions",
                        "define_data", "apply_data_type", "set_processor_context"}
  BY <1>9 DEF Found, Spares, Creations, ComparesEarly
<1> QED
  BY <1>2, <1>3, <1>4, <1>5, <1>6, <1>7, <1>8, <1>9

\* The guard of row n + 1 looks at a database with n rows of the batch in it; what it
\* looks at is still what was there when the transaction began.
LEMMA CommentAsSeen ==
    ASSUME NEW d, Keeps(d), NEW r, NEW v, NEW n \in Nat, n + 1 \in DOMAIN Rows(d, r),
           r.op = "batch_set_comments", Expects(r, v), Apart(r),
           Guard(Written(d, Rows(d, r), n), r, n + 1)
    PROVE  AsSeen(d, r, v, n + 1)
<1> DEFINE us == r.p.updates
           u == us[n + 1]
           rows == Rows(d, r)
           key == <<u.address, u.comment_type>>
<1>1. rows = [i \in DOMAIN us |->
                Row("comment", <<us[i].address, us[i].comment_type>>, Stored(us[i].comment))]
  BY DEF Rows, Creations
<1>2. us \in Seq(CommentUpdate) /\ DOMAIN us = 1..Len(us)
  BY DEF Expects
<1>3. n + 1 \in DOMAIN us /\ 1..(n + 1) \subseteq DOMAIN us
  BY <1>1, <1>2
<1>4. \A i \in 1..n : Cell(rows[i]) # <<"comment", key>>
  <2> SUFFICES ASSUME NEW i \in 1..n
               PROVE  Cell(rows[i]) # <<"comment", key>>
    OBVIOUS
  <2>1. i \in DOMAIN us /\ i # n + 1
    BY <1>3
  <2>2. us[i].address # u.address \/ us[i].comment_type # u.comment_type
    BY <2>1, <1>3 DEF Apart
  <2>3. rows[i] = Row("comment", <<us[i].address, us[i].comment_type>>, Stored(us[i].comment))
    BY <1>1, <2>1
  <2>4. Cell(rows[i]) = <<"comment", <<us[i].address, us[i].comment_type>>>>
    BY <2>3 DEF Cell, Row
  <2> QED
    BY <2>2, <2>4
<1>5. "comment" \in DOMAIN d /\ key \in DOMAIN d["comment"]
  <2>1. "comment" \in DOMAIN Original
    BY OriginalAssumption
  <2>2. key \in DOMAIN Original["comment"]
    BY <1>3 DEF Expects
  <2> QED
    BY <2>1, <2>2 DEF Keeps
<1>6. Written(d, rows, n)["comment"][key] = d["comment"][key]
  <2>1. {i \in 1..n : Cell(rows[i]) = <<"comment", key>>} = {}
    BY <1>4
  <2> HIDE DEF rows, key
  <2> QED
    BY <2>1, <1>5 DEF Written
<1>7. Written(d, rows, n).comment[key] = u.expected_comment
  BY DEF Guard, StoredAsExpected, Creations
<1>8. u.expected_comment = v.comment[key]
  BY <1>3 DEF Expects
<1>12. d["comment"][key] = v["comment"][key]
  BY ONLY <1>6, <1>7, <1>8
<1>9. Guarded(d, r, n + 1) = d[rows[n + 1].field][rows[n + 1].key]
  BY DEF Guarded
<1>10. Guarded(v, r, n + 1) = v[rows[n + 1].field][rows[n + 1].key]
  <2>1. Rows(v, r) = rows
    BY <1>1 DEF Rows, Creations
  <2> QED
    BY <2>1 DEF Guarded
<1>11. rows[n + 1].field = "comment" /\ rows[n + 1].key = key
  BY <1>1, <1>3 DEF Row
<1> QED
  BY <1>12, <1>9, <1>10, <1>11 DEF AsSeen

LEMMA RenameAsSeen ==
    ASSUME NEW d, Keeps(d), NEW r, NEW v, NEW n \in Nat, n + 1 \in DOMAIN Rows(d, r),
           r.op = "batch_rename", Expects(r, v), Apart(r),
           Guard(Written(d, Rows(d, r), n), r, n + 1)
    PROVE  AsSeen(d, r, v, n + 1)
<1> DEFINE us == r.p.updates
           u == us[n + 1]
           rows == Rows(d, r)
           kind == u.kind
           at == u.address
<1>1. rows = [i \in DOMAIN us |-> Row(us[i].kind, us[i].address, us[i].name)]
  BY DEF Rows, Creations
<1>2. us \in Seq(RenameUpdate) /\ DOMAIN us = 1..Len(us)
  BY DEF Expects
<1>3. n + 1 \in DOMAIN us /\ 1..(n + 1) \subseteq DOMAIN us
  BY <1>1, <1>2
<1>4. \A i \in 1..n : Cell(rows[i]) # <<kind, at>>
  <2> SUFFICES ASSUME NEW i \in 1..n
               PROVE  Cell(rows[i]) # <<kind, at>>
    OBVIOUS
  <2>1. i \in DOMAIN us /\ i # n + 1
    BY <1>3
  <2>2. us[i].address # at
    BY <2>1, <1>3 DEF Apart
  <2>3. rows[i] = Row(us[i].kind, us[i].address, us[i].name)
    BY <1>1, <2>1
  <2>4. Cell(rows[i]) = <<us[i].kind, us[i].address>>
    BY <2>3 DEF Cell, Row
  <2> QED
    BY <2>2, <2>4
<1>5. kind \in DOMAIN d /\ at \in DOMAIN d[kind]
  <2>1. u \in RenameUpdate
    BY <1>2, <1>3
  <2>2. kind \in DOMAIN Original
    BY <2>1, OriginalAssumption DEF RenameUpdate
  <2>3. at \in DOMAIN Original[kind]
    BY <1>3 DEF Expects
  <2> QED
    BY <2>2, <2>3 DEF Keeps
<1>6. Written(d, rows, n)[kind][at] = d[kind][at]
  <2>1. {i \in 1..n : Cell(rows[i]) = <<kind, at>>} = {}
    BY <1>4
  <2> HIDE DEF rows, kind, at
  <2> QED
    BY <2>1, <1>5 DEF Written
<1>7. Written(d, rows, n)[kind][at] = u.expected_name
  BY DEF Guard, StoredAsExpected, Creations
<1>8. u.expected_name = v[kind][at]
  BY <1>3 DEF Expects
<1>9. Guarded(d, r, n + 1) = d[rows[n + 1].field][rows[n + 1].key]
  BY DEF Guarded
<1>10. Guarded(v, r, n + 1) = v[rows[n + 1].field][rows[n + 1].key]
  <2>1. Rows(v, r) = rows
    BY <1>1 DEF Rows, Creations
  <2> QED
    BY <2>1 DEF Guarded
<1>11. rows[n + 1].field = kind /\ rows[n + 1].key = at
  BY <1>1, <1>3 DEF Row
<1>12. d[kind][at] = v[kind][at]
  BY ONLY <1>6, <1>7, <1>8
<1> QED
  BY <1>12, <1>9, <1>10, <1>11 DEF AsSeen

\* Requests of one row: nothing is written before it.
LEMMA SingleRow ==
    ASSUME NEW d, NEW r, NEW n \in Nat, n + 1 \in DOMAIN Rows(d, r),
           r.op \in {"set_bookmark", "delete_bookmark", "rename_variable", "set_variable_type",
                     "create_structure", "create_union", "create_enum", "create_typedef"}
    PROVE  n = 0
<1>1. CASE r.op = "set_bookmark"
  <2>1. Rows(d, r) = <<Row("bookmark", r.p.address, r.p.comment)>>
    BY <1>1 DEF Rows, Creations
  <2> QED
    BY <2>1
<1>2. CASE r.op = "delete_bookmark"
  <2>1. Rows(d, r) = <<Row("bookmark", r.p.address, None)>>
    BY <1>2 DEF Rows, Creations
  <2> QED
    BY <2>1
<1>3. CASE r.op = "rename_variable"
  <2>1. \E x : Rows(d, r) = <<x>>
    BY <1>3 DEF Rows, Creations
  <2> QED
    BY <2>1
<1>4. CASE r.op = "set_variable_type"
  <2>1. \E x : Rows(d, r) = <<x>>
    BY <1>4 DEF Rows, Creations
  <2> QED
    BY <2>1
<1>5. CASE r.op \in Creations
  <2>1. Rows(d, r) = <<Row("type", r.p.path, NewType(r))>>
    BY <1>5 DEF Rows, Creations
  <2> QED
    BY <2>1
<1> QED
  BY <1>1, <1>2, <1>3, <1>4, <1>5 DEF Creations

LEMMA SingleAsSeen ==
    ASSUME NEW d, Keeps(d), NEW r, NEW v, NEW n \in Nat, n + 1 \in DOMAIN Rows(d, r),
           r.op \in {"set_bookmark", "delete_bookmark", "rename_variable", "set_variable_type"},
           Expects(r, v), Guard(Written(d, Rows(d, r), n), r, n + 1)
    PROVE  AsSeen(d, r, v, n + 1)
<1>1. Written(d, Rows(d, r), n) = d /\ n = 0
  BY SingleRow, WrittenNone
<1>2. Guard(d, r, 1)
  BY <1>1
<1>3. CASE r.op \in {"rename_variable", "set_variable_type"}
  <2>1. d.variable[VariableKey(r.p)].name = r.p.selector.name
    BY <1>2, <1>3 DEF Guard, Creations
  <2>2. v.variable[VariableKey(r.p)].name = r.p.selector.name
    BY <1>3 DEF Expects
  <2>3. /\ Guarded(d, r, 1) = d.variable[VariableKey(r.p)].name
        /\ Guarded(v, r, 1) = v.variable[VariableKey(r.p)].name
    BY <1>3 DEF Guarded
  <2> QED
    BY <1>1, <2>1, <2>2, <2>3 DEF AsSeen
<1>4. CASE r.op \in {"set_bookmark", "delete_bookmark"}
  <2>1. d.bookmark[r.p.address] = r.p.expected_comment
    BY <1>2, <1>4 DEF Guard, StoredAsExpected, Creations
  <2>2. v.bookmark[r.p.address] = r.p.expected_comment
    BY <1>4 DEF Expects
  <2>3. PICK c : Rows(d, r) = <<Row("bookmark", r.p.address, c)>>
    BY <1>4 DEF Rows, Creations
  <2>7. PICK e : Rows(v, r) = <<Row("bookmark", r.p.address, e)>>
    BY <1>4 DEF Rows, Creations
  <2>4. Rows(d, r)[1].field = "bookmark" /\ Rows(d, r)[1].key = r.p.address
    BY <2>3 DEF Row
  <2>5. Guarded(d, r, 1) = d[Rows(d, r)[1].field][Rows(d, r)[1].key]
    BY <1>4 DEF Guarded
  <2>8. Rows(v, r)[1].field = "bookmark" /\ Rows(v, r)[1].key = r.p.address
    BY <2>7 DEF Row
  <2>6. Guarded(v, r, 1) = v[Rows(v, r)[1].field][Rows(v, r)[1].key]
    BY <1>4 DEF Guarded
  <2> QED
    BY <1>1, <2>1, <2>2, <2>4, <2>5, <2>6, <2>8 DEF AsSeen
<1> QED
  BY <1>3, <1>4

\* A type is created where none was.
LEMMA CreatesOnNothing ==
    ASSUME NEW d, Keeps(d), NEW r, NEW n \in Nat, n + 1 \in DOMAIN Rows(d, r), r.op \in Creations,
           Guard(Written(d, Rows(d, r), n), r, n + 1)
    PROVE  Spares(d, r)
<1>1. Written(d, Rows(d, r), n) = d /\ n = 0
  BY SingleRow, WrittenNone DEF Creations
<1>2. Guard(d, r, 1)
  BY <1>1
<1>3. d.type[r.p.path].kind = "none"
  BY <1>2 DEF Guard, Creations
<1> QED
  BY <1>3 DEF Spares, Creations

Opened == {"checked", "writing", "answered"}
\* What is known of the request from its check on, and of each row from its guard on.
Seen ==
    /\ phase \in {"sent"} \cup Opened => Expects(request, view) /\ Located(request)
    /\ phase \in Opened => Apart(request) /\ InTables(LooksEarly(request))
    /\ phase = "checked" /\ ~ late => Found(db[expected], request, view)
    /\ phase \in {"writing", "answered"} /\ ~ late => Found(saved, request, view)
    /\ phase \in {"writing", "answered"} => \A i \in 1..row :
        /\ request.op \notin ComparesEarly => AsSeen(saved, request, view, i)
        /\ request.op \in Creations => Spares(saved, request)

\* The row that is written now.
LEMMA RowAsSeen ==
    ASSUME WritesInv, Seen, phase = "writing", row + 1 \in DOMAIN Rows(saved, request),
           Guard(db[expected], request, row + 1)
    PROVE  /\ request.op \notin ComparesEarly => AsSeen(saved, request, view, row + 1)
           /\ request.op \in Creations => Spares(saved, request)
<1>1. /\ Keeps(saved) /\ row \in Nat /\ Expects(request, view) /\ Apart(request)
      /\ Guard(Written(saved, Rows(saved, request), row), request, row + 1)
  BY DEF WritesInv, Control, Tables, Transaction, Seen, Opened
<1>2. CASE request.op = "batch_set_comments"
  BY <1>1, <1>2, CommentAsSeen DEF Creations
<1>3. CASE request.op = "batch_rename"
  BY <1>1, <1>3, RenameAsSeen DEF Creations
<1>4. CASE request.op \in {"set_bookmark", "delete_bookmark", "rename_variable", "set_variable_type"}
  BY <1>1, <1>4, SingleAsSeen DEF Creations
<1>5. CASE request.op \in Creations
  <2>1. Spares(saved, request)
    BY <1>1, <1>5, CreatesOnNothing
  <2>2. AsSeen(saved, request, view, row + 1)
    BY <1>5 DEF AsSeen, Guarded, Creations
  <2> QED
    BY <2>1, <2>2
<1>6. CASE request.op \notin {"batch_set_comments", "batch_rename", "set_bookmark",
                "delete_bookmark", "rename_variable", "set_variable_type"} \cup Creations
  BY <1>6 DEF AsSeen, Guarded, ComparesEarly
<1> QED
  BY <1>2, <1>3, <1>4, <1>5, <1>6

LEMMA SeenInit == Init => Seen
  BY DEF Init, Seen, Opened

LEMMA SeenStep == WritesInv /\ Seen /\ [Next]_vars => Seen'
<1> SUFFICES ASSUME WritesInv, Seen, [Next]_vars
             PROVE  Seen'
  OBVIOUS
<1> USE DEF userVars, clientVars
<1>1. CASE UserEdits
  <2>1. /\ phase \in {"idle", "checked"} /\ phase' = phase
        /\ UNCHANGED <<request, view, expected, saved, row, active>>
    BY <1>1 DEF UserEdits
  <2>2. ASSUME phase = "checked", ~ late'
        PROVE  Found(db'[expected], request, view)
    <3>1. PICK i \in DOMAIN UserRows :
            /\ db' = [db EXCEPT ![active] = Put(@, UserRows[i])]
            /\ late' = (late \/ (phase = "checked" /\ active = expected
                                    /\ Cell(UserRows[i]) \in LooksEarly(request)))
      BY <1>1, <2>2 DEF UserEdits
    <3>2. Found(db[expected], request, view) /\ InTables(LooksEarly(request))
      BY <2>2, <3>1 DEF Seen, Opened
    <3>3. CASE active # expected
      <4>1. db'[expected] = db[expected]
        BY <3>1, <3>3 DEF WritesInv, Control, Tables
      <4> QED
        BY <3>2, <4>1
    <3>4. CASE active = expected
      <4> DEFINE d == db[expected]
                 x == UserRows[i]
      <4>1. Keeps(d) /\ db'[expected] = Put(d, x)
        BY <3>1, <3>4 DEF WritesInv, Control, Tables
      <4>2. Cell(x) \notin LooksEarly(request)
        BY <2>2, <3>1, <3>4
      <4>3. ASSUME NEW f \in DOMAIN Original, NEW k \in DOMAIN Original[f],
                   <<f, k>> \in LooksEarly(request)
            PROVE  Put(d, x)[f][k] = d[f][k]
        <5>1. f \in DOMAIN d /\ k \in DOMAIN d[f] /\ Cell(x) # <<f, k>>
          BY <4>1, <4>2, <4>3 DEF Keeps
        <5> HIDE DEF d, x
        <5> QED
          BY <5>1, PutCell
      <4> HIDE DEF d, x
      <4>4. Found(Put(d, x), request, view)
        BY <3>2, <4>3, FoundStays DEF d
      <4> QED
        BY <4>1, <4>4
    <3> QED
      BY <3>3, <3>4
  <2> QED
    BY <2>1, <2>2 DEF Seen, Opened
<1>2. CASE UserSwitches
  BY <1>2 DEF UserSwitches, Seen, Opened
<1>3. CASE Look
  BY <1>3 DEF Look, Seen, Opened
<1>4. CASE Ask
  <2>1. PICK plan \in Plans :
            /\ request' = [op |-> plan.op, p |-> Fill(plan, view)]
            /\ phase' = IF ValidEdit(request') THEN "sent" ELSE "idle"
    BY <1>4 DEF Ask
  <2>2. view' = view
    BY <1>4 DEF Ask
  <2>3. phase' = "sent" => Expects(request', view') /\ Located(request')
    BY <2>1, <2>2, FillExpects, FillLocated
  <2> QED
    BY <2>1, <2>3 DEF Seen, Opened
<1>5. CASE TakeResult
  <2>1. phase' \in {"idle", "doubt"}
    BY <1>5 DEF TakeResult
  <2> QED
    BY <2>1 DEF Seen, Opened
<1>6. CASE TakeError
  BY <1>6 DEF TakeError, Seen, Opened
<1>7. CASE Check
  <2>1. /\ phase = "sent" /\ phase' \in {"checked", "refused"}
        /\ phase' = "checked" => Before(db[expected], request)
        /\ saved' = db[expected] /\ UNCHANGED <<db, expected, view, request>>
    BY <1>7 DEF Check
  <2>2. Expects(request, view) /\ Located(request)
    BY <2>1 DEF Seen
  <2>3. ASSUME phase' = "checked"
        PROVE  /\ Apart(request) /\ InTables(LooksEarly(request))
               /\ Found(db[expected], request, view)
    <3>1. Before(db[expected], request) /\ Keeps(db[expected])
      BY <2>1, <2>3 DEF WritesInv, Control, Tables
    <3>2. Spares(db[expected], request)
      BY <3>1, BeforeSpares
    <3>3. request.op \in ComparesEarly => AsSeen(db[expected], request, view, 1)
      BY <2>2, <3>1, BeforeAsSeen
    <3> QED
      BY <2>2, <3>1, <3>2, <3>3, BeforeApart, BeforeInTables DEF Found
  <2> QED
    BY <2>1, <2>2, <2>3 DEF Seen, Opened
<1>8. CASE StartTransaction
  <2>1. /\ phase = "checked" /\ phase' = "writing" /\ saved' = db[expected] /\ row' = 0
        /\ UNCHANGED <<expected, view, request, late>>
    BY <1>8 DEF StartTransaction, WritesInv, Transaction
  <2> QED
    BY <2>1 DEF Seen, Opened
<1>9. CASE WriteRow
  <2>1. /\ phase = "writing" /\ phase' \in {"writing", "refused"}
        /\ UNCHANGED <<expected, view, request, saved, late>>
        /\ row + 1 \in DOMAIN Rows(saved, request)
        /\ phase' = "writing" => row' = row + 1 /\ Guard(db[expected], request, row + 1)
    BY <1>9 DEF WriteRow, Held
  <2>2. ASSUME phase' = "writing", NEW i \in 1..row'
        PROVE  /\ request.op \notin ComparesEarly => AsSeen(saved, request, view, i)
               /\ request.op \in Creations => Spares(saved, request)
    <3>1. CASE i = row + 1
      BY <2>1, <2>2, <3>1, RowAsSeen
    <3>2. CASE i \in 1..row
      BY <2>1, <3>2 DEF Seen
    <3> QED
      BY <2>1, <2>2, <3>1, <3>2 DEF WritesInv, Control
  <2> QED
    BY <2>1, <2>2 DEF Seen, Opened
<1>10. CASE NativeFault \/ LeaveInTime
  BY <1>10 DEF NativeFault, LeaveInTime, Seen, Opened
<1>11. CASE Commit
  <2>1. /\ phase = "writing" /\ phase' \in {"answered", "doubt"}
        /\ UNCHANGED <<expected, view, request, saved, late, row>>
    BY <1>11 DEF Commit
  <2> QED
    BY <2>1 DEF Seen, Opened
<1>12. CASE UNCHANGED vars
  BY <1>12 DEF vars, Seen, Opened
<1> QED
  BY <1>1, <1>2, <1>3, <1>4, <1>5, <1>6, <1>7, <1>8, <1>9, <1>10, <1>11, <1>12
     DEF Next, Finished

\* Every row in place: what the request is about is as the client has seen it, and
\* nothing is in the way, unless the user changed what had been looked at early.
LEMMA AllSeen ==
    ASSUME WritesInv, Seen, phase \in {"writing", "answered"}, row = Len(Rows(saved, request))
    PROVE  Agrees(saved, view, request) \/ late
<1> SUFFICES ASSUME ~ late
             PROVE  Agrees(saved, view, request)
  OBVIOUS
<1>1. Found(saved, request, view)
  BY DEF Seen
<1>2. ASSUME NEW i \in 1..row
      PROVE  AsSeen(saved, request, view, i)
  <2>1. CASE request.op \in ComparesEarly
    <3>1. /\ Guarded(saved, request, i) = Guarded(saved, request, 1)
          /\ Guarded(view, request, i) = Guarded(view, request, 1)
      BY <2>1 DEF Guarded, ComparesEarly
    <3> QED
      BY <1>1, <2>1, <3>1 DEF Found, AsSeen
  <2>2. CASE request.op \notin ComparesEarly
    BY <1>2, <2>2 DEF Seen
  <2> QED
    BY <2>1, <2>2
<1>3. Spares(saved, request)
  <2>1. CASE request.op \in Creations
    <3>1. Rows(saved, request) = <<Row("type", request.p.path, NewType(request))>>
      BY <2>1 DEF Rows, Creations
    <3>2. 1 \in 1..row
      BY <3>1
    <3> QED
      BY <2>1, <3>2 DEF Seen
  <2>2. CASE request.op \notin Creations
    BY <1>1, <2>2 DEF Found
  <2> QED
    BY <2>1, <2>2
<1> QED
  BY <1>2, <1>3 DEF Agrees, AsSeen

\* No guarded edit is committed over what the user changed since the client last
\* saw it, nor over what the request is to leave alone.  The guards of batches,
\* bookmarks and variables, and that a new type's place is free, are looked at in the
\* transaction; what clear_listing, set_processor_context, the definitions, the creation
\* of functions and blocks, set_structure_field and set_function_signature look at
\* before it holds unless the user changes just that before they begin to write.
THEOREM NoEditIsLost == Spec => []NoLostUpdate
<1>1. WritesInv /\ Seen => NoLostUpdate
  BY AllSeen DEF NoLostUpdate, WritesInv, Transaction
<1> QED
  BY <1>1, SeenInit, SeenStep, WritesHold, PTL DEF Spec

-----------------------------------------------------------------------------
(* Types.                                                                   *)

\* The field that is to be replaced is there, and as long as what replaces it.
Replaceable(t, p) ==
    t.kind = "structure" =>
        /\ FieldAt(t, p.offset) # {}
        /\ t.fields[TheField(t, p.offset)].length = LengthOf(p.data_type)
\* The places of types.
Types == DOMAIN Original.type
\* Every stored type is well formed; what a creation or a field edit was checked for
\* is still so when its row is written.
Layouts ==
    LET p == request.p
    IN /\ phase \in {"sent"} \cup Opened => ValidEdit(request) /\ request.op \in Operations
       /\ \A q \in Programs : \A k \in Types : WellFormed(db[q].type[k])
       /\ \A k \in Types : WellFormed(saved.type[k])
       /\ phase \in Opened /\ request.op = "create_structure" =>
            FitsStructure(p.size, InOrder([i \in DOMAIN p.fields |-> FieldOf(p.fields[i])]))
       /\ request.op = "set_structure_field" /\ p.path \in Types =>
            /\ phase = "checked" => Replaceable(db[expected].type[p.path], p)
            /\ phase = "writing" => Replaceable(saved.type[p.path], p)

LEMMA NoStructure ==
    ASSUME NEW t, "kind" \in DOMAIN t, t.kind # "structure"
    PROVE  WellFormed(t)
  BY DEF WellFormed

LEMMA StructureWellFormed ==
    ASSUME NEW t, {"kind", "fields", "length"} \subseteq DOMAIN t, Disjoint(t.fields),
           \A i \in DOMAIN t.fields : t.fields[i].offset + t.fields[i].length <= t.length
    PROVE  WellFormed(t)
  BY DEF WellFormed

\* A structure's field is replaced by one of the same length.
LEMMA ReplaceWellFormed ==
    ASSUME NEW t, NEW p, WellFormed(t), Replaceable(t, p)
    PROVE  WellFormed(Replace(t, TheField(t, p.offset), p))
<1> DEFINE i == TheField(t, p.offset)
           new == [FieldOf(p) EXCEPT !.comment =
                        IF p.comment = None THEN t.fields[i].comment ELSE @]
           u == Replace(t, i, p)
<1>1. u = [t EXCEPT !.fields[i] = new]
  BY DEF Replace
<1>2. DOMAIN u = DOMAIN t /\ u.kind = t.kind
  BY <1>1 DEF WellFormed
<1>3. CASE t.kind = "structure"
  <2>1. i \in DOMAIN t.fields /\ t.fields[i].offset = p.offset
        /\ t.fields[i].length = LengthOf(p.data_type)
    BY <1>3 DEF Replaceable, FieldAt, TheField
  <2>2. u.length = t.length /\ u.fields = [t.fields EXCEPT ![i] = new]
    BY <1>1, <1>3 DEF WellFormed
  <2>3. new.offset = p.offset /\ new.length = LengthOf(p.data_type)
    BY DEF FieldOf
  <2>4. /\ DOMAIN u.fields = DOMAIN t.fields
        /\ \A j \in DOMAIN t.fields : /\ u.fields[j].offset = t.fields[j].offset
                                      /\ u.fields[j].length = t.fields[j].length
    <3> HIDE DEF new, i, u
    <3> QED
      BY <2>1, <2>2, <2>3
  <2>5. Disjoint(u.fields)
    <3>1. Disjoint(t.fields)
      BY <1>3 DEF WellFormed
    <3> HIDE DEF u
    <3> QED
      BY <2>4, <3>1 DEF Disjoint
  <2>6. \A j \in DOMAIN u.fields : u.fields[j].offset + u.fields[j].length <= u.length
    <3>1. \A j \in DOMAIN t.fields : t.fields[j].offset + t.fields[j].length <= t.length
      BY <1>3 DEF WellFormed
    <3> HIDE DEF u
    <3> QED
      BY <2>2, <2>4, <3>1
  <2>7. "kind" \in DOMAIN t /\ {"fields", "length"} \subseteq DOMAIN t
    BY <1>3 DEF WellFormed
  <2>8. {"kind", "fields", "length"} \subseteq DOMAIN u
    BY <1>2, <2>7
  <2>9. WellFormed(u)
    <3> HIDE DEF u
    <3> QED
      BY <2>5, <2>6, <2>8, StructureWellFormed
  <2> QED
    BY <2>9
<1>4. CASE t.kind # "structure"
  <2>1. "kind" \in DOMAIN t
    BY DEF WellFormed
  <2> QED
    BY <1>2, <1>4, <2>1, NoStructure
<1> QED
  BY <1>3, <1>4

\* What a creation stores.
LEMMA NewTypeWellFormed ==
    ASSUME NEW r, r.op \in Creations,
           r.op = "create_structure" =>
                FitsStructure(r.p.size,
                              InOrder([i \in DOMAIN r.p.fields |-> FieldOf(r.p.fields[i])]))
    PROVE  WellFormed(NewType(r))
<1>1. CASE r.op = "create_structure"
  <2> DEFINE fields == InOrder([i \in DOMAIN r.p.fields |-> FieldOf(r.p.fields[i])])
  <2>1. NewType(r) = [kind |-> "structure", path |-> r.p.path, length |-> r.p.size,
                      fields |-> fields]
    BY <1>1 DEF NewType, Structure
  <2>2. FitsStructure(r.p.size, fields)
    BY <1>1
  <2> HIDE DEF fields
  <2>3. /\ {"kind", "fields", "length"} \subseteq DOMAIN NewType(r)
        /\ NewType(r).fields = fields /\ NewType(r).length = r.p.size
    BY <2>1
  <2>4. Disjoint(fields)
    BY <2>2 DEF FitsStructure
  <2>5. \A i \in DOMAIN fields : fields[i].offset + fields[i].length <= r.p.size
    BY <2>2 DEF FitsStructure
  <2> QED
    BY <2>3, <2>4, <2>5, StructureWellFormed
<1>2. CASE r.op = "create_union"
  <2>1. NewType(r) = UnionOf(r.p)
    BY <1>2 DEF NewType
  <2>2. "kind" \in DOMAIN UnionOf(r.p) /\ UnionOf(r.p).kind = "union"
    BY DEF UnionOf
  <2> QED
    BY <2>1, <2>2, NoStructure
<1>3. CASE r.op = "create_enum"
  <2>1. NewType(r) = EnumOf(r.p)
    BY <1>3 DEF NewType
  <2>2. "kind" \in DOMAIN EnumOf(r.p) /\ EnumOf(r.p).kind = "enum"
    BY DEF EnumOf
  <2> QED
    BY <2>1, <2>2, NoStructure
<1>4. CASE r.op = "create_typedef"
  <2>1. NewType(r) = TypedefOf(r.p)
    BY <1>4 DEF NewType
  <2>2. "kind" \in DOMAIN TypedefOf(r.p) /\ TypedefOf(r.p).kind = "typedef"
    BY DEF TypedefOf
  <2> QED
    BY <2>1, <2>2, NoStructure
<1> QED
  BY <1>1, <1>2, <1>3, <1>4 DEF Creations

\* Only creations and field edits write types.
LEMMA OtherRows ==
    ASSUME NEW d, NEW r, NEW i \in DOMAIN Rows(d, r), ValidEdit(r),
           r.op \in Operations \ (Creations \cup {"set_structure_field"})
    PROVE  Rows(d, r)[i].field # "type"
<1>1. CASE r.op = "batch_rename"
  <2>1. Rows(d, r) = [j \in DOMAIN r.p.updates |->
                        Row(r.p.updates[j].kind, r.p.updates[j].address, r.p.updates[j].name)]
    BY <1>1 DEF Rows, Creations
  <2>2. r.p \in BatchRenameParams
    BY <1>1 DEF ValidEdit
  <2>3. r.p.updates \in Seq(RenameUpdate)
    BY <2>2 DEF BatchRenameParams
  <2>4. r.p.updates[i] \in RenameUpdate
    BY <2>1, <2>3
  <2> QED
    BY <2>1, <2>4 DEF RenameUpdate, Row
<1>2. CASE r.op = "set_label"
  BY <1>2 DEF Rows, Creations, Row
<1>3. CASE r.op = "set_comment"
  BY <1>3 DEF Rows, Creations, Row
<1>4. CASE r.op = "set_bookmark"
  BY <1>4 DEF Rows, Creations, Row
<1>5. CASE r.op = "delete_bookmark"
  BY <1>5 DEF Rows, Creations, Row
<1>6. CASE r.op = "set_processor_context"
  BY <1>6 DEF Rows, Creations, Row
<1>7. CASE r.op = "batch_set_comments"
  BY <1>7 DEF Rows, Creations, Row
<1>8. CASE r.op = "clear_listing"
  BY <1>8 DEF Rows, Creations, Row, Across
<1>9. CASE r.op = "create_instructions"
  BY <1>9 DEF Rows, Creations, Row, Across
<1>10. CASE r.op = "define_data"
  BY <1>10 DEF Rows, Creations, Row, Across
<1>11. CASE r.op = "apply_data_type"
  BY <1>11 DEF Rows, Creations, Row, Across
<1>12. CASE r.op = "create_function"
  BY <1>12 DEF Rows, Creations, Row
<1>13. CASE r.op = "rename_function"
  BY <1>13 DEF Rows, Creations, Row
<1>14. CASE r.op = "rename_variable"
  BY <1>14 DEF Rows, Creations, Row
<1>15. CASE r.op = "set_variable_type"
  BY <1>15 DEF Rows, Creations, Row
<1>16. CASE r.op = "set_function_signature"
  BY <1>16 DEF Rows, Creations, Row
<1>17. CASE r.op = "set_analysis_options"
  BY <1>17 DEF Rows, Creations, Row
<1>18. CASE r.op = "set_image_base"
  BY <1>18 DEF Rows, Creations, Row
<1>19. CASE r.op = "create_memory_block"
  BY <1>19 DEF Rows, Creations, Row
<1>20. CASE r.op = "update_function_tags"
  BY <1>20 DEF Rows, Creations, Row
<1> QED
  BY <1>1, <1>2, <1>3, <1>4, <1>5, <1>6, <1>7, <1>8, <1>9, <1>10, <1>11, <1>12, <1>13, <1>14, <1>15, <1>16, <1>17, <1>18, <1>19, <1>20
     DEF Operations, Creations

\* A user who leaves the layout of a structure alone takes no field away.
LEMMA LayoutReplaceable ==
    ASSUME NEW t, NEW u, NEW p, Replaceable(t, p),
           u.kind = "structure" => t.kind = "structure" /\ SameLayout(u, t)
    PROVE  Replaceable(u, p)
<1> SUFFICES ASSUME u.kind = "structure"
             PROVE  /\ FieldAt(u, p.offset) # {}
                    /\ u.fields[TheField(u, p.offset)].length = LengthOf(p.data_type)
  BY DEF Replaceable
<1>1. t.kind = "structure" /\ SameLayout(u, t)
  OBVIOUS
<1>2. FieldAt(u, p.offset) = FieldAt(t, p.offset)
  BY <1>1 DEF FieldAt, SameLayout
<1>3. TheField(u, p.offset) = TheField(t, p.offset)
  BY <1>2 DEF TheField
<1>4. FieldAt(t, p.offset) # {} /\ t.fields[TheField(t, p.offset)].length = LengthOf(p.data_type)
  BY <1>1 DEF Replaceable
<1>5. TheField(t, p.offset) \in DOMAIN t.fields
  BY <1>1, <1>4 DEF TheField, FieldAt
<1> QED
  BY <1>1, <1>2, <1>3, <1>4, <1>5 DEF SameLayout

\* What the checks before the transaction say of the types.
LEMMA BeforeReplaceable ==
    ASSUME NEW d, NEW r, Before(d, r)
    PROVE  /\ r.op = "create_structure" =>
                FitsStructure(r.p.size,
                              InOrder([i \in DOMAIN r.p.fields |-> FieldOf(r.p.fields[i])]))
           /\ r.op = "set_structure_field" => Replaceable(d.type[r.p.path], r.p)
<1>1. ASSUME r.op = "create_structure"
      PROVE  FitsStructure(r.p.size,
                           InOrder([i \in DOMAIN r.p.fields |-> FieldOf(r.p.fields[i])]))
  BY <1>1 DEF Before, Creations
<1>2. ASSUME r.op = "set_structure_field"
      PROVE  Replaceable(d.type[r.p.path], r.p)
  BY <1>2 DEF Before, Creations, Replaceable
<1> QED
  BY <1>1, <1>2

LEMMA TypesKept ==
    ASSUME NEW d, Keeps(d)
    PROVE  "type" \in DOMAIN d /\ DOMAIN d["type"] = Types
  BY OriginalAssumption DEF Keeps, Types

\* A row leaves the types well formed if the type it holds is.
LEMMA PutWellFormed ==
    ASSUME NEW d, NEW x, Keeps(d), \A k \in Types : WellFormed(d.type[k]),
           x.field = "type" /\ x.key \in Types => WellFormed(x.value)
    PROVE  \A k \in Types : WellFormed(Put(d, x).type[k])
<1> SUFFICES ASSUME NEW k \in Types
             PROVE  WellFormed(Put(d, x)["type"][k])
  OBVIOUS
<1>1. "type" \in DOMAIN d /\ k \in DOMAIN d["type"]
  BY TypesKept
<1>2. CASE Cell(x) = <<"type", k>>
  <2>1. x.field = "type" /\ x.key = k
    BY <1>2 DEF Cell
  <2>2. Put(d, x)["type"][k] = x.value
    BY <1>1, <1>2, PutCell
  <2> QED
    BY <2>1, <2>2
<1>3. CASE Cell(x) # <<"type", k>>
  <2>1. Put(d, x)["type"][k] = d["type"][k]
    BY <1>1, <1>3, PutCell
  <2> QED
    BY <2>1
<1> QED
  BY <1>2, <1>3

\* And the type of every row is.
LEMMA RowWellFormed ==
    ASSUME Layouts, phase = "writing", NEW i \in DOMAIN Rows(saved, request),
           Rows(saved, request)[i].field = "type", Rows(saved, request)[i].key \in Types
    PROVE  WellFormed(Rows(saved, request)[i].value)
<1> DEFINE p == request.p
           x == Rows(saved, request)[i]
<1>1. ValidEdit(request) /\ request.op \in Operations
  BY DEF Layouts, Opened
<1>2. CASE request.op \in Creations
  <2>1. Rows(saved, request) = <<Row("type", p.path, NewType(request))>>
    BY <1>2 DEF Rows, Creations
  <2>2. x.value = NewType(request)
    BY <2>1 DEF Row
  <2>3. WellFormed(NewType(request))
    BY <1>2, NewTypeWellFormed DEF Layouts, Opened
  <2> QED
    BY <2>2, <2>3
<1>3. CASE request.op = "set_structure_field"
  <2> DEFINE t == saved.type[p.path]
  <2>1. Rows(saved, request) = <<Row("type", p.path, Replace(t, TheField(t, p.offset), p))>>
    BY <1>3 DEF Rows, Creations
  <2>2. x.value = Replace(t, TheField(t, p.offset), p) /\ x.key = p.path
    BY <2>1 DEF Row
  <2>3. WellFormed(t) /\ Replaceable(t, p)
    BY <1>3, <2>2 DEF Layouts
  <2>4. WellFormed(Replace(t, TheField(t, p.offset), p))
    BY <2>3, ReplaceWellFormed
  <2> QED
    BY <2>2, <2>4
<1> QED
  BY <1>1, <1>2, <1>3, OtherRows

LEMMA LayoutsInit == Init => Layouts
  BY OriginalAssumption DEF Init, Layouts, Types, Opened

LEMMA LayoutsStep == WritesInv /\ Layouts /\ [Next]_vars => Layouts'
<1> SUFFICES ASSUME WritesInv, Layouts, [Next]_vars
             PROVE  Layouts'
  OBVIOUS
<1> USE DEF userVars, clientVars
<1>0. /\ \A q \in Programs : Keeps(db[q])
      /\ Keeps(saved) /\ expected \in Programs /\ active \in Programs
      /\ db = [p \in Programs |-> db[p]]
  BY DEF WritesInv, Tables, Control
<1>1. CASE UserEdits
  <2>1. PICK i \in DOMAIN UserRows :
            LET x == UserRows[i]
            IN /\ db' = [db EXCEPT ![active] = Put(@, x)]
               /\ x.field = "type" /\ x.value.kind = "structure" =>
                    LET t == db[active].type[x.key]
                    IN t.kind = "structure" /\ SameLayout(x.value, t)
    BY <1>1 DEF UserEdits
  <2> DEFINE x == UserRows[i]
  <2>2. /\ phase \in {"idle", "checked"} /\ phase' = phase
        /\ UNCHANGED <<request, expected, saved>>
    BY <1>1 DEF UserEdits
  <2>3. db'[active] = Put(db[active], x) /\ \A q \in Programs \ {active} : db'[q] = db[q]
    BY <1>0, <2>1
  <2>4. x.field = "type" => WellFormed(x.value)
    BY OriginalAssumption
  <2>5. \A k \in Types : WellFormed(db[active].type[k])
    BY <1>0 DEF Layouts
  <2>6. \A k \in Types : WellFormed(Put(db[active], x).type[k])
    BY <1>0, <2>4, <2>5, PutWellFormed
  <2>7. \A q \in Programs : \A k \in Types : WellFormed(db'[q].type[k])
    BY <2>3, <2>6 DEF Layouts
  <2>8. ASSUME phase = "checked", request.op = "set_structure_field", request.p.path \in Types
        PROVE  Replaceable(db'[expected].type[request.p.path], request.p)
    <3> DEFINE k == request.p.path
    <3>1. Replaceable(db[expected].type[k], request.p)
      BY <2>8 DEF Layouts
    <3>2. CASE active # expected \/ Cell(x) # <<"type", k>>
      <4>1. "type" \in DOMAIN db[expected] /\ k \in DOMAIN db[expected]["type"]
        BY <1>0, <2>8, TypesKept
      <4>2. db'[expected]["type"][k] = db[expected]["type"][k]
        BY <1>0, <2>3, <3>2, <4>1, PutCell
      <4> QED
        BY <3>1, <4>2
    <3>3. CASE active = expected /\ Cell(x) = <<"type", k>>
      <4>1. "type" \in DOMAIN db[expected] /\ k \in DOMAIN db[expected]["type"]
        BY <1>0, <2>8, TypesKept
      <4>2. db'[expected]["type"][k] = x.value
        BY <1>0, <2>3, <3>3, <4>1, PutCell
      <4>3. x.field = "type" /\ x.key = k
        BY <3>3 DEF Cell
      <4>4. x.value.kind = "structure" =>
                /\ db[expected].type[k].kind = "structure"
                /\ SameLayout(x.value, db[expected].type[k])
        BY <2>1, <3>3, <4>3
      <4>5. Replaceable(x.value, request.p)
        BY <3>1, <4>4, LayoutReplaceable
      <4> QED
        BY <4>2, <4>5
    <3> QED
      BY <3>2, <3>3
  <2> QED
    BY <2>2, <2>7, <2>8 DEF Layouts, Opened
<1>2. CASE UserSwitches
  BY <1>2 DEF UserSwitches, Layouts, Opened
<1>3. CASE Look
  BY <1>3 DEF Look, Layouts, Opened
<1>4. CASE Ask
  <2>1. PICK plan \in Plans :
            /\ request' = [op |-> plan.op, p |-> Fill(plan, view)]
            /\ phase' = IF ValidEdit(request') THEN "sent" ELSE "idle"
    BY <1>4 DEF Ask
  <2>2. request'.op \in Operations
    BY <2>1, PlansAssumption
  <2>3. phase' \in {"sent", "idle"} /\ (phase' = "sent" => ValidEdit(request'))
    BY <2>1
  <2>4. UNCHANGED <<db, saved>>
    BY <1>4 DEF Ask
  <2> QED
    BY <2>2, <2>3, <2>4 DEF Layouts, Opened
<1>5. CASE TakeResult
  <2>1. phase' \in {"idle", "doubt"} /\ UNCHANGED <<db, saved>>
    BY <1>5 DEF TakeResult
  <2> QED
    BY <2>1 DEF Layouts, Opened
<1>6. CASE TakeError
  BY <1>6 DEF TakeError, Layouts, Opened
<1>7. CASE Check
  <2>1. /\ phase = "sent" /\ phase' \in {"checked", "refused"}
        /\ phase' = "checked" => Before(db[expected], request)
        /\ saved' = db[expected] /\ UNCHANGED <<db, expected, request>>
    BY <1>7 DEF Check
  <2>2. phase' = "checked" =>
            /\ request.op = "create_structure" =>
                FitsStructure(request.p.size,
                    InOrder([i \in DOMAIN request.p.fields |-> FieldOf(request.p.fields[i])]))
            /\ request.op = "set_structure_field" =>
                Replaceable(db[expected].type[request.p.path], request.p)
    BY <2>1, BeforeReplaceable
  <2>3. \A k \in Types : WellFormed(db[expected].type[k])
    BY <1>0 DEF Layouts
  <2> QED
    BY <2>1, <2>2, <2>3 DEF Layouts, Opened
<1>8. CASE StartTransaction
  <2>1. /\ phase = "checked" /\ phase' = "writing" /\ saved' = db[expected]
        /\ UNCHANGED <<db, expected, request>>
    BY <1>8 DEF StartTransaction
  <2>2. \A k \in Types : WellFormed(db[expected].type[k])
    BY <1>0 DEF Layouts
  <2> QED
    BY <2>1, <2>2 DEF Layouts, Opened
<1>9. CASE WriteRow
  <2> DEFINE x == Rows(saved, request)[row + 1]
  <2>1. /\ phase = "writing" /\ row + 1 \in DOMAIN Rows(saved, request)
        /\ UNCHANGED <<expected, request, saved>>
        /\ \/ db' = [db EXCEPT ![expected] = Put(db[expected], x)] /\ phase' = "writing"
           \/ db' = [db EXCEPT ![expected] = saved] /\ phase' = "refused"
    BY <1>9 DEF WriteRow, Held, Rollback
  <2>2. x.field = "type" /\ x.key \in Types => WellFormed(x.value)
    BY <2>1, RowWellFormed
  <2>3. \A k \in Types : WellFormed(Put(db[expected], x).type[k])
    <3>1. \A k \in Types : WellFormed(db[expected].type[k])
      BY <1>0 DEF Layouts
    <3> HIDE DEF x
    <3> QED
      BY <1>0, <2>2, <3>1, PutWellFormed
  <2>4. \A q \in Programs : \A k \in Types : WellFormed(db'[q].type[k])
    <3> HIDE DEF x
    <3> QED
      BY <1>0, <2>1, <2>3 DEF Layouts
  <2> QED
    BY <2>1, <2>4 DEF Layouts, Opened
<1>10. CASE NativeFault \/ LeaveInTime
  <2>1. /\ db' = [db EXCEPT ![expected] = saved] /\ phase' \in {"doubt", "refused"}
        /\ saved' = saved
    BY <1>10 DEF NativeFault, LeaveInTime, Held, Rollback
  <2> QED
    BY <1>0, <2>1 DEF Layouts, Opened
<1>11. CASE Commit
  <2>1. /\ phase = "writing" /\ phase' \in {"answered", "doubt"}
        /\ UNCHANGED <<db, expected, request, saved>>
    BY <1>11 DEF Commit
  <2> QED
    BY <2>1 DEF Layouts, Opened
<1>12. CASE UNCHANGED vars
  BY <1>12 DEF vars, Layouts, Opened
<1> QED
  BY <1>1, <1>2, <1>3, <1>4, <1>5, <1>6, <1>7, <1>8, <1>9, <1>10, <1>11, <1>12
     DEF Next, Finished

\* No sequence of creations and field edits, by the client and by the user, leads to
\* a structure with one field over another or outside of it: createType refuses
\* such a layout, and fieldEdit replaces a field only by one of its length.
THEOREM TypesStayWellFormed == Spec => []TypeOK
<1>1. WritesInv /\ Layouts => TypeOK
  <2> SUFFICES ASSUME WritesInv, Layouts
               PROVE  /\ \A p \in Programs : DOMAIN db[p] = DOMAIN Original
                      /\ \A p \in Programs : \A k \in DOMAIN db[p].type : WellFormed(db[p].type[k])
    BY DEF WritesInv, Control, TypeOK
  <2>1. \A p \in Programs : Keeps(db[p])
    BY DEF WritesInv, Tables
  <2>2. \A p \in Programs : DOMAIN db[p] = DOMAIN Original /\ DOMAIN db[p].type = Types
    BY <2>1, TypesKept DEF Keeps
  <2> QED
    BY <2>2 DEF Layouts
<1> QED
  BY <1>1, LayoutsInit, LayoutsStep, WritesHold, PTL DEF Spec

-----------------------------------------------------------------------------
(* Edits implements AtomicEdits.                                            *)

\* The databases as they are outside of a transaction.
LEMMA OutsideIs ==
    ASSUME WritesInv
    PROVE  /\ Outside = [p \in Programs |-> Outside[p]]
           /\ phase # "writing" => Outside = db
           /\ phase = "writing" => Outside[expected] = saved
           /\ \A p \in Programs \ {expected} : Outside[p] = db[p]
  BY DEF WritesInv, Tables, Control, Outside

LEMMA EditIs ==
    /\ phase = "idle" => Edit = "none"
    /\ phase = "answered" => Edit = "done"
    /\ phase \in {"sent", "checked", "writing"} => Edit = "asked"
    /\ phase = "refused" => Edit = "refused"
    /\ phase = "doubt" => Edit = "doubt"
  BY DEF Edit

LEMMA RefinesUser ==
    ASSUME WritesInv, Seen, UserEdits
    PROVE  Promise!UserEdits
<1>1. PICK i \in DOMAIN UserRows :
        /\ db[active][UserRows[i].field][UserRows[i].key] # UserRows[i].value
        /\ db' = [db EXCEPT ![active] = Put(@, UserRows[i])]
        /\ late' = (late \/ (phase = "checked" /\ active = expected
                                /\ Cell(UserRows[i]) \in LooksEarly(request)))
  BY DEF UserEdits
<1> DEFINE x == UserRows[i]
<1>2. /\ phase \in {"idle", "checked"} /\ phase' = phase
      /\ UNCHANGED <<active, expected, view, request>>
  BY DEF UserEdits, clientVars
<1>3. Outside = db /\ Outside' = [p \in Programs |-> db'[p]]
  BY <1>2, OutsideIs DEF Outside
<1>4. active \in Programs /\ db = [p \in Programs |-> db[p]] /\ Keeps(db[active])
  BY DEF WritesInv, Control, Tables
<1>5. Outside' = [Outside EXCEPT ![active] = Put(db[active], x)]
  <2> HIDE DEF x
  <2> QED
    BY <1>1, <1>3, <1>4 DEF x
<1>6. Put(db[active], x) # db[active]
  <2>1. x.field \in DOMAIN db[active] /\ x.key \in DOMAIN db[active][x.field]
    BY <1>4, OriginalAssumption DEF Keeps
  <2>2. Put(db[active], x)[x.field][x.key] = x.value
    BY <2>1, PutCell DEF Cell
  <2> QED
    BY <1>1, <2>2
<1>7. UserMay(db[active], Put(db[active], x))
  BY DEF UserMay
<1>8. ASSUME phase = "checked"
      PROVE  Cell(x) \in LooksEarly(request) <=>
                \E c \in LooksEarly(request) :
                    Put(db[active], x)[c[1]][c[2]] # db[active][c[1]][c[2]]
  <2> DEFINE d == db[active]
  <2>1. InTables(LooksEarly(request))
    BY <1>8 DEF Seen, Opened
  <2>2. x.field \in DOMAIN d /\ x.key \in DOMAIN d[x.field] /\ d[x.field][x.key] # x.value
    BY <1>1, <1>4, OriginalAssumption DEF Keeps
  <2>3. Cell(x) = <<x.field, x.key>>
    BY DEF Cell
  <2>4. Put(d, x)[x.field][x.key] = x.value
    <3> HIDE DEF d, x
    <3> QED
      BY <2>2, <2>3, PutCell
  <2>5. ASSUME NEW c \in LooksEarly(request), Put(d, x)[c[1]][c[2]] # d[c[1]][c[2]]
        PROVE  c = Cell(x)
    <3>1. PICK f \in DOMAIN Original : \E k \in DOMAIN Original[f] : c = <<f, k>>
      BY <2>1, <2>5 DEF InTables
    <3>2. PICK k \in DOMAIN Original[f] : c = <<f, k>>
      BY <3>1
    <3>3. f \in DOMAIN d /\ k \in DOMAIN d[f]
      BY <1>4 DEF Keeps
    <3>4. c[1] = f /\ c[2] = k
      BY <3>2
    <3> HIDE DEF d, x
    <3> QED
      BY <2>5, <3>2, <3>3, <3>4, PutCell
  <2> HIDE DEF d, x
  <2>6. ASSUME Cell(x) \in LooksEarly(request)
        PROVE  \E c \in LooksEarly(request) : Put(d, x)[c[1]][c[2]] # d[c[1]][c[2]]
    <3>1. Cell(x)[1] = x.field /\ Cell(x)[2] = x.key
      BY <2>3
    <3> QED
      BY <2>2, <2>4, <2>6, <3>1
  <2> QED
    BY <2>5, <2>6 DEF d
<1>11. (phase' \in {"checked", "writing"} /\ late') =
        ((phase \in {"checked", "writing"} /\ late) \/
            (Edit = "asked" /\ active = expected
                /\ \E c \in LooksEarly(request) :
                        Put(db[active], x)[c[1]][c[2]] # db[active][c[1]][c[2]]))
  <2> HIDE DEF x
  <2>1. CASE phase = "checked"
    <3>1. late' = (late \/ (active = expected /\ Cell(x) \in LooksEarly(request)))
      BY <1>1, <2>1 DEF x
    <3>2. Edit = "asked"
      BY <2>1, EditIs
    <3> QED
      BY <1>2, <1>8, <2>1, <3>1, <3>2
  <2>2. CASE phase = "idle"
    BY <1>2, <2>2, EditIs
  <2> QED
    BY <1>2, <2>1, <2>2
<1>9. Edit' = Edit
  BY <1>2 DEF Edit
<1>10. Outside'[active] = Put(db[active], x) /\ Outside[active] = db[active]
  <2> HIDE DEF x
  <2> QED
    BY <1>3, <1>4, <1>5
<1> QED
  <2> HIDE DEF x
  <2> QED
    BY <1>2, <1>5, <1>6, <1>7, <1>9, <1>10, <1>11 DEF Promise!UserEdits

LEMMA RefinesClient ==
    ASSUME WritesInv, UserSwitches \/ Look \/ Ask \/ TakeResult \/ TakeError
    PROVE  [Promise!Next]_(Promise!vars)
<1>1. CASE UserSwitches
  <2>1. /\ active' \in Programs \ {active}
        /\ UNCHANGED <<db, expected, view, request, phase, saved, late>>
    BY <1>1 DEF UserSwitches, clientVars
  <2>2. UNCHANGED <<Outside, Edit>>
    BY <2>1 DEF Outside, Edit
  <2>3. Promise!UserSwitches
    BY <2>1, <2>2 DEF Promise!UserSwitches
  <2> QED
    BY <2>3 DEF Promise!Next
<1>2. CASE Look
  <2>1. /\ phase = "idle" /\ expected' = active /\ view' = db[active]
        /\ UNCHANGED <<active, db, request, phase, saved, late>>
    BY <1>2 DEF Look, userVars
  <2>2. Outside = db /\ Outside' = Outside /\ Edit = "none" /\ Edit' = Edit
    BY <2>1, OutsideIs, EditIs DEF Outside, Edit
  <2>3. Promise!Look
    BY <2>1, <2>2 DEF Promise!Look
  <2> QED
    BY <2>3 DEF Promise!Next
<1>3. CASE Ask
  <2>1. /\ phase = "idle" /\ phase' \in {"idle", "sent"}
        /\ UNCHANGED <<active, db, expected, view, saved, late>>
    BY <1>3 DEF Ask, userVars
  <2>2. Outside' = Outside /\ Edit = "none" /\ Edit' \in {"none", "asked"}
    BY <2>1, EditIs DEF Outside, Edit
  <2>3. Promise!Ask
    BY <2>1, <2>2 DEF Promise!Ask
  <2> QED
    BY <2>3 DEF Promise!Next
<1>4. CASE TakeResult
  <2>1. /\ phase = "answered" /\ phase' \in {"idle", "doubt"}
        /\ phase' = "idle" => view' = Learned(view, db[expected], Rows(saved, request))
        /\ phase' = "doubt" => view' = view
        /\ UNCHANGED <<active, db, expected, request, saved, late>>
    BY <1>4 DEF TakeResult, userVars
  <2>2. Outside = db /\ Outside' = Outside /\ Edit = "done"
    BY <2>1, OutsideIs, EditIs DEF Outside
  <2>3. CASE phase' = "idle"
    <3>1. Edit' = "none"
      BY <2>3 DEF Edit
    <3>2. /\ view' = [f \in DOMAIN view |-> [k \in DOMAIN view[f] |-> view'[f][k]]]
          /\ \A f \in DOMAIN view : \A k \in DOMAIN view[f] :
                view'[f][k] \in {view[f][k], db[expected][f][k]}
      <4> DEFINE rows == Rows(saved, request)
      <4>1. view' = Learned(view, db[expected], rows)
        BY <2>1, <2>3
      <4> HIDE DEF rows
      <4> QED
        BY <4>1 DEF Learned
    <3>3. Promise!Learn
      BY <2>1, <2>2, <2>3, <3>1, <3>2 DEF Promise!Learn
    <3> QED
      BY <3>3 DEF Promise!Next
  <2>4. CASE phase' = "doubt"
    <3>1. Edit' = "doubt"
      BY <2>4 DEF Edit
    <3>2. Promise!Doubt
      BY <2>1, <2>2, <2>4, <3>1 DEF Promise!Doubt
    <3> QED
      BY <3>2 DEF Promise!Next
  <2> QED
    BY <2>1, <2>3, <2>4
<1>5. CASE TakeError
  <2>1. /\ phase = "refused" /\ phase' = "idle"
        /\ UNCHANGED <<active, db, expected, view, request, saved, late>>
    BY <1>5 DEF TakeError, userVars, clientVars
  <2>2. Outside' = Outside /\ Edit = "refused" /\ Edit' = "none"
    BY <2>1, EditIs DEF Outside, Edit
  <2>3. Promise!GoOn
    BY <2>1, <2>2 DEF Promise!GoOn
  <2> QED
    BY <2>3 DEF Promise!Next
<1> QED
  BY <1>1, <1>2, <1>3, <1>4, <1>5

LEMMA RefinesBridge ==
    ASSUME WritesInv, Seen,
           Check \/ StartTransaction \/ WriteRow \/ NativeFault \/ LeaveInTime \/ Commit
    PROVE  [Promise!Next]_(Promise!vars)
<1>0. /\ expected \in Programs /\ active \in Programs /\ db = [p \in Programs |-> db[p]]
      /\ UNCHANGED <<active, expected, view, request>>
  BY DEF WritesInv, Control, Tables, Check, StartTransaction, WriteRow, NativeFault, LeaveInTime,
         Commit, userVars, clientVars
<1>1. CASE Check
  <2>1. /\ phase = "sent" /\ phase' \in {"checked", "refused"} /\ late' = FALSE
        /\ db' = db
    BY <1>1 DEF Check
  <2>2. Outside' = Outside /\ Edit = "asked"
    BY <1>0, <2>1, EditIs DEF Outside
  <2>3. CASE phase' = "checked"
    <3>1. Edit' = "asked"
      BY <2>3 DEF Edit
    <3> QED
      BY <1>0, <2>1, <2>2, <3>1 DEF Promise!vars
  <2>4. CASE phase' = "refused"
    <3>1. Edit' = "refused"
      BY <2>4 DEF Edit
    <3>2. Promise!Fail
      BY <1>0, <2>1, <2>2, <3>1 DEF Promise!Fail
    <3> QED
      BY <3>2 DEF Promise!Next
  <2> QED
    BY <2>1, <2>3, <2>4
<1>2. CASE StartTransaction
  <2>1. /\ phase = "checked" /\ phase' = "writing" /\ saved' = db[expected]
        /\ UNCHANGED <<db, late>>
    BY <1>2 DEF StartTransaction
  <2>2. Outside' = Outside /\ Edit = "asked" /\ Edit' = "asked"
    BY <1>0, <2>1 DEF Outside, Edit
  <2> QED
    BY <1>0, <2>1, <2>2 DEF Promise!vars
<1>3. CASE WriteRow \/ NativeFault \/ LeaveInTime
  <2>1. PICK d :
        /\ phase = "writing" /\ UNCHANGED <<saved, late>>
        /\ db' = [db EXCEPT ![expected] = d]
        /\ phase' \in {"writing", "refused", "doubt"}
        /\ phase' # "writing" => d = saved
    BY <1>3 DEF WriteRow, NativeFault, LeaveInTime, Held, Rollback
  <2>2. Outside' = Outside
    BY <1>0, <2>1 DEF Outside
  <2>3. Edit = "asked"
    BY <2>1, EditIs
  <2>4. CASE phase' = "writing"
    <3>1. Edit' = "asked"
      BY <2>4 DEF Edit
    <3> QED
      BY <1>0, <2>1, <2>2, <2>3, <2>4, <3>1 DEF Promise!vars
  <2>5. CASE phase' # "writing"
    <3>1. Edit' \in {"refused", "doubt"}
      BY <2>1, <2>5 DEF Edit
    <3>2. Promise!Fail
      BY <1>0, <2>1, <2>2, <2>3, <2>5, <3>1 DEF Promise!Fail
    <3> QED
      BY <3>2 DEF Promise!Next
  <2> QED
    BY <2>4, <2>5
<1>4. CASE Commit
  <2>1. /\ phase = "writing" /\ row = Len(Rows(saved, request))
        /\ phase' \in {"answered", "doubt"} /\ (phase' = "answered" => active = expected)
        /\ UNCHANGED <<db, saved, late>>
    BY <1>4 DEF Commit
  <2>2. Outside[expected] = saved /\ \A p \in Programs \ {expected} : Outside[p] = db[p]
    BY <2>1, OutsideIs
  <2>3. db[expected] = Effect(saved, request)
    BY <2>1 DEF Effect, Edited, Written, WritesInv, Transaction
  <2>4. Outside = [p \in Programs |-> Outside[p]] /\ Outside' = db
    BY <1>0, <2>1 DEF Outside
  <2>5. Outside' = [Outside EXCEPT ![expected] = Effect(@, request)]
    BY <1>0, <2>2, <2>3, <2>4
  <2>6. Agrees(Outside[expected], view, request) \/ late
    BY <2>1, <2>2, AllSeen
  <2>7. /\ Edit = "asked" /\ Edit' \in {"done", "doubt"}
        /\ Edit' = "done" => active = expected
    BY <2>1 DEF Edit
  <2>8. Promise!Apply
    BY <1>0, <2>1, <2>5, <2>6, <2>7 DEF Promise!Apply
  <2> QED
    BY <2>8 DEF Promise!Next
<1> QED
  BY <1>1, <1>2, <1>3, <1>4

\* Seen from outside every edit is one step or none: for any programs, plans and
\* moves of the user, the rows, guards, readbacks, failures and rollbacks of a command
\* come to AtomicEdits.
THEOREM EditsAreAtomic == Spec => ImplementsAtomicEdits
<1>1. Init => Promise!Init
  <2> SUFFICES ASSUME Init
               PROVE  Promise!Init
    OBVIOUS
  <2>1. Outside = [p \in Programs |-> Original] /\ Edit = "none"
    BY DEF Init, Outside, Edit
  <2> QED
    BY <2>1 DEF Init, Promise!Init
<1>2. WritesInv /\ Seen /\ [Next]_vars => [Promise!Next]_(Promise!vars)
  <2> SUFFICES ASSUME WritesInv, Seen, [Next]_vars
               PROVE  [Promise!Next]_(Promise!vars)
    OBVIOUS
  <2>1. CASE UserEdits
    BY <2>1, RefinesUser DEF Promise!Next
  <2>2. CASE UNCHANGED vars
    BY <2>2 DEF vars, Promise!vars, Outside, Edit
  <2> QED
    BY <2>1, <2>2, RefinesClient, RefinesBridge DEF Next, Finished
<1> QED
  BY <1>1, <1>2, WritesHold, SeenInit, SeenStep, PTL DEF Spec, ImplementsAtomicEdits, Promise!Spec

-----------------------------------------------------------------------------
(* What the MCP server makes of the answer.                                 *)

\* The operations whose answer spells a type, or holds a variable.
Spelling == Creations \cup {"set_structure_field", "apply_data_type", "rename_variable",
                            "set_variable_type", "set_function_signature"}
\* Where the check and the handler are known to agree.
Agreed(r) ==
    /\ r.op \notin Spelling
    /\ r.op = "set_processor_context" => Native(r.p.register) = r.p.register
\* A request is about places the program has.
Placed(r) ==
    /\ r.op = "set_label" => r.p.address \in DOMAIN Original["label"]
    /\ r.op = "set_comment" => <<r.p.address, "eol">> \in DOMAIN Original["comment"]
    /\ r.op \in {"set_bookmark", "delete_bookmark"} => r.p.address \in DOMAIN Original["bookmark"]
    /\ r.op = "update_function_tags" => \A i \in DOMAIN (r.p.add \o r.p.remove) :
            <<r.p.address, (r.p.add \o r.p.remove)[i]>> \in DOMAIN Original["tag"]
\* The look at the memory before the transaction.
InMemory(r) ==
    r.op \in {"clear_listing", "set_processor_context"} =>
        r.p.address..EndOf(r.p) \subseteq DOMAIN Original["unit"]
\* What the readbacks of the first n rows have shown.
Shown(d, r, n) ==
    /\ r.op = "batch_set_comments" =>
        \A i \in 1..n : Stored(r.p.updates[i].comment) = r.p.updates[i].comment
    /\ r.op = "update_function_tags" /\ n # 0 /\ n = Len(r.p.add \o r.p.remove) =>
        Cardinality(Tags(d, r.p.address)) <= TagLimit

\* A cell that one row is about has the value of that row.
LEMMA WrittenCell ==
    ASSUME NEW d, Keeps(d), NEW rows, NEW n \in Nat, NEW i \in 1..n,
           NEW f \in DOMAIN Original, NEW k \in DOMAIN Original[f], Cell(rows[i]) = <<f, k>>,
           \A j \in 1..n : Cell(rows[j]) = <<f, k>> => j = i
    PROVE  Written(d, rows, n)[f][k] = rows[i].value
<1> DEFINE here == {j \in 1..n : Cell(rows[j]) = <<f, k>>}
<1>1. here = {i}
  OBVIOUS
<1>2. Max({i}) = i
  BY DEF Max
<1>3. f \in DOMAIN d /\ k \in DOMAIN d[f]
  BY DEF Keeps
<1>4. Written(d, rows, n)[f][k] = IF here = {} THEN d[f][k] ELSE rows[Max(here)].value
  BY <1>3 DEF Written
<1> QED
  BY <1>1, <1>2, <1>4

LEMMA OneRowWritten ==
    ASSUME NEW d, Keeps(d), NEW f \in DOMAIN Original, NEW k \in DOMAIN Original[f], NEW value
    PROVE  Written(d, <<Row(f, k, value)>>, 1)[f][k] = value
<1> DEFINE rows == <<Row(f, k, value)>>
<1>1. Cell(rows[1]) = <<f, k>> /\ rows[1].value = value
  BY DEF Cell, Row
<1> HIDE DEF rows
<1>2. Written(d, rows, 1)[f][k] = rows[1].value
  BY <1>1, WrittenCell
<1> QED
  BY <1>1, <1>2 DEF rows

LEMMA FromZero == \A n \in Nat : \A x \in 0..n : x \in Int /\ x >= 0
  OBVIOUS
LEMMA FromOne == \A n \in Nat : \A x \in 1..n : x \in Int /\ x >= 1
  OBVIOUS

LEMMA TableLength ==
    ASSUME NEW n \in Nat, NEW f, f = [i \in 1..n |-> f[i]]
    PROVE  Len(f) = n
  OBVIOUS

LEMMA LabelAccepted ==
    ASSUME NEW d, Keeps(d), NEW r, r.op = "set_label", Placed(r)
    PROVE  AcceptsEdit(r, Answer(Written(d, Rows(d, r), Len(Rows(d, r))), r))
<1> DEFINE e == Written(d, Rows(d, r), Len(Rows(d, r)))
<1>1. Rows(d, r) = <<Row("label", r.p.address, r.p.name)>>
  BY DEF Rows, Creations
<1>2. "label" \in DOMAIN Original /\ r.p.address \in DOMAIN Original["label"]
  BY OriginalAssumption DEF Placed
<1>3. e["label"][r.p.address] = r.p.name
  BY <1>1, <1>2, OneRowWritten
<1> HIDE DEF e
<1>4. Answer(e, r) = [address |-> r.p.address, name |-> e.label[r.p.address]]
  BY DEF Answer, Creations
<1> QED
  BY <1>3, <1>4 DEF AcceptsEdit, Creations, AcceptsReadback, e

LEMMA CommentAccepted ==
    ASSUME NEW d, Keeps(d), NEW r, r.op = "set_comment", Placed(r), ValidEdit(r)
    PROVE  AcceptsEdit(r, Answer(Written(d, Rows(d, r), Len(Rows(d, r))), r))
<1> DEFINE e == Written(d, Rows(d, r), Len(Rows(d, r)))
           key == <<r.p.address, "eol">>
           stored == Stored(r.p.comment)
<1>1. Rows(d, r) = <<Row("comment", key, stored)>>
  BY DEF Rows, Creations
<1>2. "comment" \in DOMAIN Original /\ key \in DOMAIN Original["comment"]
  BY OriginalAssumption DEF Placed
<1>3. e["comment"][key] = stored
  <2> HIDE DEF stored, key
  <2> QED
    BY <1>1, <1>2, OneRowWritten
<1>4. r.p.comment \in Int /\ r.p.comment >= 0
  <2>1. r.p \in CommentParams
    BY DEF ValidEdit
  <2>2. r.p.comment \in CommentText
    BY <2>1 DEF CommentParams
  <2>3. PICK n \in Nat : n = 8192
    BY SMT
  <2>4. CommentText = 0..n
    BY <2>3, SMT DEF CommentText
  <2>5. \A x \in CommentText : x \in Int /\ x >= 0
    BY <2>4, FromZero, SMT
  <2> QED
    BY <2>2, <2>5
<1>5. Max({0, stored}) = r.p.comment
  <2>1. (stored = -1 /\ r.p.comment = 0) \/ (stored = r.p.comment /\ r.p.comment > 0)
    BY <1>4 DEF Stored, None
  <2>2. CASE stored = -1 /\ r.p.comment = 0
    <3> DEFINE none == -1
    <3>1. none \in Int /\ none < 0
      OBVIOUS
    <3> HIDE DEF none
    <3>2. 0 \in {0, none} /\ \A y \in {0, none} : 0 >= y
      BY <3>1
    <3>3. \A x \in {0, none} : (\A y \in {0, none} : x >= y) => x = 0
      BY <3>1
    <3>4. Max({0, none}) = 0
      BY <3>2, <3>3 DEF Max
    <3>5. stored = none
      BY <2>2 DEF none
    <3> QED
      BY <2>2, <3>4, <3>5
  <2>3. CASE stored = r.p.comment /\ r.p.comment > 0
    <3> DEFINE c == r.p.comment
    <3>1. c \in Nat /\ c > 0 /\ stored = c
      BY <1>4, <2>3
    <3> HIDE DEF c
    <3>2. c \in {0, c} /\ \A y \in {0, c} : c >= y
      BY <3>1
    <3>3. \A x \in {0, c} : (\A y \in {0, c} : x >= y) => x = c
      BY <3>1
    <3>4. Max({0, c}) = c
      BY <3>2, <3>3 DEF Max
    <3>5. stored = c /\ c = r.p.comment
      BY <3>1 DEF c
    <3> QED
      BY <3>4, <3>5
  <2> QED
    BY <2>1, <2>2, <2>3
<1> HIDE DEF e
<1>6. Answer(e, r) = [address |-> r.p.address, comment |-> Max({0, e.comment[key]})]
  BY DEF Answer, Creations
<1>7. e.comment[key] = stored
  BY <1>3
<1>8. Answer(e, r).address = r.p.address /\ Answer(e, r).comment = r.p.comment
  BY <1>5, <1>6, <1>7
<1>9. AcceptsReadback("comment", r.p, Answer(e, r))
  BY <1>8 DEF AcceptsReadback
<1> QED
  BY <1>9 DEF AcceptsEdit, Creations, e

LEMMA BookmarkAccepted ==
    ASSUME NEW d, Keeps(d), NEW r, r.op \in {"set_bookmark", "delete_bookmark"}, Placed(r)
    PROVE  AcceptsEdit(r, Answer(Written(d, Rows(d, r), Len(Rows(d, r))), r))
<1> DEFINE e == Written(d, Rows(d, r), Len(Rows(d, r)))
<1>1. "bookmark" \in DOMAIN Original /\ r.p.address \in DOMAIN Original["bookmark"]
  BY OriginalAssumption DEF Placed
<1>2. r.op = "set_bookmark" => e["bookmark"][r.p.address] = r.p.comment
  <2> SUFFICES ASSUME r.op = "set_bookmark"
               PROVE  e["bookmark"][r.p.address] = r.p.comment
    OBVIOUS
  <2>1. Rows(d, r) = <<Row("bookmark", r.p.address, r.p.comment)>>
    BY DEF Rows, Creations
  <2> QED
    BY <1>1, <2>1, OneRowWritten
<1> HIDE DEF e
<1>3. Answer(e, r) = [bookmark_type |-> r.p.bookmark_type, category |-> r.p.category,
                      comment |-> e.bookmark[r.p.address]]
  BY DEF Answer, Creations
<1> QED
  BY <1>2, <1>3 DEF AcceptsEdit, Creations, AcceptsBookmark, e

LEMMA CommentsAccepted ==
    ASSUME NEW d, Keeps(d), NEW r, NEW v, r.op = "batch_set_comments", Expects(r, v), Apart(r),
           Shown(Written(d, Rows(d, r), Len(Rows(d, r))), r, Len(Rows(d, r)))
    PROVE  AcceptsEdit(r, Answer(Written(d, Rows(d, r), Len(Rows(d, r))), r))
<1> DEFINE us == r.p.updates
           rows == Rows(d, r)
           e == Written(d, rows, Len(rows))
           key(i) == <<us[i].address, us[i].comment_type>>
<1>1. us \in Seq(CommentUpdate) /\ DOMAIN us = 1..Len(us) /\ Len(us) \in Nat
  BY DEF Expects
<1>2. rows = [i \in DOMAIN us |-> Row("comment", key(i), Stored(us[i].comment))]
  BY DEF Rows, Creations
<1>3. Len(rows) = Len(us)
  BY <1>1, <1>2
<1>4. ASSUME NEW i \in DOMAIN us
      PROVE  e["comment"][key(i)] = us[i].comment
  <2>1. "comment" \in DOMAIN Original /\ key(i) \in DOMAIN Original["comment"]
    BY OriginalAssumption DEF Expects
  <2>2. \A j \in DOMAIN us : Cell(rows[j]) = <<"comment", key(j)>>
                /\ rows[j].value = Stored(us[j].comment)
    <3> SUFFICES ASSUME NEW j \in DOMAIN us
                 PROVE  /\ Cell(rows[j]) = <<"comment", key(j)>>
                        /\ rows[j].value = Stored(us[j].comment)
      OBVIOUS
    <3>1. rows[j] = Row("comment", key(j), Stored(us[j].comment))
      BY <1>2
    <3> HIDE DEF rows, key, us
    <3> QED
      BY <3>1 DEF Cell, Row
  <2>3. \A j \in DOMAIN us : key(j) = key(i) => j = i
    BY DEF Apart
  <2>4. Stored(us[i].comment) = us[i].comment
    BY <1>1, <1>3 DEF Shown
  <2>5. i \in 1..Len(rows) /\ Len(rows) \in Nat /\ 1..Len(rows) = DOMAIN us
    BY <1>1, <1>3
  <2> HIDE DEF rows, us, key
  <2>6. Cell(rows[i]) = <<"comment", key(i)>>
        /\ \A j \in 1..Len(rows) : Cell(rows[j]) = <<"comment", key(i)>> => j = i
    BY <2>2, <2>3, <2>5
  <2>7. e["comment"][key(i)] = rows[i].value
    BY <2>1, <2>5, <2>6, WrittenCell
  <2> QED
    BY <2>2, <2>4, <2>7
<1> HIDE DEF e
<1> DEFINE given == [i \in DOMAIN us |->
                        <<us[i].address, us[i].comment_type, e.comment[key(i)]>>]
<1>5. Answer(e, r) = [committed |-> TRUE, rows |-> given]
  BY DEF Answer, Creations
<1>6. Len(given) = Len(us) /\ DOMAIN given = DOMAIN us
  BY <1>1
<1>7. \A i \in DOMAIN given : given[i] = <<us[i].address, us[i]["comment_type"], us[i]["comment"]>>
  BY <1>4
<1> HIDE DEF given
<1>8. AcceptsBatch("comment_type", "comment", r.p, Answer(e, r))
  <2> DEFINE a == Answer(e, r)
  <2>1. a.committed /\ a.rows = given
    BY <1>5
  <2> HIDE DEF a
  <2>2. AcceptsBatch("comment_type", "comment", r.p, a)
    BY <1>6, <1>7, <2>1 DEF AcceptsBatch
  <2> QED
    BY <2>2 DEF a
<1> QED
  BY <1>8 DEF AcceptsEdit, Creations, e

LEMMA RenamesAccepted ==
    ASSUME NEW d, Keeps(d), NEW r, NEW v, r.op = "batch_rename", Expects(r, v), Apart(r)
    PROVE  AcceptsEdit(r, Answer(Written(d, Rows(d, r), Len(Rows(d, r))), r))
<1> DEFINE us == r.p.updates
           rows == Rows(d, r)
           e == Written(d, rows, Len(rows))
<1>1. us \in Seq(RenameUpdate) /\ DOMAIN us = 1..Len(us) /\ Len(us) \in Nat
  BY DEF Expects
<1>2. rows = [i \in DOMAIN us |-> Row(us[i].kind, us[i].address, us[i].name)]
  BY DEF Rows, Creations
<1>3. Len(rows) = Len(us)
  BY <1>1, <1>2
<1>4. ASSUME NEW i \in DOMAIN us
      PROVE  e[us[i].kind][us[i].address] = us[i].name
  <2>1. us[i].kind \in DOMAIN Original /\ us[i].address \in DOMAIN Original[us[i].kind]
    <3>1. us[i] \in RenameUpdate
      BY <1>1
    <3> QED
      BY <3>1, OriginalAssumption DEF Expects, RenameUpdate
  <2>2. \A j \in DOMAIN us : Cell(rows[j]) = <<us[j].kind, us[j].address>>
                /\ rows[j].value = us[j].name
    BY <1>2 DEF Cell, Row
  <2>3. \A j \in DOMAIN us : us[j].address = us[i].address => j = i
    BY DEF Apart
  <2>5. i \in 1..Len(rows) /\ Len(rows) \in Nat /\ 1..Len(rows) = DOMAIN us
    BY <1>1, <1>3
  <2> HIDE DEF rows, us
  <2>6. Cell(rows[i]) = <<us[i].kind, us[i].address>>
        /\ \A j \in 1..Len(rows) : Cell(rows[j]) = <<us[i].kind, us[i].address>> => j = i
    BY <2>2, <2>3, <2>5
  <2>7. e[us[i].kind][us[i].address] = rows[i].value
    BY <2>1, <2>5, <2>6, WrittenCell
  <2> QED
    BY <2>2, <2>7
<1> HIDE DEF e
<1> DEFINE given == [i \in DOMAIN us |->
                        <<us[i].address, us[i].kind, e[us[i].kind][us[i].address]>>]
<1>5. Answer(e, r) = [committed |-> TRUE, rows |-> given]
  BY DEF Answer, Creations
<1>6. Len(given) = Len(us) /\ DOMAIN given = DOMAIN us
  BY <1>1
<1>7. \A i \in DOMAIN given : given[i] = <<us[i].address, us[i]["kind"], us[i]["name"]>>
  BY <1>4
<1> HIDE DEF given
<1>8. AcceptsBatch("kind", "name", r.p, Answer(e, r))
  <2> DEFINE a == Answer(e, r)
  <2>1. a.committed /\ a.rows = given
    BY <1>5
  <2> HIDE DEF a
  <2>2. AcceptsBatch("kind", "name", r.p, a)
    BY <1>6, <1>7, <2>1 DEF AcceptsBatch
  <2> QED
    BY <2>2 DEF a
<1> QED
  BY <1>8 DEF AcceptsEdit, Creations, e

LEMMA RegisterAccepted ==
    ASSUME NEW d, Keeps(d), NEW r, r.op = "set_processor_context", ValidEdit(r), InMemory(r),
           Agreed(r)
    PROVE  AcceptsEdit(r, Answer(Written(d, Rows(d, r), Len(Rows(d, r))), r))
<1> DEFINE p == r.p
           rows == Rows(d, r)
           e == Written(d, rows, Len(rows))
<1>1. p.address \in Nat /\ p.length \in Nat /\ p.length >= 1
  <2>1. r.p \in SetProcessorContextParams
    BY DEF ValidEdit
  <2> QED
    <3>1. r.p.address \in Offset /\ r.p.length \in 1..ListingSpan
      BY <2>1 DEF SetProcessorContextParams
    <3>2. ListingSpan \in Nat
      BY SMT DEF ListingSpan
    <3>3. \A x \in Offset : x \in Int /\ x >= 0
      BY CoreAssumption, FromZero, Zenon DEF Offset
    <3>4. \A x \in 1..ListingSpan : x \in Int /\ x >= 1
      BY <3>2, FromOne, Zenon
    <3> QED
      BY <3>1, <3>3, <3>4
<1>2. rows = [i \in 1..p.length |-> Row("register", p.address + i - 1, p.value)]
  BY DEF Rows, Creations
<1>3. Len(rows) = p.length
  BY <1>1, <1>2
<1>4. "register" \in DOMAIN Original /\ p.address \in DOMAIN Original["register"]
  <2>1. p.address \in p.address..EndOf(p)
    BY <1>1 DEF EndOf
  <2> QED
    BY <2>1, OriginalAssumption DEF InMemory
<1>5. \A j \in 1..p.length : Cell(rows[j]) = <<"register", p.address + j - 1>>
            /\ rows[j].value = p.value
  BY <1>2 DEF Cell, Row
<1>6. e["register"][p.address] = p.value
  <2>1. 1 \in 1..Len(rows) /\ Len(rows) \in Nat
    BY <1>1, <1>3
  <2>2. Cell(rows[1]) = <<"register", p.address>>
        /\ \A j \in 1..Len(rows) : Cell(rows[j]) = <<"register", p.address>> => j = 1
    BY <1>1, <1>3, <1>5
  <2> HIDE DEF rows, p
  <2>3. e["register"][p.address] = rows[1].value
    BY <1>4, <2>1, <2>2, WrittenCell
  <2> QED
    BY <1>3, <1>5, <2>1, <2>3
<1> HIDE DEF e
<1>7. Answer(e, r) = [address |-> p.address, length |-> p.length, register |-> Native(p.register),
                      value |-> e.register[p.address]]
  BY DEF Answer, Creations
<1> QED
  BY <1>6, <1>7 DEF AcceptsEdit, Creations, AcceptsRegister, Agreed, e

LEMMA ListingAccepted ==
    ASSUME NEW d, Keeps(d), NEW r, r.op = "clear_listing", ValidEdit(r), InMemory(r)
    PROVE  AcceptsEdit(r, Answer(Written(d, Rows(d, r), Len(Rows(d, r))), r))
<1> DEFINE p == r.p
           rows == Rows(d, r)
           e == Written(d, rows, Len(rows))
<1>1. p.address \in Nat /\ p.length \in Nat /\ p.length >= 1
  <2>1. r.p \in ClearListingParams
    BY DEF ValidEdit
  <2> QED
    <3>1. r.p.address \in Offset /\ r.p.length \in 1..ListingSpan
      BY <2>1 DEF ClearListingParams
    <3>2. ListingSpan \in Nat
      BY SMT DEF ListingSpan
    <3>3. \A x \in Offset : x \in Int /\ x >= 0
      BY CoreAssumption, FromZero, Zenon DEF Offset
    <3>4. \A x \in 1..ListingSpan : x \in Int /\ x >= 1
      BY <3>2, FromOne, Zenon
    <3> QED
      BY <3>1, <3>3, <3>4
<1>2. EndOf(p) = p.address + p.length - 1 /\ EndOf(p) - p.address + 1 = p.length
  BY <1>1 DEF EndOf
<1>3. rows = [i \in 1..p.length |->
                Row("unit", p.address + i - 1, Undefined(p.address + i - 1))]
  BY <1>2 DEF Rows, Creations, Across
<1>4. Len(rows) = p.length
  BY <1>1, <1>3
<1>5. ASSUME NEW at \in p.address..EndOf(p)
      PROVE  at \in DOMAIN e["unit"] /\ e["unit"][at].kind = "undefined"
  <2>1. "unit" \in DOMAIN Original /\ at \in DOMAIN Original["unit"]
    BY OriginalAssumption DEF InMemory
  <2>2. PICK i \in 1..p.length : at = p.address + i - 1
    <3>1. at - p.address + 1 \in 1..p.length /\ at = p.address + (at - p.address + 1) - 1
      BY <1>1, <1>2
    <3> QED
      BY <3>1
  <2>3. \A j \in 1..p.length : Cell(rows[j]) = <<"unit", p.address + j - 1>>
            /\ rows[j].value = Undefined(p.address + j - 1)
    BY <1>3 DEF Cell, Row
  <2>4. i \in 1..Len(rows) /\ Len(rows) \in Nat
    BY <1>1, <1>4
  <2>5. Cell(rows[i]) = <<"unit", at>>
        /\ \A j \in 1..Len(rows) : Cell(rows[j]) = <<"unit", at>> => j = i
    <3>1. Cell(rows[i]) = <<"unit", at>>
      BY <2>2, <2>3
    <3>2. ASSUME NEW j \in 1..Len(rows), Cell(rows[j]) = <<"unit", at>>
          PROVE  j = i
      <4>1. j \in 1..p.length /\ Cell(rows[j]) = <<"unit", p.address + j - 1>>
        BY <1>4, <2>3
      <4>2. at = p.address + j - 1
        BY <3>2, <4>1
      <4> HIDE DEF p
      <4> QED
        BY <1>1, <2>2, <4>1, <4>2
    <3> QED
      BY <3>1, <3>2
  <2>6. rows[i].value.kind = "undefined"
    <3>1. rows[i].value = Undefined(p.address + i - 1)
      BY <2>3
    <3> HIDE DEF rows
    <3> QED
      BY <3>1 DEF Undefined, UnitOf
  <2> HIDE DEF rows, p
  <2>7. e["unit"][at] = rows[i].value
    BY <2>1, <2>4, <2>5, WrittenCell
  <2>8. at \in DOMAIN e["unit"]
    <3>1. Keeps(e)
      BY WrittenKeeps
    <3> HIDE DEF e
    <3> QED
      BY <2>1, <3>1 DEF Keeps
  <2> QED
    BY <2>6, <2>7, <2>8
<1> HIDE DEF e
<1>6. Free(e, p.address, EndOf(p))
  BY <1>5 DEF Free
<1>7. Answer(e, r) = [length |-> p.length, undefined |-> Free(e, p.address, EndOf(p))]
  BY DEF Answer, Creations
<1> QED
  BY <1>6, <1>7 DEF AcceptsEdit, Creations, e

LEMMA TagsAccepted ==
    ASSUME NEW d, Keeps(d), NEW r, r.op = "update_function_tags", ValidEdit(r), Placed(r),
           Shown(Written(d, Rows(d, r), Len(Rows(d, r))), r, Len(Rows(d, r)))
    PROVE  AcceptsEdit(r, Answer(Written(d, Rows(d, r), Len(Rows(d, r))), r))
<1> DEFINE p == r.p
           all == p.add \o p.remove
           rows == Rows(d, r)
           e == Written(d, rows, Len(rows))
           Key(i) == <<p.address, all[i]>>
<1>1. /\ p.add \in Seq(Text(128)) /\ p.remove \in Seq(Text(128)) /\ all # <<>> /\ IsInjective(all)
  BY DEF ValidEdit, UpdateFunctionTagsParams
<1>2. /\ all \in Seq(Text(128)) /\ DOMAIN all = 1..Len(all) /\ Len(all) \in Nat /\ Len(all) # 0
      /\ Len(all) = Len(p.add) + Len(p.remove) /\ Len(p.add) \in Nat /\ Len(p.remove) \in Nat
      /\ \A i \in 1..Len(p.add) : all[i] = p.add[i]
      /\ \A i \in 1..Len(p.remove) : all[Len(p.add) + i] = p.remove[i]
  <2> DEFINE A == p.add
             B == p.remove
             T == Text(128)
  <2>1. A \in Seq(T) /\ B \in Seq(T) /\ A \o B # <<>>
    BY <1>1
  <2> HIDE DEF A, B, T
  <2>2. /\ A \o B \in Seq(T) /\ Len(A) \in Nat /\ Len(B) \in Nat
        /\ Len(A \o B) = Len(A) + Len(B)
    BY <2>1
  <2>3. DOMAIN (A \o B) = 1..Len(A \o B) /\ Len(A \o B) \in Nat
    BY <2>2
  <2>4. Len(A \o B) # 0
    BY <2>1, <2>2, <2>3
  <2>5. \A i \in 1..Len(A) : (A \o B)[i] = A[i]
    BY <2>1, <2>2
  <2>6. \A i \in 1..Len(B) : (A \o B)[Len(A) + i] = B[i]
    BY <2>1, <2>2
  <2> QED
    BY <2>2, <2>3, <2>4, <2>5, <2>6 DEF A, B, T
<1>3. rows = [i \in DOMAIN all |-> Row("tag", Key(i), i <= Len(p.add))]
  BY DEF Rows, Creations
<1>a. \A i \in DOMAIN all : Key(i) \in DOMAIN Original["tag"]
  BY DEF Placed
<1>b. \A i, j \in DOMAIN all : all[i] = all[j] => i = j
  BY <1>1 DEF IsInjective
<1>c. Len(rows) = Len(all) => Cardinality(Tags(e, p.address)) <= TagLimit
  BY <1>2 DEF Shown
<1> HIDE DEF all
<1>4. Len(rows) = Len(all)
  <2>1. rows = [i \in 1..Len(all) |-> rows[i]]
    BY <1>2, <1>3
  <2>2. Len(all) \in Nat
    BY <1>2
  <2> HIDE DEF rows
  <2> QED
    BY <2>1, <2>2, TableLength
<1>5. ASSUME NEW i \in DOMAIN all
      PROVE  e["tag"][Key(i)] = (i <= Len(p.add)) /\ Key(i) \in DOMAIN e["tag"]
  <2>1. "tag" \in DOMAIN Original /\ Key(i) \in DOMAIN Original["tag"]
    BY <1>a, OriginalAssumption
  <2>2. \A j \in DOMAIN all : Cell(rows[j]) = <<"tag", Key(j)>> /\ rows[j].value = (j <= Len(p.add))
    <3> SUFFICES ASSUME NEW j \in DOMAIN all
                 PROVE  Cell(rows[j]) = <<"tag", Key(j)>> /\ rows[j].value = (j <= Len(p.add))
      OBVIOUS
    <3>1. rows[j] = Row("tag", Key(j), j <= Len(p.add))
      BY <1>3
    <3> HIDE DEF rows, Key, p
    <3> QED
      BY <3>1 DEF Cell, Row
  <2>3. \A j \in DOMAIN all : Key(j) = Key(i) => j = i
    BY <1>b
  <2>4. i \in 1..Len(rows) /\ Len(rows) \in Nat /\ 1..Len(rows) = DOMAIN all
    BY <1>2, <1>4
  <2> HIDE DEF rows, p, Key
  <2>5. Cell(rows[i]) = <<"tag", Key(i)>>
        /\ \A j \in 1..Len(rows) : Cell(rows[j]) = <<"tag", Key(i)>> => j = i
    BY <2>2, <2>3, <2>4
  <2>6. e["tag"][Key(i)] = rows[i].value
    BY <2>1, <2>4, <2>5, WrittenCell
  <2>7. Key(i) \in DOMAIN e["tag"]
    <3>1. Keeps(e)
      BY WrittenKeeps
    <3> HIDE DEF e
    <3> QED
      BY <2>1, <3>1 DEF Keeps
  <2> QED
    BY <2>2, <2>6, <2>7
<1>6. Cardinality(Tags(e, p.address)) <= TagLimit
  BY <1>4, <1>c
<1>d. DOMAIN e["tag"] = DOMAIN Original["tag"]
  <2>1. Keeps(e)
    BY WrittenKeeps
  <2> HIDE DEF e
  <2> QED
    BY <2>1, OriginalAssumption DEF Keeps
<1> HIDE DEF e
<1>7. \A i \in 1..Len(p.add) : p.add[i] \in Tags(e, p.address)
  <2> SUFFICES ASSUME NEW i \in 1..Len(p.add)
               PROVE  p.add[i] \in Tags(e, p.address)
    OBVIOUS
  <2> DEFINE m == Len(p.add)
             n == Len(p.remove)
  <2>a. m \in Nat /\ n \in Nat /\ DOMAIN all = 1..(m + n) /\ i \in 1..m
    BY <1>2
  <2>b. all[i] = p.add[i]
    BY <1>2
  <2>c. i \in DOMAIN all /\ i <= m
    <3> HIDE DEF m, n, p
    <3> QED
      BY <2>a
  <2>1. i \in DOMAIN all /\ i <= Len(p.add) /\ all[i] = p.add[i]
    BY <2>b, <2>c
  <2>2. e["tag"][Key(i)] /\ Key(i) \in DOMAIN e["tag"]
    BY <1>5, <2>1
  <2>3. Key(i)[1] = p.address /\ Key(i)[2] = p.add[i]
    BY <2>1
  <2> HIDE DEF Key
  <2> QED
    BY <2>2, <2>3 DEF Tags
<1>8. \A i \in 1..Len(p.remove) : p.remove[i] \notin Tags(e, p.address)
  <2> SUFFICES ASSUME NEW i \in 1..Len(p.remove), p.remove[i] \in Tags(e, p.address)
               PROVE  FALSE
    OBVIOUS
  <2>1. Len(p.add) + i \in DOMAIN all /\ ~ (Len(p.add) + i <= Len(p.add))
        /\ all[Len(p.add) + i] = p.remove[i]
    <3> DEFINE m == Len(p.add)
               n == Len(p.remove)
    <3>1. m \in Nat /\ n \in Nat /\ DOMAIN all = 1..(m + n) /\ i \in 1..n
      BY <1>2
    <3>2. all[m + i] = p.remove[i]
      BY <1>2
    <3>3. m + i \in DOMAIN all /\ ~ (m + i <= m)
      <4> HIDE DEF m, n, p
      <4> QED
        BY <3>1
    <3> QED
      BY <3>2, <3>3
  <2>2. ~ e["tag"][<<p.address, p.remove[i]>>]
    BY <1>5, <2>1
  <2>3. PICK k \in DOMAIN e.tag : k[1] = p.address /\ e.tag[k] /\ k[2] = p.remove[i]
    BY DEF Tags
  <2>4. DOMAIN e.tag = DOMAIN Original.tag
    BY <1>d
  <2>5. k = <<p.address, p.remove[i]>>
    BY <2>3, <2>4, OriginalAssumption
  <2> QED
    BY <2>2, <2>3, <2>5
<1>9. ToSet(p.add) \subseteq Tags(e, p.address) /\ ToSet(p.remove) \cap Tags(e, p.address) = {}
  <2>1. DOMAIN p.add = 1..Len(p.add) /\ DOMAIN p.remove = 1..Len(p.remove)
    BY <1>1
  <2> QED
    BY <1>7, <1>8, <2>1 DEF ToSet
<1>10. Answer(e, r) = [address |-> p.address, tags |-> Tags(e, p.address)]
  BY DEF Answer, Creations
<1> QED
  BY <1>6, <1>9, <1>10 DEF AcceptsEdit, Creations, AcceptsTags, e

\* A request that writes nothing the comparison looks at.
LEMMA OthersAccepted ==
    ASSUME NEW r, NEW v,
           r.op \in {"create_instructions", "define_data", "create_function", "rename_function",
                     "set_analysis_options", "set_image_base", "create_memory_block"}
    PROVE  AcceptsEdit(r, v)
  BY DEF AcceptsEdit, Creations

LEMMA PlainAccepted ==
    ASSUME NEW d, Keeps(d), NEW r, NEW v, r.op \in Operations, Agreed(r), ValidEdit(r), Placed(r),
           InMemory(r), Expects(r, v), Apart(r),
           Shown(Written(d, Rows(d, r), Len(Rows(d, r))), r, Len(Rows(d, r)))
    PROVE  AcceptsEdit(r, Answer(Written(d, Rows(d, r), Len(Rows(d, r))), r))
<1>1. r.op \in {"set_label", "set_comment", "batch_set_comments", "set_bookmark",
                "delete_bookmark", "batch_rename", "update_function_tags",
                "set_processor_context", "clear_listing", "create_instructions", "define_data",
                "create_function", "rename_function", "set_analysis_options", "set_image_base",
                "create_memory_block"}
  BY DEF Operations, Agreed, Spelling
<1>2. CASE r.op = "set_label"
  BY <1>2, LabelAccepted
<1>3. CASE r.op = "set_comment"
  BY <1>3, CommentAccepted
<1>4. CASE r.op = "batch_set_comments"
  BY <1>4, CommentsAccepted
<1>5. CASE r.op \in {"set_bookmark", "delete_bookmark"}
  BY <1>5, BookmarkAccepted
<1>6. CASE r.op = "batch_rename"
  BY <1>6, RenamesAccepted
<1>7. CASE r.op = "update_function_tags"
  BY <1>7, TagsAccepted
<1>8. CASE r.op = "set_processor_context"
  BY <1>8, RegisterAccepted
<1>9. CASE r.op = "clear_listing"
  BY <1>9, ListingAccepted
<1>10. CASE r.op \in {"create_instructions", "define_data", "create_function", "rename_function",
                      "set_analysis_options", "set_image_base", "create_memory_block"}
  BY <1>10, OthersAccepted
<1> QED
  BY <1>1, <1>2, <1>3, <1>4, <1>5, <1>6, <1>7, <1>8, <1>9, <1>10

\* A request is about the places its plan is about.
LEMMA FillPlaced ==
    ASSUME NEW v, NEW plan \in Plans, ValidEdit([op |-> plan.op, p |-> Fill(plan, v)])
    PROVE  Placed([op |-> plan.op, p |-> Fill(plan, v)])
<1> DEFINE q == Fill(plan, v)
<1>1. CASE plan.op \in {"set_label", "set_comment", "update_function_tags"}
  <2>1. q = plan.p
    BY <1>1 DEF Fill
  <2> QED
    BY <1>1, <2>1, PlansAssumption DEF Placed
<1>2. CASE plan.op \in {"set_bookmark", "delete_bookmark"}
  <2>1. q = [plan.p EXCEPT !.expected_comment = v.bookmark[plan.p.address]]
    BY <1>2 DEF Fill
  <2>2. "address" \in DOMAIN q
    BY <1>2 DEF ValidEdit, SetBookmarkParams, DeleteBookmarkParams
  <2>3. q.address = plan.p.address
    BY <2>1, <2>2
  <2> QED
    BY <1>2, <2>3, PlansAssumption DEF Placed
<1>3. CASE plan.op \notin {"set_label", "set_comment", "update_function_tags", "set_bookmark",
                           "delete_bookmark"}
  BY <1>3 DEF Placed
<1> QED
  BY <1>1, <1>2, <1>3

LEMMA BeforeInMemory ==
    ASSUME NEW d, Keeps(d), NEW r, Before(d, r)
    PROVE  InMemory(r)
<1>1. DOMAIN d.unit = DOMAIN Original["unit"]
  BY OriginalAssumption DEF Keeps
<1>2. CASE r.op = "clear_listing"
  <2>1. r.p.address..EndOf(r.p) \subseteq DOMAIN d.unit
    BY <1>2 DEF Before, Creations
  <2> QED
    BY <1>1, <2>1 DEF InMemory
<1>3. CASE r.op = "set_processor_context"
  <2>1. \A at \in r.p.address..EndOf(r.p) : at \in DOMAIN d.unit
    BY <1>3 DEF Before, Creations
  <2> QED
    BY <1>1, <2>1 DEF InMemory
<1> QED
  BY <1>2, <1>3 DEF InMemory

\* What one more readback shows.
LEMMA ReadbackShown ==
    ASSUME NEW d, Keeps(d), NEW s, NEW r, NEW v, NEW n \in Nat, n + 1 \in DOMAIN Rows(s, r),
           Expects(r, v), Shown(d, r, n), ReadsBack(Put(d, Rows(s, r)[n + 1]), r, n + 1)
    PROVE  Shown(Put(d, Rows(s, r)[n + 1]), r, n + 1)
<1> DEFINE us == r.p.updates
           x == Rows(s, r)[n + 1]
           u == us[n + 1]
           key == <<u.address, u.comment_type>>
<1>1. CASE r.op = "batch_set_comments"
  <2>1. Rows(s, r) = [i \in DOMAIN us |->
                Row("comment", <<us[i].address, us[i].comment_type>>, Stored(us[i].comment))]
    BY <1>1 DEF Rows, Creations
  <2>2. n + 1 \in DOMAIN us /\ x = Row("comment", key, Stored(u.comment))
    BY <2>1
  <2>3. "comment" \in DOMAIN d /\ key \in DOMAIN d["comment"]
    <3>1. key \in DOMAIN Original.comment
      BY <1>1, <2>2 DEF Expects
    <3>2. "comment" \in DOMAIN Original
      BY OriginalAssumption
    <3> HIDE DEF key
    <3> QED
      BY <3>1, <3>2 DEF Keeps
  <2>4. Put(d, x)["comment"][key] = Stored(u.comment)
    <3>1. Cell(x) = <<"comment", key>> /\ x.value = Stored(u.comment)
      BY <2>2 DEF Cell, Row
    <3> HIDE DEF x, key
    <3> QED
      BY <2>3, <3>1, PutCell
  <2>5. Put(d, x)["comment"][key] = u.comment
    BY <1>1 DEF ReadsBack
  <2>6. \A i \in 1..n : Stored(us[i].comment) = us[i].comment
    BY <1>1 DEF Shown
  <2>7. \A i \in 1..(n + 1) : i \in 1..n \/ i = n + 1
    OBVIOUS
  <2>8. \A i \in 1..(n + 1) : Stored(us[i].comment) = us[i].comment
    BY <2>4, <2>5, <2>6, <2>7
  <2> QED
    BY <1>1, <2>8 DEF Shown
<1>2. CASE r.op = "update_function_tags"
  BY <1>2 DEF Shown, ReadsBack
<1>3. CASE r.op \notin {"batch_set_comments", "update_function_tags"}
  BY <1>3 DEF Shown
<1> QED
  BY <1>1, <1>2, <1>3

\* What an answer will rest on, as far as the request has come.
Grounds ==
    /\ phase \in {"sent"} \cup Opened => Placed(request)
    /\ phase \in Opened => InMemory(request)
    /\ phase \in {"writing", "answered"} => Shown(db[expected], request, row)
    /\ rejected => phase = "doubt" /\ ~ Agreed(request)

LEMMA GroundsInit == Init => Grounds
  BY DEF Init, Grounds, Opened

LEMMA AnswerAccepted ==
    ASSUME WritesInv, Seen, Layouts, Grounds, phase = "answered", Agreed(request)
    PROVE  AcceptsEdit(request, Answer(db[expected], request))
<1> DEFINE rows == Rows(saved, request)
<1>1. row = Len(rows) /\ db[expected] = Written(saved, rows, Len(rows)) /\ Keeps(saved)
  BY DEF WritesInv, Transaction, Tables
<1>2. /\ Expects(request, view) /\ Apart(request)
      /\ ValidEdit(request) /\ request.op \in Operations
      /\ Placed(request) /\ InMemory(request) /\ Shown(db[expected], request, row)
  BY DEF Seen, Layouts, Grounds, Opened
<1> QED
  BY <1>1, <1>2, PlainAccepted

LEMMA GroundsStep == WritesInv /\ Seen /\ Layouts /\ Grounds /\ [Next]_vars => Grounds'
<1> SUFFICES ASSUME WritesInv, Seen, Layouts, Grounds, [Next]_vars
             PROVE  Grounds'
  OBVIOUS
<1> USE DEF userVars, clientVars
<1>1. CASE UserEdits
  <2>1. /\ phase \in {"idle", "checked"} /\ phase' = phase /\ UNCHANGED <<request, rejected>>
    BY <1>1 DEF UserEdits
  <2> QED
    BY <2>1 DEF Grounds, Opened
<1>2. CASE UserSwitches
  BY <1>2 DEF UserSwitches, Grounds, Opened
<1>3. CASE Look
  BY <1>3 DEF Look, Grounds, Opened
<1>4. CASE Ask
  <2>1. PICK plan \in Plans :
            /\ request' = [op |-> plan.op, p |-> Fill(plan, view)]
            /\ phase' = IF ValidEdit(request') THEN "sent" ELSE "idle"
    BY <1>4 DEF Ask
  <2>2. phase = "idle" /\ rejected' = rejected
    BY <1>4 DEF Ask
  <2>3. phase' = "sent" => Placed(request')
    BY <2>1, FillPlaced
  <2> QED
    BY <2>1, <2>2, <2>3 DEF Grounds, Opened
<1>5. CASE TakeResult
  <2>1. /\ phase = "answered" /\ request' = request
        /\ \/ phase' = "idle" /\ rejected' = FALSE
           \/ /\ phase' = "doubt" /\ rejected' = TRUE
              /\ ~ AcceptsEdit(request, Answer(db[expected], request))
    BY <1>5 DEF TakeResult
  <2>2. phase' = "doubt" => ~ Agreed(request)
    BY <2>1, AnswerAccepted
  <2> QED
    BY <2>1, <2>2 DEF Grounds, Opened
<1>6. CASE TakeError
  BY <1>6 DEF TakeError, Grounds, Opened
<1>7. CASE Check
  <2>1. /\ phase = "sent" /\ phase' \in {"checked", "refused"}
        /\ phase' = "checked" => Before(db[expected], request)
        /\ UNCHANGED <<request, rejected>>
    BY <1>7 DEF Check
  <2>2. Keeps(db[expected])
    BY DEF WritesInv, Control, Tables
  <2>3. phase' = "checked" => InMemory(request)
    BY <2>1, <2>2, BeforeInMemory
  <2> QED
    BY <2>1, <2>3 DEF Grounds, Opened
<1>8. CASE StartTransaction
  <2>1. /\ phase = "checked" /\ phase' = "writing" /\ row = 0
        /\ UNCHANGED <<db, expected, request, row, rejected>>
    BY <1>8 DEF StartTransaction, WritesInv, Transaction
  <2>2. Shown(db[expected], request, 0)
    BY DEF Shown
  <2> QED
    BY <2>1, <2>2 DEF Grounds, Opened
<1>9. CASE WriteRow
  <2> DEFINE x == Rows(saved, request)[row + 1]
  <2>1. /\ phase = "writing" /\ phase' \in {"writing", "refused"}
        /\ UNCHANGED <<expected, request, rejected>>
        /\ row + 1 \in DOMAIN Rows(saved, request)
        /\ phase' = "writing" =>
            /\ row' = row + 1 /\ db' = [db EXCEPT ![expected] = Put(db[expected], x)]
            /\ ReadsBack(Put(db[expected], x), request, row + 1)
    BY <1>9 DEF WriteRow, Held
  <2>2. /\ Keeps(db[expected]) /\ expected \in DOMAIN db /\ row \in Nat
    BY DEF WritesInv, Control, Tables
  <2>3. Expects(request, view) /\ Shown(db[expected], request, row)
    BY <2>1 DEF Seen, Opened, Grounds
  <2>4. phase' = "writing" => Shown(Put(db[expected], x), request, row + 1)
    BY <2>1, <2>2, <2>3, ReadbackShown
  <2>5. phase' = "writing" => db'[expected] = Put(db[expected], x)
    BY <2>1, <2>2
  <2> HIDE DEF x
  <2> QED
    BY <2>1, <2>4, <2>5 DEF Grounds, Opened
<1>10. CASE NativeFault \/ LeaveInTime
  BY <1>10 DEF NativeFault, LeaveInTime, Grounds, Opened
<1>11. CASE Commit
  <2>1. /\ phase = "writing" /\ phase' \in {"answered", "doubt"}
        /\ UNCHANGED <<db, expected, request, row, rejected>>
    BY <1>11 DEF Commit
  <2> QED
    BY <2>1 DEF Grounds, Opened
<1>12. CASE UNCHANGED vars
  BY <1>12 DEF vars, Grounds, Opened
<1> QED
  BY <1>1, <1>2, <1>3, <1>4, <1>5, <1>6, <1>7, <1>8, <1>9, <1>10, <1>11, <1>12
     DEF Next, Finished

\* What edits of labels, comments, bookmarks, names, tags, listings and registers
\* answer is accepted: the readbacks of a transaction show the values that the MCP
\* server compares with the request, so a committed edit is no doubt.  For a register
\* this takes a name spelled as Ghidra spells it.
THEOREM PlainEditsAreAccepted == Spec => [](Agreed(request) => HonestAccepted)
<1>1. Grounds => (Agreed(request) => HonestAccepted)
  BY DEF Grounds, HonestAccepted
<1> QED
  BY <1>1, GroundsInit, GroundsStep, SeenInit, SeenStep, LayoutsInit, LayoutsStep, WritesHold,
     PTL DEF Spec
=============================================================================

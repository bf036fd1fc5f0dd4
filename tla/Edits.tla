------------------------------- MODULE Edits -------------------------------
(***************************************************************************)
(* Edits of the open program: a client edits what it has seen, the bridge       *)
(* checks the guards, writes the rows of the request one after the other in a     *)
(* transaction of the native database, reads each back, commits or rolls back,     *)
(* and the MCP server compares the answer with the request.  Meanwhile the GUI      *)
(* user edits the same program and moves on to another one.                      *)
(*                                                                         *)
(* db[p] has one function for each kind of stored thing, from where it is       *)
(* stored to its value.  The user is seen between two commands and between the      *)
(* checks of a command and its transaction; what Ghidra does with the edits of       *)
(* two threads within one transaction is not modelled.                           *)
(***************************************************************************)
EXTENDS UtilityOps, TypeOps

CONSTANTS
    Programs,      \* programs of the project; an identity is the program itself
    Original,      \* what their databases hold at first
    Plans,         \* edits a client may want: [op, p], what they expect left open
    UserRows,      \* rows the GUI user may write, in a sequence
    TagLimit,      \* tags of a function, 256 in the code
    MaxCommands,   \* bound: commands of the client
    MaxUserSteps   \* bound: edits and switches of the user

ASSUME EditsAssumption ==
    TagLimit \in Nat \ {0} /\ MaxCommands \in Nat /\ MaxUserSteps \in Nat

Creations == {"create_structure", "create_union", "create_enum", "create_typedef"}
Operations == Creations \cup
    {"set_label", "set_comment", "batch_set_comments", "set_bookmark", "delete_bookmark",
     "batch_rename", "update_function_tags", "set_processor_context", "clear_listing",
     "create_instructions", "define_data", "apply_data_type", "create_function",
     "rename_function", "set_structure_field", "rename_variable", "set_variable_type",
     "set_function_signature", "set_analysis_options", "set_image_base", "create_memory_block"}

\* A plan has a place for what its request will expect, and is about places the
\* program has.
ASSUME PlansAssumption ==
    \A plan \in Plans :
        LET p == plan.p
        IN /\ plan.op \in Operations
           /\ plan.op = "set_label" => p.address \in DOMAIN Original.label
           /\ plan.op = "set_comment" => <<p.address, "eol">> \in DOMAIN Original.comment
           /\ plan.op \in {"set_bookmark", "delete_bookmark"} =>
                p.address \in DOMAIN Original.bookmark
           /\ plan.op = "update_function_tags" => \A i \in DOMAIN (p.add \o p.remove) :
                <<p.address, (p.add \o p.remove)[i]>> \in DOMAIN Original.tag
           /\ plan.op = "batch_set_comments" => \A i \in DOMAIN p.updates :
                <<p.updates[i].address, p.updates[i].comment_type>> \in DOMAIN Original.comment
           /\ plan.op = "batch_rename" => \A i \in DOMAIN p.updates :
                p.updates[i].address \in DOMAIN Original[p.updates[i].kind]
           /\ plan.op = "set_structure_field" =>
                /\ {"path", "offset", "expected_name", "expected_type_path"} \subseteq DOMAIN p
                /\ p.path \in DOMAIN Original.type
           /\ plan.op \in {"rename_variable", "set_variable_type"} =>
                {"address", "selector"} \subseteq DOMAIN p
           /\ plan.op = "set_function_signature" =>
                /\ {"address", "expected_signature"} \subseteq DOMAIN p
                /\ p.address \in DOMAIN Original.function \cap DOMAIN Original.signature
           /\ plan.op = "create_function" => p.address \in DOMAIN Original.function
           /\ plan.op = "create_memory_block" => p.name \in DOMAIN Original.block

VARIABLES
    active,    \* the program the GUI shows
    db,        \* the native database of each program
    expected,  \* expected_program_id of the client's requests
    view,      \* what the client has read of it, or written itself
    request,   \* [op, p] of the command
    phase,     \* idle, sent, checked, writing, answered, refused, doubt
    row,       \* rows written in the open transaction
    saved,     \* the database when the transaction, or else the command, began
    late,      \* the user changed what the checks had looked at, before the transaction
    rejected,  \* the doubt is the validator's
    commands, userSteps

vars == <<active, db, expected, view, request, phase, row, saved, late, rejected, commands,
          userSteps>>
userVars   == <<active, userSteps>>
clientVars == <<expected, view, request, commands>>

-----------------------------------------------------------------------------
(* Native rows.                                                             *)

Row(field, key, value) == [field |-> field, key |-> key, value |-> value]
Cell(x)      == <<x.field, x.key>>
Put(d, x)    == [d EXCEPT ![x.field][x.key] = x.value]
NoName       == 0
NoType       == [kind |-> "none"]
\* An empty comment is no comment for the native listing.
Stored(comment) == IF comment = 0 THEN None ELSE comment
UnitOf(kind, type, from, to) == [kind |-> kind, type |-> type, at |-> from, end |-> to]
Undefined(at)   == UnitOf("undefined", <<>>, at, at)
Across(from, to, Value(_)) ==
    [i \in 1..(to - from + 1) |-> Row("unit", from + i - 1, Value(from + i - 1))]
VariableKey(p)  == <<p.address, p.selector.symbol_id>>
FieldAt(t, offset) ==
    IF t.kind # "structure" THEN {}
    ELSE {i \in DOMAIN t.fields : t.fields[i].offset = offset}
\* The fields of a structure lie beside each other, and within it.
WellFormed(t) ==
    /\ "kind" \in DOMAIN t
    /\ t.kind = "structure" =>
        /\ {"fields", "length"} \subseteq DOMAIN t
        /\ Disjoint(t.fields)
        /\ \A i \in DOMAIN t.fields : t.fields[i].offset + t.fields[i].length <= t.length
SameLayout(t, u) ==
    /\ t.length = u.length /\ DOMAIN t.fields = DOMAIN u.fields
    /\ \A i \in DOMAIN t.fields :
        t.fields[i].offset = u.fields[i].offset /\ t.fields[i].length = u.fields[i].length
TheField(t, offset) == CHOOSE i \in FieldAt(t, offset) : TRUE
\* The prototype string of a function names it.
Prototype(d, at) == <<d.function[at], d.signature[at]>>

\* A database has a table for each kind of thing; there are registers' values,
\* and may be functions, wherever there is memory.
ASSUME OriginalAssumption ==
    /\ Original = [f \in DOMAIN Original |-> [k \in DOMAIN Original[f] |-> Original[f][k]]]
    /\ DOMAIN Original = {"comment", "bookmark", "function", "label", "tag", "register", "unit",
                          "type", "variable", "signature", "option", "base", "block"}
    /\ DOMAIN Original.register = DOMAIN Original.unit
    /\ DOMAIN Original.function = DOMAIN Original.unit
    /\ \A k \in DOMAIN Original.tag : k = <<k[1], k[2]>>
    /\ \A k \in DOMAIN Original.type : WellFormed(Original.type[k])
    /\ \A i \in DOMAIN UserRows :
        LET x == UserRows[i]
        IN /\ x.field \in DOMAIN Original /\ x.key \in DOMAIN Original[x.field]
           /\ x.field = "type" => WellFormed(x.value)

Unplaced(f)     == f @@ [offset |-> 0]
Sized(m, size)  == m @@ [length |-> size]
UnionOf(p) ==
    LET fields == [i \in DOMAIN p.fields |-> FieldOf(Unplaced(p.fields[i]))]
    IN [kind |-> "union", path |-> p.path, fields |-> fields,
        length |-> Max({fields[i].length : i \in DOMAIN fields})]
EnumOf(p) ==
    [kind |-> "enum", path |-> p.path, length |-> p.size,
     fields |-> [i \in DOMAIN p.members |-> Unplaced(Sized(p.members[i], p.size))]]
TypedefOf(p) ==
    [kind |-> "typedef", path |-> p.path, length |-> LengthOf(p.data_type), fields |-> <<>>,
     target |-> NativePath(p.data_type)]
NewType(r) ==
    CASE r.op = "create_structure" -> Structure(r.p)
      [] r.op = "create_union"     -> UnionOf(r.p)
      [] r.op = "create_enum"      -> EnumOf(r.p)
      [] r.op = "create_typedef"   -> TypedefOf(r.p)
\* The rows a request writes into database d.
Rows(d, r) ==
    LET p == r.p
    IN CASE r.op = "set_label"   -> <<Row("label", p.address, p.name)>>
         [] r.op = "set_comment" -> <<Row("comment", <<p.address, "eol">>, Stored(p.comment))>>
         [] r.op = "batch_set_comments" ->
                [i \in DOMAIN p.updates |->
                    LET u == p.updates[i]
                    IN Row("comment", <<u.address, u.comment_type>>, Stored(u.comment))]
         [] r.op = "set_bookmark"    -> <<Row("bookmark", p.address, p.comment)>>
         [] r.op = "delete_bookmark" -> <<Row("bookmark", p.address, None)>>
         [] r.op = "batch_rename" ->
                [i \in DOMAIN p.updates |->
                    Row(p.updates[i].kind, p.updates[i].address, p.updates[i].name)]
         [] r.op = "update_function_tags" ->
                [i \in DOMAIN (p.add \o p.remove) |->
                    Row("tag", <<p.address, (p.add \o p.remove)[i]>>, i <= Len(p.add))]
         [] r.op = "set_processor_context" ->
                [i \in 1..p.length |-> Row("register", p.address + i - 1, p.value)]
         [] r.op = "clear_listing" -> Across(p.address, EndOf(p), Undefined)
         [] r.op = "create_instructions" ->
                Across(p.address, EndOf(p), LAMBDA at : UnitOf("instruction", <<>>, at, at))
         [] r.op = "define_data" ->
                LET end == p.address + p.count * TypeSize[p.type_name] - 1
                IN Across(p.address, end,
                          LAMBDA at : UnitOf("data", <<NamePart(p.type_name)>>, p.address, end))
         [] r.op = "apply_data_type" ->
                LET end == p.address + LengthOf(p.data_type) - 1
                IN Across(p.address, end, LAMBDA at :
                            UnitOf("data", NativePath(p.data_type), p.address, end))
         [] r.op \in {"create_function", "rename_function"} ->
                <<Row("function", p.address, IF p.name = NoName THEN 1024 ELSE p.name)>>
         [] r.op \in Creations -> <<Row("type", p.path, NewType(r))>>
         [] r.op = "set_structure_field" ->
                LET t == d.type[p.path]
                IN <<Row("type", p.path, Replace(t, TheField(t, p.offset), p))>>
         [] r.op = "rename_variable" ->
                <<Row("variable", VariableKey(p),
                      [d.variable[VariableKey(p)] EXCEPT !.name = p.name])>>
         [] r.op = "set_variable_type" ->
                <<Row("variable", VariableKey(p),
                      [d.variable[VariableKey(p)] EXCEPT !.type = NativePath(p.data_type),
                                                         !.length = LengthOf(p.data_type)])>>
         [] r.op = "set_function_signature" ->
                <<Row("signature", p.address,
                      [result |-> NativePath(p.return_type),
                       parameters |-> [i \in DOMAIN p.parameters |->
                            [name |-> p.parameters[i].name,
                             type |-> NativePath(p.parameters[i].data_type)]]])>>
         [] r.op = "set_analysis_options" ->
                [i \in 1..Cardinality(p.options) |->
                    Row("option", SetToSortSeq(p.options, <)[i], TRUE)]
         [] r.op = "set_image_base"      -> <<Row("base", 0, p.address)>>
         [] r.op = "create_memory_block" -> <<Row("block", p.name, p.address)>>

-----------------------------------------------------------------------------
(* Requests.                                                                *)

\* A request expects what its client has seen; a plan leaves that open.
Fill(plan, v) ==
    LET p == plan.p
    IN CASE plan.op = "batch_set_comments" ->
                [p EXCEPT !.updates = [i \in DOMAIN p.updates |->
                    LET u == p.updates[i]
                    IN [u EXCEPT !.expected_comment = v.comment[<<u.address, u.comment_type>>]]]]
         [] plan.op \in {"set_bookmark", "delete_bookmark"} ->
                [p EXCEPT !.expected_comment = v.bookmark[p.address]]
         [] plan.op = "batch_rename" ->
                [p EXCEPT !.updates = [i \in DOMAIN p.updates |->
                    LET u == p.updates[i] IN [u EXCEPT !.expected_name = v[u.kind][u.address]]]]
         [] plan.op = "set_structure_field" ->
                LET t == v.type[p.path]
                IN IF FieldAt(t, p.offset) = {} THEN [p EXCEPT !.expected_name = NoName]
                   ELSE LET f == t.fields[TheField(t, p.offset)]
                        IN [p EXCEPT !.expected_name = f.name, !.expected_type_path = f.type]
         [] plan.op \in {"rename_variable", "set_variable_type"} ->
                [p EXCEPT !.selector.name = v.variable[VariableKey(p)].name]
         [] plan.op = "set_function_signature" ->
                [p EXCEPT !.expected_signature = Prototype(v, p.address)]
         [] OTHER -> p

\* Backend::execute: validate() of the parameters' type.
ValidEdit(r) ==
    LET p == r.p
    IN CASE r.op \in {"set_label", "rename_function"} -> p \in LabelParams
         [] r.op = "set_comment"           -> p \in CommentParams
         [] r.op = "batch_set_comments"    -> p \in BatchCommentsParams
         [] r.op = "set_bookmark"          -> p \in SetBookmarkParams
         [] r.op = "delete_bookmark"       -> p \in DeleteBookmarkParams
         [] r.op = "batch_rename"          -> p \in BatchRenameParams
         [] r.op = "update_function_tags"  -> p \in UpdateFunctionTagsParams
         [] r.op = "set_processor_context" -> p \in SetProcessorContextParams
         [] r.op = "clear_listing"         -> p \in ClearListingParams
         [] r.op = "create_instructions"   -> p \in InstructionsParams
         [] r.op = "define_data"           -> p \in DefineDataParams
         [] r.op = "create_function"       -> p \in CreateFunctionParams
         [] r.op = "create_structure"      -> CreateStructureParams(p)
         [] r.op = "create_union"          -> CreateUnionParams(p)
         [] r.op = "create_enum"           -> CreateEnumParams(p)
         [] r.op = "create_typedef"        -> CreateTypedefParams(p)
         [] r.op = "apply_data_type"       -> ApplyDataTypeParams(p)
         [] r.op = "set_structure_field"   -> SetStructureFieldParams(p)
         [] r.op = "rename_variable"       -> RenameVariableParams(p)
         [] r.op = "set_variable_type"     -> SetVariableTypeParams(p)
         [] r.op = "set_function_signature" -> FunctionSignatureParams(p)
         [] r.op = "set_analysis_options"  -> p \in AnalysisOptionsParams
         [] r.op = "set_image_base"        -> p \in AddressParams
         [] r.op = "create_memory_block"   -> p \in MemoryBlockParams

-----------------------------------------------------------------------------
(* What the handlers check.                                                 *)

Free(d, from, to) == \A at \in from..to : at \in DOMAIN d.unit /\ d.unit[at].kind = "undefined"
\* Before the transaction.
Before(d, r) ==
    LET p == r.p
    IN CASE r.op = "batch_set_comments" ->
                IsInjective([i \in DOMAIN p.updates |->
                    <<p.updates[i].address, p.updates[i].comment_type>>])
         [] r.op = "batch_rename" -> IsInjective([i \in DOMAIN p.updates |-> p.updates[i].address])
         [] r.op \in {"update_function_tags", "rename_function"} ->
                d.function[p.address] # NoName
         [] r.op = "set_processor_context" ->
                \A at \in p.address..EndOf(p) :
                    at \in DOMAIN d.unit /\ d.unit[at].kind # "instruction"
         [] r.op = "clear_listing" ->
                LET range == p.address..EndOf(p)
                IN /\ range \subseteq DOMAIN d.unit
                   /\ \A at \in range : d.function[at] = NoName
                   /\ d.unit[p.address].at = p.address /\ d.unit[EndOf(p)].end <= EndOf(p)
                   /\ \A at \in range : d.unit[at].kind \in {"undefined", p.expected_kind}
                                            \/ p.expected_kind = "any"
         [] r.op = "create_instructions" -> Free(d, p.address, EndOf(p))
         [] r.op = "define_data" ->
                Free(d, p.address, p.address + p.count * TypeSize[p.type_name] - 1)
         [] r.op = "apply_data_type" ->
                Free(d, p.address, p.address + LengthOf(p.data_type) - 1)
         [] r.op = "create_function" ->
                d.function[p.address] = NoName /\ d.unit[p.address].kind = "instruction"
         [] r.op \in Creations ->
                /\ d.type[p.path].kind = "none"
                /\ r.op = "create_structure" =>
                    FitsStructure(p.size, InOrder([i \in DOMAIN p.fields |-> FieldOf(p.fields[i])]))
         [] r.op = "set_structure_field" ->
                LET t == d.type[p.path]
                IN /\ FieldAt(t, p.offset) # {} /\ Len(t.fields) <= FieldLimit
                   /\ LET f == t.fields[TheField(t, p.offset)]
                      IN /\ f.name = p.expected_name /\ f.type = p.expected_type_path
                         /\ f.length = LengthOf(p.data_type)
                         /\ \A g \in ToSet(t.fields) : g.name = p.name => g = f
         [] r.op \in {"rename_variable", "set_variable_type"} ->
                LET v == d.variable[VariableKey(p)]
                IN /\ v.name = p.selector.name
                   /\ r.op = "set_variable_type" => LengthOf(p.data_type) = v.length
                   /\ r.op = "rename_variable" =>
                        \A k \in DOMAIN d.variable \ {VariableKey(p)} :
                            k[1] = p.address => d.variable[k].name # p.name
         [] r.op = "set_function_signature" -> p.expected_signature = Prototype(d, p.address)
         [] r.op = "set_analysis_options" -> p.options \subseteq DOMAIN d.option
         [] r.op = "create_memory_block" ->
                d.block[p.name] = None
                    /\ p.address..EndOf([address |-> p.address, length |-> p.size])
                        \cap DOMAIN d.unit = {}
         [] OTHER -> TRUE

\* The addresses of an operation on the listing.
Extent(r) ==
    LET p == r.p
    IN CASE r.op = "define_data"     -> p.address..(p.address + p.count * TypeSize[p.type_name] - 1)
         [] r.op = "apply_data_type" -> p.address..(p.address + LengthOf(p.data_type) - 1)
         [] OTHER                    -> p.address..EndOf(p)
\* The places of what it is about, or is to leave alone, that a handler looks at before
\* its transaction and not again in it.
LooksEarly(r) ==
    LET p == r.p
    IN CASE r.op = "set_structure_field"    -> {<<"type", p.path>>}
         [] r.op = "set_function_signature" -> {"function", "signature"} \X {p.address}
         [] r.op = "create_function"        -> {<<"function", p.address>>}
         [] r.op = "create_memory_block"    -> {<<"block", p.name>>}
         [] r.op = "clear_listing"          -> {"function", "unit"} \X Extent(r)
         [] r.op \in {"create_instructions", "define_data", "apply_data_type",
                      "set_processor_context"} -> {"unit"} \X Extent(r)
         [] OTHER                           -> {}

\* A plausible slip: what is stored is not compared again.
StoredAnything(stored, awaited) == TRUE
StoredAsExpected(stored, awaited) == stored = awaited
\* In the transaction, before row i is written.
Guard(d, r, i) ==
    LET p == r.p
        u == p.updates[i]
    IN CASE r.op = "batch_set_comments" ->
                StoredAsExpected(d.comment[<<u.address, u.comment_type>>], u.expected_comment)
         [] r.op \in {"set_bookmark", "delete_bookmark"} ->
                StoredAsExpected(d.bookmark[p.address], p.expected_comment)
         [] r.op = "batch_rename" ->
                /\ (u.kind = "function") = (d.function[u.address] # NoName)
                /\ StoredAsExpected(d[u.kind][u.address], u.expected_name)
         [] r.op \in {"rename_variable", "set_variable_type"} ->
                d.variable[VariableKey(p)].name = p.selector.name
         [] r.op \in Creations -> d.type[p.path].kind = "none"
         [] OTHER -> TRUE

Tags(d, at) == {k[2] : k \in {k \in DOMAIN d.tag : k[1] = at /\ d.tag[k]}}
\* In the transaction, after row i was written.  The answer with all tags of
\* the function is part of it.
ReadsBack(d, r, i) ==
    CASE r.op = "batch_set_comments" ->
            LET u == r.p.updates[i]
            IN d.comment[<<u.address, u.comment_type>>] = u.comment
      [] r.op = "update_function_tags" ->
            i = Len(r.p.add \o r.p.remove) => Cardinality(Tags(d, r.p.address)) <= TagLimit
      [] OTHER -> TRUE

-----------------------------------------------------------------------------
(* The answer, and what the MCP server accepts.                             *)

Answer(d, r) ==
    LET p == r.p
    IN CASE r.op = "set_label" -> [address |-> p.address, name |-> d.label[p.address]]
         [] r.op = "set_comment" ->
                [address |-> p.address, comment |-> Max({0, d.comment[<<p.address, "eol">>]})]
         [] r.op = "batch_set_comments" -> [committed |-> TRUE, rows |->
                [i \in DOMAIN p.updates |->
                    LET u == p.updates[i]
                    IN <<u.address, u.comment_type, d.comment[<<u.address, u.comment_type>>]>>]]
         [] r.op = "batch_rename" -> [committed |-> TRUE, rows |->
                [i \in DOMAIN p.updates |->
                    LET u == p.updates[i] IN <<u.address, u.kind, d[u.kind][u.address]>>]]
         [] r.op \in {"set_bookmark", "delete_bookmark"} ->
                [bookmark_type |-> p.bookmark_type, category |-> p.category,
                 comment |-> d.bookmark[p.address]]
         [] r.op = "update_function_tags" -> [address |-> p.address, tags |-> Tags(d, p.address)]
         [] r.op = "set_processor_context" ->
                [address |-> p.address, length |-> p.length, register |-> Native(p.register),
                 value |-> d.register[p.address]]
         [] r.op \in Creations \cup {"set_structure_field"} -> TypeInfo(d.type[p.path])
         [] r.op = "apply_data_type" ->
                LET u == d.unit[p.address]
                IN [address |-> p.address, path |-> u.type, length |-> u.end - u.at + 1]
         [] r.op \in {"rename_variable", "set_variable_type"} ->
                d.variable[VariableKey(p)] @@ [committed |-> TRUE, storage |-> p.selector.storage]
         [] r.op = "set_function_signature" -> d.signature[p.address]
         [] r.op = "clear_listing" -> [length |-> p.length, undefined |-> Free(d, p.address, EndOf(p))]
         [] OTHER -> <<>>

AcceptsBatch(second, third, r, v) ==
    /\ v.committed /\ Len(v.rows) = Len(r.updates)
    /\ \A i \in DOMAIN v.rows :
        v.rows[i] = <<r.updates[i].address, r.updates[i][second], r.updates[i][third]>>
AcceptsBookmark(r, v) ==
    v.bookmark_type = r.bookmark_type /\ v.category = r.category /\ v.comment = r.comment
AcceptsTags(r, v) ==
    /\ Cardinality(v.tags) <= TagLimit
    /\ ToSet(r.add) \subseteq v.tags /\ ToSet(r.remove) \cap v.tags = {}
AcceptsRegister(r, v) ==
    v.length = r.length /\ v.register = r.register /\ v.value = r.value
AcceptsUnion(r, t) ==
    /\ AcceptsTypeInfo(t) /\ t.path = r.path /\ t.kind = "union"
    /\ Len(t.components) = Len(r.fields) /\ ~ t.components_truncated
    /\ \A i \in DOMAIN r.fields : \E k \in DOMAIN t.components :
        /\ t.components[k].name = r.fields[i].name
        /\ SameType(t.components[k].type, r.fields[i].data_type)
        /\ t.components[k].comment = r.fields[i].comment
AcceptsEnum(r, t) ==
    /\ AcceptsTypeInfo(t) /\ t.path = r.path /\ t.kind = "enum" /\ t.length = r.size
    /\ Len(t.components) = Len(r.members)
    /\ \A i \in DOMAIN r.members : \E k \in DOMAIN t.components :
        t.components[k].name = r.members[i].name /\ t.components[k].value = r.members[i].value
AcceptsVariable(r, v) ==
    /\ v.committed /\ v.storage = r.p.selector.storage
    /\ IF r.op = "rename_variable" THEN v.name = r.p.name
       ELSE v.name = r.p.selector.name /\ SameType(v.type, r.p.data_type)
AcceptsSignature(r, v) ==
    /\ SameType(v.result, r.return_type)
    /\ Len(v.parameters) = Len(r.parameters)
    /\ \A i \in DOMAIN v.parameters :
        /\ v.parameters[i].name = r.parameters[i].name
        /\ SameType(v.parameters[i].type, r.parameters[i].data_type)

AcceptsEdit(r, v) ==
    CASE r.op = "set_label"              -> AcceptsReadback("name", r.p, v)
      [] r.op = "set_comment"            -> AcceptsReadback("comment", r.p, v)
      [] r.op = "batch_set_comments"     -> AcceptsBatch("comment_type", "comment", r.p, v)
      [] r.op = "batch_rename"           -> AcceptsBatch("kind", "name", r.p, v)
      [] r.op = "set_bookmark"           -> AcceptsBookmark(r.p, v)
      [] r.op = "delete_bookmark"        ->
            v.bookmark_type = r.p.bookmark_type /\ v.category = r.p.category
      [] r.op = "update_function_tags"   -> AcceptsTags(r.p, v)
      [] r.op = "set_processor_context"  -> AcceptsRegister(r.p, v)
      [] r.op = "clear_listing"          -> v.length = r.p.length /\ v.undefined
      [] r.op = "create_structure"       -> AcceptsStructure(r.p, v)
      [] r.op = "create_union"           -> AcceptsUnion(r.p, v)
      [] r.op = "create_enum"            -> AcceptsEnum(r.p, v)
      [] r.op = "create_typedef"         ->
            v.path = r.p.path /\ v.kind = "typedef" /\ SameType(v.target, r.p.data_type)
      [] r.op = "set_structure_field"    -> AcceptsField(r.p, v)
      [] r.op = "apply_data_type"        -> v.length > 0 /\ SameType(v.path, r.p.data_type)
      [] r.op \in {"rename_variable", "set_variable_type"} -> AcceptsVariable(r, v)
      [] r.op = "set_function_signature" -> AcceptsSignature(r.p, v)
      [] OTHER                           -> TRUE

-----------------------------------------------------------------------------
Nothing == [op |-> "none", p |-> <<>>]

Init ==
    /\ active \in Programs
    /\ db = [p \in Programs |-> Original]
    /\ expected = active /\ view = Original
    /\ request = Nothing /\ phase = "idle" /\ row = 0 /\ saved = Original /\ late = FALSE
    /\ rejected = FALSE
    /\ commands = 0 /\ userSteps = 0

(* The user.                                                                *)

\* Of a structure the user changes what its fields are called and say, not where
\* they are.
UserEdits ==
    /\ phase \in {"idle", "checked"} /\ userSteps < MaxUserSteps
    /\ \E i \in DOMAIN UserRows :
        LET x == UserRows[i] IN
        /\ db[active][x.field][x.key] # x.value
        /\ x.field = "type" /\ x.value.kind = "structure" =>
            LET t == db[active].type[x.key] IN t.kind = "structure" /\ SameLayout(x.value, t)
        /\ db' = [db EXCEPT ![active] = Put(@, x)]
        /\ late' = (late \/ (phase = "checked" /\ active = expected
                                /\ Cell(x) \in LooksEarly(request)))
    /\ userSteps' = userSteps + 1
    /\ UNCHANGED <<active, clientVars, phase, row, saved, rejected>>

\* At any time the user opens another program in the same tool.
UserSwitches ==
    /\ userSteps < MaxUserSteps
    /\ active' \in Programs \ {active}
    /\ userSteps' = userSteps + 1
    /\ UNCHANGED <<db, clientVars, phase, row, saved, late, rejected>>

(* The client and the MCP server.                                           *)

\* The client looks again at the program that is open now.
Look ==
    /\ phase = "idle" /\ (expected # active \/ view # db[active])
    /\ expected' = active /\ view' = db[active]
    /\ UNCHANGED <<userVars, db, request, phase, row, saved, late, rejected, commands>>

\* What validate() refuses is not sent.
Ask ==
    /\ phase = "idle" /\ commands < MaxCommands
    /\ \E plan \in Plans :
        /\ request' = [op |-> plan.op, p |-> Fill(plan, view)]
        /\ phase' = IF ValidEdit(request') THEN "sent" ELSE "idle"
    /\ commands' = commands + 1
    /\ UNCHANGED <<userVars, db, expected, view, row, saved, late, rejected>>

\* View v with what database d has at the places of the rows.
Learned(v, d, rows) ==
    [f \in DOMAIN v |-> [k \in DOMAIN v[f] |->
        IF \E i \in DOMAIN rows : Cell(rows[i]) = <<f, k>> THEN d[f][k] ELSE v[f][k]]]

\* The answer is in: what was written and read back is what the client knows.
\* An answer that the comparison refuses leaves the edit in doubt.
TakeResult ==
    LET accepted == AcceptsEdit(request, Answer(db[expected], request))
    IN /\ phase = "answered"
       /\ phase' = IF accepted THEN "idle" ELSE "doubt"
       /\ view' = IF accepted THEN Learned(view, db[expected], Rows(saved, request)) ELSE view
       /\ rejected' = ~ accepted
       /\ UNCHANGED <<userVars, db, expected, request, row, saved, late, commands>>

\* A definite error: the client may ask again.
TakeError ==
    /\ phase = "refused"
    /\ phase' = "idle"
    /\ UNCHANGED <<userVars, db, clientVars, row, saved, late, rejected>>

(* The bridge.                                                              *)

\* A plausible slip: rows go to the program that is open when they are written.
OpenNow == active
\* The program object the command began with; its identity was compared then.
Held == expected

\* expectedProgram and everything that is looked at before the transaction.
Check ==
    /\ phase = "sent"
    /\ phase' = IF active = expected /\ Before(db[expected], request) THEN "checked" ELSE "refused"
    /\ row' = 0 /\ saved' = db[expected] /\ late' = FALSE
    /\ UNCHANGED <<userVars, db, clientVars, rejected>>

StartTransaction ==
    /\ phase = "checked"
    /\ phase' = "writing" /\ saved' = db[expected]
    /\ UNCHANGED <<userVars, db, clientVars, row, late, rejected>>

\* A plausible slip: what was written before the row that failed stays.
KeepRows == db
Rollback == [db EXCEPT ![Held] = saved]

\* One row: its guard, the write, the readback.  A failure of either ends the
\* transaction with everything undone.
WriteRow ==
    LET rows == Rows(saved, request)
    IN /\ phase = "writing" /\ row + 1 \in DOMAIN rows
       /\ LET written == Put(db[Held], rows[row + 1])
          IN IF Guard(db[Held], request, row + 1) /\ ReadsBack(written, request, row + 1)
             THEN /\ db' = [db EXCEPT ![Held] = written]
                  /\ row' = row + 1 /\ phase' = phase
             ELSE /\ db' = Rollback
                  /\ phase' = "refused" /\ row' = row
       /\ UNCHANGED <<userVars, clientVars, saved, late, rejected>>

\* An exception native code is not expected to throw: undone, but the bridge
\* halts, because it does not know what the exception means.
NativeFault ==
    /\ phase = "writing"
    /\ db' = Rollback
    /\ phase' = "doubt"
    /\ UNCHANGED <<userVars, clientVars, row, saved, late, rejected>>

\* set_label and set_comment look at the context once more before they commit.
LeaveInTime ==
    /\ phase = "writing" /\ row = Len(Rows(saved, request))
    /\ request.op \in {"set_label", "set_comment"} /\ active # expected
    /\ db' = Rollback
    /\ phase' = "refused"
    /\ UNCHANGED <<userVars, clientVars, row, saved, late, rejected>>

\* checkContext behind the transaction: in doubt if the user has moved on.
Commit ==
    /\ phase = "writing" /\ row = Len(Rows(saved, request))
    /\ phase' \in IF active = expected THEN {"answered"} ELSE {"doubt"}
    /\ UNCHANGED <<userVars, db, clientVars, row, saved, late, rejected>>

\* In doubt nobody asks any more, and the user is done some time.
Finished ==
    /\ phase = "doubt" \/ (phase = "idle" /\ commands = MaxCommands)
    /\ UNCHANGED vars

Next ==
    \/ UserEdits \/ UserSwitches
    \/ Look \/ Ask \/ TakeResult \/ TakeError
    \/ Check \/ StartTransaction \/ WriteRow \/ NativeFault \/ LeaveInTime \/ Commit
    \/ Finished

Spec == Init /\ [][Next]_vars

-----------------------------------------------------------------------------
(* Properties.                                                              *)

\* The shape of the state, and the part of it that native code relies on: no
\* field of a structure lies over another or outside of it, whatever sequence
\* of creations and field edits led there.
TypeOK ==
    /\ active \in Programs /\ expected \in Programs
    /\ phase \in {"idle", "sent", "checked", "writing", "answered", "refused", "doubt"}
    /\ row \in Nat /\ commands \in 0..MaxCommands /\ userSteps \in 0..MaxUserSteps
    /\ \A p \in Programs : DOMAIN db[p] = DOMAIN Original
    /\ \A p \in Programs : \A k \in DOMAIN db[p].type : WellFormed(db[p].type[k])

\* Database d with every row in its place and everything else as it was.
Edited(d, rows) ==
    [f \in DOMAIN d |-> [k \in DOMAIN d[f] |->
        LET here == {i \in 1..Len(rows) : Cell(rows[i]) = <<f, k>>}
        IN IF here = {} THEN d[f][k] ELSE rows[Max(here)].value]]
\* A batch is all or nothing: a definite error leaves the database as it was, an
\* answer has every row in place and touched nothing else, and a doubt is one of
\* the two ("Failed guards roll back the entire batch").
AllOrNothing ==
    LET after == Edited(saved, Rows(saved, request))
    IN /\ phase = "refused" => db[expected] = saved
       /\ phase = "answered" => db[expected] = after
       /\ phase = "doubt" => db[expected] \in {saved, after}

\* What the guards of a request compare with what its client has seen, in database
\* d, for row i.
Guarded(d, r, i) ==
    CASE r.op \in {"batch_set_comments", "set_bookmark", "delete_bookmark", "batch_rename"} ->
            LET x == Rows(d, r)[i] IN d[x.field][x.key]
      [] r.op \in {"rename_variable", "set_variable_type"} -> d.variable[VariableKey(r.p)].name
      [] r.op = "set_function_signature" -> Prototype(d, r.p.address)
      [] r.op = "set_structure_field" ->
            LET t == d.type[r.p.path]
            IN IF FieldAt(t, r.p.offset) = {} THEN <<>>
               ELSE LET f == t.fields[TheField(t, r.p.offset)] IN <<f.name, f.type>>
      [] OTHER -> <<>>

\* What a request leaves alone by its own words, whatever its client has seen: a
\* creation anything in its place, a definition what is defined, a value of a register
\* the instructions decoded under the old one, and clear_listing the functions, what is
\* of another kind than expected_kind and what reaches out of the range.
Spares(d, r) ==
    LET p == r.p
    IN CASE r.op \in Creations             -> d.type[p.path].kind = "none"
         [] r.op = "create_function"       -> d.function[p.address] = NoName
         [] r.op = "create_memory_block"   -> d.block[p.name] = None
         [] r.op \in {"create_instructions", "define_data", "apply_data_type"} ->
                \A at \in Extent(r) : d.unit[at].kind = "undefined"
         [] r.op = "set_processor_context" ->
                \A at \in Extent(r) : d.unit[at].kind # "instruction"
         [] r.op = "clear_listing" ->
                \A at \in Extent(r) :
                    /\ d.function[at] = NoName
                    /\ p.expected_kind = "any" \/ d.unit[at].kind \in {"undefined", p.expected_kind}
                    /\ at = p.address => d.unit[at].at = at
                    /\ at = EndOf(p) => d.unit[at].end <= at
         [] OTHER -> TRUE
\* Database d is, where request r looks, as view v shows it, and has nothing in the
\* way that the request is to leave alone.
Agrees(d, v, r) ==
    /\ \A i \in 1..Len(Rows(d, r)) : Guarded(d, r, i) = Guarded(v, r, i)
    /\ Spares(d, r)
\* No guarded edit is committed over something the user changed since the client
\* last saw it, nor over something the request is to leave alone: not for any row of a
\* batch, not after earlier edits of the client itself.  The operations of LooksEarly
\* hold it against all but a change of the very places they looked at, by the user,
\* between their check and their transaction.
NoLostUpdate ==
    phase = "answered" => Agrees(saved, view, request) \/ late

\* A committed edit whose answer comes back is not called a doubt by the MCP
\* server's comparison: Ghidra's names and values of what was asked for are the
\* ones the comparison expects.
HonestAccepted == ~ rejected

Effect(d, r)  == Edited(d, Rows(d, r))
UserMay(d, e) == \E i \in DOMAIN UserRows : e = Put(d, UserRows[i])
\* An open transaction is not there yet.
Outside == [p \in Programs |-> IF phase = "writing" /\ p = expected THEN saved ELSE db[p]]
Edit ==
    CASE phase = "idle"     -> "none"
      [] phase = "answered" -> "done"
      [] phase \in {"sent", "checked", "writing"} -> "asked"
      [] OTHER              -> phase
Promise == INSTANCE AtomicEdits WITH
    open <- active, db <- Outside, edit <- Edit, Early <- LooksEarly,
    meanwhile <- phase \in {"checked", "writing"} /\ late
\* However many rows, guards, readbacks and failures there are in between, and
\* whatever the user opens and writes meanwhile, an edit is one step: it changes
\* the program its request names and no other, as a whole, where it agrees with what
\* the client has seen and asked for or the user changed what was looked at too early,
\* and "done" is said only of a program that was still open.
ImplementsAtomicEdits == Promise!Spec
=============================================================================

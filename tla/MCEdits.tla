------------------------------ MODULE MCEdits ------------------------------
(***************************************************************************)
(* A small database of each kind of stored thing, the edits a client makes of    *)
(* it, some of them refused at each stage, and what the user writes over.         *)
(***************************************************************************)
EXTENDS Edits

U8(name)    == [name |-> name, data_type |-> Builtin("u8")]
Grid        == ArrayOf(ArrayOf(Builtin("u8"), 2), 1)
PointerGrid == Pointer(ArrayOf(Pointer(ArrayOf(Builtin("u8"), 2)), 2))
FieldAs(offset, name, d) ==
    [offset |-> offset, name |-> name, data_type |-> d, comment |-> None]
Pair(path) ==
    [path |-> path, size |-> 4,
     fields |-> <<FieldAs(2, 2, Grid), FieldAs(0, 1, Builtin("u16"))>>]

MCOriginal ==
    [comment   |-> [k \in (0..1) \X {"eol", "pre"} |-> IF k = <<0, "eol">> THEN 1 ELSE None],
     bookmark  |-> [at \in 0..1 |-> None],
     function  |-> (0 :> 1 @@ 1 :> NoName),
     label     |-> (0 :> NoName @@ 1 :> 2),
     tag       |-> [k \in (0..1) \X (1..3) |-> k = <<0, 1>>],
     register  |-> [at \in 0..1 |-> 0],
     unit      |-> (0 :> UnitOf("instruction", <<>>, 0, 0) @@ 1 :> Undefined(1)),
     type      |-> (1 :> Structure(Pair(1)) @@ 2 :> NoType),
     variable  |-> [k \in {0} \X (1..2) |-> [name |-> k[2], type |-> <<NamePart("u8")>>, length |-> 1]],
     signature |-> (0 :> [result |-> <<NamePart("void")>>, parameters |-> <<>>]),
     option    |-> [n \in 1..2 |-> FALSE],
     base      |-> (0 :> 0),
     block     |-> (1 :> 0 @@ 2 :> None)]

Open                == -2   \* what a plan does not say
Comment(at, c)      ==
    [address |-> at, comment_type |-> "eol", comment |-> c, expected_comment |-> Open]
Rename(kind, at, n) == [kind |-> kind, address |-> at, name |-> n, expected_name |-> Open]
Bookmark(at)        ==
    [address |-> at, bookmark_type |-> 1, category |-> 1, expected_comment |-> Open]
Area(at, length)    == [address |-> at, length |-> length]
TheVariable         == [symbol_id |-> 1, name |-> Open, storage |-> 1]
Plan(op, ps)        == {[op |-> op, p |-> p] : p \in ps}

MCPlans == UNION {
    Plan("set_label", {[address |-> 1, name |-> 3]}),
    Plan("set_comment", [address : {0}, comment : {0, 2}]),
    Plan("batch_set_comments",
        {[updates |-> <<Comment(1, 2), Comment(0, None)>>],
         [updates |-> <<Comment(1, 2), Comment(0, 0)>>],
         [updates |-> <<Comment(1, 2), Comment(1, 1)>>]}),
    Plan("set_bookmark", {Bookmark(0) @@ [comment |-> 2]}),
    Plan("delete_bookmark", {Bookmark(0)}),
    Plan("batch_rename",
        {[updates |-> <<Rename("function", 0, 3), Rename("label", 1, 3)>>],
         [updates |-> <<Rename("label", 1, 3), Rename("function", 1, 3)>>],
         [updates |-> <<>>]}),
    Plan("update_function_tags",
        {[address |-> 0, add |-> <<2>>, remove |-> <<1>>],
         [address |-> 0, add |-> <<2, 3>>, remove |-> <<>>],
         [address |-> 1, add |-> <<2>>, remove |-> <<>>]}),
    Plan("set_processor_context",
        {Area(1, 1) @@ [register |-> 1, value |-> 5],
         Area(0, 2) @@ [register |-> 1, value |-> 5]}),
    Plan("clear_listing",
        {Area(1, 1) @@ [expected_kind |-> "data"], Area(1, 1) @@ [expected_kind |-> "instruction"],
         Area(0, 1) @@ [expected_kind |-> "any"]}),
    Plan("create_instructions", {Area(1, 1), Area(1, 2)}),
    Plan("define_data", {[address |-> 1, type_name |-> "u8", count |-> n] : n \in 1..2}),
    Plan("apply_data_type", {[address |-> 1, data_type |-> ArrayOf(ArrayOf(Builtin("u8"), 1), 1)]}),
    Plan("create_function", [address : {1}, name : {NoName, 4}]),
    Plan("rename_function", [address : {0, 1}, name : {4}]),
    Plan("create_structure",
        {Pair(2), [path |-> 2, size |-> 3, fields |-> <<FieldAs(2, 2, Grid)>>],
         [path |-> 2, size |-> 3,
          fields |-> <<FieldAs(1, 2, Builtin("u16")), FieldAs(0, 1, Builtin("u16"))>>]}),
    Plan("create_union",
        {[path |-> 2, fields |-> <<U8(1) @@ [comment |-> None],
                                   [name |-> 2, data_type |-> PointerGrid, comment |-> 1]>>]}),
    Plan("create_enum",
        {[path |-> 2, size |-> 1, members |-> <<[name |-> 1, value |-> a],
                                                [name |-> 2, value |-> b]>>] :
            a \in {-1}, b \in {127, 255}}),
    Plan("create_typedef", [path : {2}, data_type : {PointerGrid}]),
    Plan("set_structure_field",
        {[path |-> t, offset |-> 2, expected_name |-> Open, expected_type_path |-> Open,
          name |-> n, data_type |-> d, comment |-> c] :
            t \in {1}, n \in {1, 3}, d \in {Grid, Builtin("u8")}, c \in {None, 2}}),
    Plan("rename_variable",
        {[address |-> 0, selector |-> TheVariable, name |-> n] :
            n \in 2..3}),
    Plan("set_variable_type",
        {[address |-> 0, selector |-> TheVariable, data_type |-> d] :
            d \in {Builtin("s8"), Builtin("u16")}}),
    Plan("set_function_signature",
        {[address |-> 0, expected_signature |-> Open, return_type |-> Pointer(Builtin("void")),
          parameters |-> <<U8(1), [name |-> 2, data_type |-> Grid]>>]}),
    Plan("set_analysis_options", [options : {{}, {1, 2}, {2, 3}}]),
    Plan("set_image_base", [address : {1}]),
    Plan("create_memory_block", {[name |-> n, address |-> a, size |-> 1] :
                                    n \in 1..2, a \in 1..2})}

MCUserRows ==
    <<Row("comment", <<0, "eol">>, 3), Row("bookmark", 0, 3), Row("function", 0, 2),
     Row("label", 1, 1), Row("tag", <<0, 3>>, TRUE), Row("unit", 1, UnitOf("data", <<NamePart("u8")>>, 1, 1)),
     Row("type", 1, [Structure(Pair(1)) EXCEPT !.fields[2].name = 4]),
     Row("type", 2, EnumOf([path |-> 2, size |-> 1, members |-> <<>>])),
     Row("variable", <<0, 1>>, [name |-> 4, type |-> <<NamePart("u8")>>, length |-> 1])>>
=============================================================================

----------------------------- MODULE MCQueries -----------------------------
(***************************************************************************)
(* Small programs and requests for Queries: eight addresses, the last of        *)
(* them unmapped, limits from zero (refused) to two, so that every answer has      *)
(* requests that end before, at and behind each of its boundaries.              *)
(***************************************************************************)
EXTENDS Queries

Unit(kind, from, to, ops) ==
    [at |-> from, end |-> to, len |-> to - from + 1, kind |-> kind, ops |-> ops]

Mixed ==
    [top   |-> 6, size |-> 3, marks |-> {0, 2, 4},
     units |-> <<Unit("instruction", 0, 1, 1), Unit("instruction", 2, 2, 2),
                 Unit("data", 3, 5, 0), Unit("undefined", 6, 6, 0)>>,
     calls |-> {<<1, 2>>, <<2, 3>>, <<1, 3>>, <<3, 1>>}]
AllCode ==
    [top   |-> 6, size |-> 4, marks |-> {0, 1, 4, 6},
     units |-> <<Unit("instruction", 0, 0, 1), Unit("instruction", 1, 2, 2),
                 Unit("instruction", 3, 3, 1), Unit("instruction", 4, 5, 3),
                 Unit("instruction", 6, 6, 1)>>,
     calls |-> {<<1, 2>>, <<1, 3>>, <<2, 4>>, <<3, 4>>, <<4, 1>>}]
\* What an edit may leave of them: the second instruction is gone, the last
\* byte decoded, a comment moved.
Edited ==
    [top   |-> 6, size |-> 2, marks |-> {0, 3, 6},
     units |-> <<Unit("instruction", 0, 1, 1), Unit("undefined", 2, 2, 0),
                 Unit("data", 3, 5, 0), Unit("instruction", 6, 6, 2)>>,
     calls |-> {<<1, 2>>}]
MCPrograms == {Mixed, AllCode, Edited}

\* The same with its last address mapped: an instruction may end at it.
WholeSpace ==
    [AllCode EXCEPT !.top = MaxOffset,
                    !.units = Append(@, Unit("instruction", MaxOffset, MaxOffset, 1))]
MCWholeSpace == {WholeSpace}
MCPreviews ==
    [preview_instructions |-> [address : {0, 1, 4, 6, MaxOffset}, count : 0..4],
     get_pcode            |-> [address : {0, 1, 4, 6, MaxOffset}, count : 0..4]]

Spans  == {<<0, 7>>, <<1, 5>>, <<4, 2>>, <<6, 1>>, <<6, 2>>, <<6, 3>>}
Scan   == [start : {None}, end : {None}, cursor : {None}]
          \cup [start : {1}, end : {4, 6}, cursor : {None, 3, 0}]
Limits == 0..2

MCRequests ==
    [list_functions |-> [offset : {0, 2, 9}, limit : Limits],
     list_symbols   |-> [query : {0}, offset : {0, 1}, limit : Limits],
     list_strings   |-> [offset : {0, 1}, limit : Limits],
     read_bytes     |-> {[address |-> s[1], count |-> s[2]] : s \in Spans},
     map_file_offset |-> [file_offset : {1, 3, 4}],
     disassemble    |-> [address : {0, 2, 7}, count : Limits],
     get_references |-> [address : {0, 3}, direction : {"to", "from"}, limit : Limits],
     search_bytes   |-> [pattern : {1}, limit : Limits],
     get_data       |-> [address : {0, 3, 4, 7}, component_offset : {0, 1, 9},
                         component_limit : Limits],
     get_pcode      |-> [address : {0, 1, 3, 6}, count : 0..4],
     get_listing    |-> {[address |-> s[1], length |-> s[2], limit |-> n] :
                         s \in Spans, n \in Limits},
     hash_memory    |-> {[address |-> s[1], length |-> s[2]] : s \in Spans},
     preview_instructions |-> [address : {0, 1, 3, 6, 7}, count : Limits],
     get_processor_context |-> [address : {0, 7}, register : {0, 1}, offset : {0, 1},
                                limit : Limits],
     list_bookmarks |-> [offset : {0, 1, 9}, limit : Limits],
     list_comments  |-> {[address |-> s[1], length |-> s[2], comment_type |-> "eol",
                          query |-> q, limit |-> n] : s \in Spans, q \in {0, 1}, n \in Limits},
     compare_program_memory |->
        {[address |-> s[1], other_address |-> s[3], other_program_path |-> 1,
          length |-> s[2], limit |-> n] :
            s \in {<<0, 7, 0>>, <<0, 1, 5>>, <<1, 6, 0>>, <<6, 1, 6>>, <<3, 2, 7>>},
            n \in {0, 1, 4}},
     get_function_details |-> [address : {1, 5}, limit : 0..4],
     get_control_flow |-> [address : {1, 5}, max_blocks : {0, 1, 4}, max_edges : {1, 8}],
     get_call_graph |-> [address : {1, 2, 5}, direction : CallDirection,
                         max_depth : {1, 3}, max_nodes : {1, 2, 4}, max_edges : {1, 8}],
     find_call_paths |-> [source : {1}, target : {1, 3, 4, 5}, max_depth : {0, 1, 3},
                          max_paths : {1, 4}, max_nodes : {2, 4}, max_edges : {1, 8}],
     search_instructions |->
        {x @@ [mnemonic |-> m, operand_contains |-> 0, limit |-> n, scan_limit |-> k] :
            x \in Scan, m \in {0, 1}, n \in {1, 2}, k \in {1, 8}},
     search_constants |->
        {x @@ [value |-> 2, scalar_bits |-> b, limit |-> n, scan_limit |-> 2] :
            x \in Scan, b \in {0, 1, 2}, n \in Limits},
     search_pcode |->
        {x @@ [opcode |-> 1, limit |-> 1, scan_limit |-> k] : x \in Scan, k \in Limits},
     get_references_range |->
        {[start |-> 0, end |-> e, direction |-> "from", cursor |-> c[1],
          cursor_offset |-> c[2], limit |-> n, scan_limit |-> k] :
            e \in {0, 4, 6}, c \in {<<None, 0>>, <<None, 1>>, <<0, 1>>, <<1, 1>>},
            n \in Limits, k \in {2, 8}},
     get_high_pcode |-> [address : {1, 2}, offset : {0, 1, 9}, limit : Limits],
     trace_data_flow |->
        [address : {1}, expected_snapshot_id : {1, 4, 5}, operation_address : {1, 2, 5},
         operation_time : {1}, operand_index : {-1, 0}, direction : TraceDirection,
         max_depth : {0, 1, 3}, max_nodes : {1, 2, 4}],
     batch_decompile |-> [addresses : {<<>>, <<0>>, <<2, 0>>, <<0, 2>>, <<0, 0>>}],
     batch_references |->
        [addresses : {<<>>, <<0>>, <<2, 0>>}, direction : {"to"}, limit_per_address : Limits],
     search_decompiled_code |->
        [text : {1, 2}, start_after : {None, 0, 4}, function_limit : Limits],
     compare_functions |->
        [address : {0, 2, 3}, other_address : {0, 2, 3}, max_instructions : Limits],
     compare_saved_function |->
        [address : {0, 2}, other_address : {0, 2}, other_program_path : {1, 2},
         max_instructions : {1, 2}],
     get_function_fingerprint |-> [address : {0, 2, 3}, max_instructions : Limits],
     find_similar_functions |->
        [address : {0, 2}, start_after : {None, 1}, function_limit : Limits,
         result_limit : {1, 2}, max_instructions : {1}],
     emulate_function |->
        [address : {0, 2}, stop_address : {0, 3, 6}, registers : {<<>>}, memory : {<<>>},
         output_registers : {<<>>, <<3>>, <<3, 2>>}, output_memory : {<<>>},
         max_steps : {1, 4}],
     get_function_variables |-> [address : {1, 2}, offset : {0, 1, 9}, limit : Limits],
     list_data_types |-> [query : {0, 1}, offset : {0, 1}, limit : Limits],
     get_structure_field_references |->
        [address : {0}, path : {1, 2}, field_offset : {0, 4}, limit : Limits]]
=============================================================================

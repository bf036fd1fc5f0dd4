------------------------------ MODULE Queries ------------------------------
(***************************************************************************)
(* A client reads a program: it asks, the MCP server lets the request        *)
(* through or refuses it, the bridge answers or declines, the MCP server       *)
(* accepts the answer or calls it a doubt, and the client goes on with the      *)
(* page, address or cursor the answer names until nothing is left.  Between      *)
(* two pages the program may be edited.  The bridge may also give the answer      *)
(* to another request of the same operation: the check is there for that.        *)
(*                                                                         *)
(* One call after the other, as the mailbox allows; how a call is carried is     *)
(* MailboxExchange.                                                         *)
(***************************************************************************)
EXTENDS UtilityOps, FlowOps, TypeOps

CONSTANTS
    Programs,  \* native programs, also the ones an edit turns one into
    Requests,  \* for each operation the requests a client starts with
    Budget     \* steps that fit into the time of one answer, at most

\* The reading operations the tool registry offers.
Operations ==
    {"list_functions", "list_symbols", "list_strings", "read_bytes", "map_file_offset",
     "disassemble", "get_references", "search_bytes", "get_data", "get_pcode", "get_listing",
     "hash_memory", "preview_instructions", "get_processor_context", "list_bookmarks",
     "list_comments", "compare_program_memory", "get_function_details", "get_control_flow",
     "get_call_graph", "find_call_paths", "search_instructions", "search_constants",
     "search_pcode", "get_references_range", "get_high_pcode", "trace_data_flow",
     "batch_decompile", "batch_references", "search_decompiled_code", "compare_functions",
     "compare_saved_function", "get_function_fingerprint", "find_similar_functions",
     "emulate_function", "get_function_variables", "list_data_types",
     "get_structure_field_references"}
ASSUME QueriesAssumption ==
    Budget \in Nat /\ Programs # {} /\ DOMAIN Requests \subseteq Operations

CodeUnit ==
    [at : Offset, end : Offset, len : Nat, ops : Nat, kind : {"instruction", "data", "undefined"}]
\* A native list has a length, what is marked is in the address space, calls and links
\* are finitely many, the code units lie one behind the other, and every mapped address
\* is in one of them.
ASSUME ProgramsAssumption ==
    \A p \in Programs :
        /\ p.size \in Nat /\ p.top \in Offset /\ p.marks \subseteq Offset
        /\ p.units \in Seq(CodeUnit)
        /\ p.calls \subseteq Nat \X Nat /\ IsFiniteSet(p.calls)
        /\ \A i \in DOMAIN p.units :
            LET u == p.units[i]
            IN /\ u.at <= u.end /\ u.len = u.end - u.at + 1
               /\ \A j \in 1..(i - 1) : p.units[j].end < u.at
        /\ \A at \in Offset : Mapped(p, at) =>
            \E i \in DOMAIN p.units : at \in p.units[i].at..p.units[i].end

Ops == DOMAIN Requests
Searches == {"search_constants", "search_instructions", "search_pcode"}

VARIABLES
    op,       \* the operation, fixed
    program,  \* what the bridge has open
    first,    \* the request the client started with
    request,  \* the one it asks now
    reply,    \* the last answer
    honest,   \* the answer is to this request
    phase,    \* where the call is
    seen,     \* rows the client has got so far
    always,   \* rows wanted in every version of the program so far
    edited    \* the program was edited between two pages

vars == <<op, program, first, request, reply, honest, phase, seen, always, edited>>

-----------------------------------------------------------------------------
(* The dispatch on the operation: Backend::call and its validators, and      *)
(* CommandDispatcher.dispatch.                                              *)

Valid(r) ==
    CASE op = "list_functions"         -> r \in ListFunctionsParams
      [] op = "list_symbols"           -> r \in ListSymbolsParams
      [] op = "list_strings"           -> r \in ListStringsParams
      [] op = "read_bytes"             -> r \in ReadBytesParams
      [] op = "map_file_offset"        -> r \in MapFileOffsetParams
      [] op = "disassemble"            -> r \in DisassembleParams
      [] op = "get_references"         -> r \in ReferencesParams
      [] op = "search_bytes"           -> r \in SearchBytesParams
      [] op = "get_data"               -> r \in GetDataParams
      [] op = "get_pcode"              -> r \in DisassembleParams
      [] op = "get_listing"            -> r \in ListingParams
      [] op = "hash_memory"            -> r \in HashMemoryParams
      [] op = "preview_instructions"   -> r \in DisassembleParams
      [] op = "get_processor_context"  -> r \in ProcessorContextParams
      [] op = "list_bookmarks"         -> r \in ListBookmarksParams
      [] op = "list_comments"          -> r \in ListCommentsParams
      [] op = "compare_program_memory" -> r \in CompareProgramMemoryParams
      [] op = "get_function_details"   -> r \in FunctionDetailsParams
      [] op = "get_control_flow"       -> r \in ControlFlowParams
      [] op = "get_call_graph"         -> r \in CallGraphParams
      [] op = "find_call_paths"        -> r \in CallPathsParams
      [] op = "search_instructions"    -> r \in SearchInstructionsParams
      [] op = "search_constants"       -> r \in SearchConstantsParams
      [] op = "search_pcode"           -> r \in SearchPcodeParams
      [] op = "get_references_range"   -> r \in ReferencesRangeParams
      [] op = "get_high_pcode"         -> r \in HighPcodeParams
      [] op = "trace_data_flow"        -> r \in TraceDataFlowParams
      [] op = "batch_decompile"        -> r \in BatchDecompileParams
      [] op = "batch_references"       -> r \in BatchReferencesParams
      [] op = "search_decompiled_code" -> r \in SearchDecompiledCodeParams
      [] op = "compare_functions"      -> r \in CompareFunctionsParams
      [] op = "compare_saved_function" -> r \in CompareSavedFunctionParams
      [] op = "get_function_fingerprint" -> r \in FunctionFingerprintParams
      [] op = "find_similar_functions" -> r \in FindSimilarFunctionsParams
      [] op = "emulate_function"       -> r \in EmulateFunctionParams
      [] op = "get_function_variables" -> r \in FunctionVariablesParams
      [] op = "list_data_types"        -> r \in ListDataTypesParams
      [] op = "get_structure_field_references" -> StructureFieldReferencesParams(r)

\* Where the bridge throws instead of answering: unmapped memory, no such
\* instruction, function or snapshot.
Answers(p, r) ==
    CASE op \in {"read_bytes"}                      -> r.address + r.count - 1 <= p.top
      [] op \in {"get_listing", "hash_memory"}     -> Region(p, r)
      [] op \in {"get_data", "get_processor_context", "preview_instructions"} ->
            Mapped(p, r.address)
      [] op = "get_pcode" ->
            Starts(p, r.address) /\ p.units[UnitAt(p, r.address)].kind = "instruction"
      [] op = "compare_program_memory"             -> Region(p, r)
      [] op \in {"get_function_details", "get_call_graph", "get_control_flow"} ->
            r.address \in 1..p.size
      [] op = "find_call_paths"                    -> {r.source, r.target} \subseteq 1..p.size
      [] op = "get_references_range"               -> RangeAnswers(p, r)
      [] op = "get_high_pcode"                     -> p.size <= LastOperation
      [] op = "trace_data_flow"                    -> TraceAnswers(p, r)
      [] op \in {"compare_functions", "compare_saved_function"} ->
            \A at \in {r.address, r.other_address} :
                Starts(p, at) /\ p.units[UnitAt(p, at)].ops > 0
      [] op = "get_function_fingerprint" ->
            Starts(p, r.address) /\ p.units[UnitAt(p, r.address)].ops > 0
      [] op = "find_similar_functions" -> Starts(p, r.address)
      [] op = "emulate_function"       -> Starts(p, r.address) /\ Starts(p, r.stop_address)
      [] OTHER                         -> TRUE

Answer(p, r, time) ==
    CASE op = "list_functions"         -> Functions(p, r)
      [] op \in {"list_symbols", "list_strings"} -> Symbols(p, r)
      [] op = "read_bytes"             -> Bytes(p, r)
      [] op = "map_file_offset"        -> FileOffsets(p, r)
      [] op = "disassemble"            -> Disassembly(p, r)
      [] op = "get_references"         -> References(p, r)
      [] op = "search_bytes"           -> Matches(p, r)
      [] op = "get_data"               -> Data(p, r)
      [] op = "get_pcode"              -> Pcode(p, r)
      [] op = "get_listing"            -> Listing(p, r)
      [] op = "hash_memory"            -> Hash(p, r)
      [] op = "preview_instructions"   -> Preview(p, r)
      [] op = "get_processor_context"  -> Context(p, r)
      [] op = "list_bookmarks"         -> Bookmarks(p, r)
      [] op = "list_comments"          -> Comments(p, r)
      [] op = "compare_program_memory" -> Differences(p, r)
      [] op = "get_function_details"   -> FunctionDetails(p, r, time)
      [] op = "get_control_flow"       -> ControlFlow(p, r, time)
      [] op = "get_call_graph"         -> CallGraph(p, r, time)
      [] op = "find_call_paths"        -> CallPaths(p, r, time)
      [] op \in Searches               -> Search(p, r, time)
      [] op = "get_references_range"   -> ReferencesRange(p, r, time)
      [] op = "get_high_pcode"         -> HighPcode(p, r)
      [] op = "trace_data_flow"        -> Trace(p, r)
      [] op = "batch_decompile"        -> BatchDecompile(p, r, time)
      [] op = "batch_references"       -> BatchReferences(p, r)
      [] op = "search_decompiled_code" -> SearchDecompiledCode(p, r, time)
      [] op = "compare_functions"      -> CompareFunctions(p, r)
      [] op = "compare_saved_function" -> CompareSavedFunction(p, r)
      [] op = "get_function_fingerprint" -> FunctionFingerprint(p, r)
      [] op = "find_similar_functions" -> FindSimilarFunctions(p, r, time)
      [] op = "emulate_function"       -> Emulate(p, r, time)
      [] op = "get_function_variables" -> Variables(p, r)
      [] op = "list_data_types"        -> DataTypes(p, r)
      [] op = "get_structure_field_references" -> FieldReferences(p, r)

Accepts(r, v) ==
    CASE op = "list_functions"         -> AcceptsFunctions(r, v)
      [] op \in {"list_symbols", "list_strings"} -> AcceptsPage(r, v)
      [] op = "read_bytes"             -> AcceptsBytes(r, v)
      [] op = "map_file_offset"        -> AcceptsFileOffsets(r, v)
      [] op = "disassemble"            -> AcceptsDisassembly(r, v)
      [] op = "get_references"         -> AcceptsReferences(r, v)
      [] op = "search_bytes"           -> AcceptsMatches(r, v)
      [] op = "get_data"               -> AcceptsData(r, v)
      [] op = "get_pcode"              -> AcceptsPcode(r, v)
      [] op = "get_listing"            -> AcceptsListing(r, v)
      [] op = "hash_memory"            -> AcceptsHash(r, v)
      [] op = "preview_instructions"   -> AcceptsPreview(r, v)
      [] op = "get_processor_context"  -> AcceptsContext(r, v)
      [] op = "list_bookmarks"         -> AcceptsBookmarks(r, v)
      [] op = "list_comments"          -> AcceptsComments(r, v)
      [] op = "compare_program_memory" -> AcceptsDifferences(r, v)
      [] op = "get_function_details"   -> AcceptsDetails(r, v)
      [] op = "get_control_flow"       -> AcceptsControlFlow(r, v)
      [] op = "get_call_graph"         -> AcceptsCallGraph(r, v)
      [] op = "find_call_paths"        -> AcceptsCallPaths(r, v)
      [] op \in Searches               -> AcceptsSearch(r, v)
      [] op = "get_references_range"   -> AcceptsReferencesRange(r, v)
      [] op = "get_high_pcode"         -> AcceptsHighPcode(r, v)
      [] op = "trace_data_flow"        -> AcceptsTrace(r, v)
      [] op = "batch_decompile"        -> AnswersInOrder(r, v)
      [] op = "batch_references"       -> AcceptsBatchReferences(r, v)
      [] op = "search_decompiled_code" -> AcceptsSearchDecompiled(r, v)
      [] op = "compare_functions"      -> AcceptsComparison(r, v)
      [] op = "compare_saved_function" -> AcceptsSavedComparison(r, v)
      [] op = "get_function_fingerprint" -> AcceptsFunctionFingerprint(r, v)
      [] op = "find_similar_functions" -> AcceptsSimilar(r, v)
      [] op = "emulate_function"       -> AcceptsEmulation(r, v)
      [] op = "get_function_variables" -> AcceptsVariables(r, v)
      [] op = "list_data_types"        -> AcceptsDataTypes(r, v)
      [] op = "get_structure_field_references" -> AcceptsFieldReferences(r, v)

-----------------------------------------------------------------------------
(* Going on.  A page names how many rows were skipped, a scan an address or   *)
(* a cursor; what has neither is whole or says that it is not.                *)

Pages == {"list_functions", "list_symbols", "list_strings", "list_bookmarks",
          "get_processor_context", "list_data_types", "get_function_variables",
          "get_high_pcode"}
Scans == Searches \cup
    {"get_listing", "list_comments", "get_references_range", "search_decompiled_code",
     "find_similar_functions"}
Windows == {"search_decompiled_code", "find_similar_functions"}

\* A plausible slip: the rest of the range is as long as the range was.
RestOfWholeRange(r, next) == [r EXCEPT !.address = next]
RestOfRange(r, next) == [r EXCEPT !.address = next, !.length = EndOf(r) - next + 1]

GoOn(r, v) ==
    CASE op = "list_functions" /\ r.offset + Len(v.rows) < v.total ->
            {[r EXCEPT !.offset = @ + Len(v.rows)]}
      [] op \in Pages \ {"list_functions"} /\ v.has_more ->
            {[r EXCEPT !.offset = @ + Len(v.rows)]}
      [] op = "get_data" /\ v.has_more ->
            {[r EXCEPT !.component_offset = @ + Len(v.rows)]}
      [] op \in {"get_listing", "list_comments"} /\ v.next_address # Absent ->
            {RestOfRange(r, v.next_address)}
      [] op = "preview_instructions" /\ v.stop_reason = "count_limit" ->
            {[r EXCEPT !.address = v.next_address]}
      [] op = "get_pcode" /\ v.truncation_reason # "none" /\ v.rows # <<>> ->
            {[r EXCEPT !.address = v.rows[Len(v.rows)].at + v.rows[Len(v.rows)].len]}
      [] op \in Searches /\ v.cursor # None -> {[r EXCEPT !.cursor = v.cursor]}
      [] op = "get_references_range" /\ v.cursor # None ->
            {[r EXCEPT !.cursor = v.cursor, !.cursor_offset = v.cursor_offset]}
      [] op \in Windows /\ v.has_more /\ v.next_cursor # None ->
            {[r EXCEPT !.start_after = v.next_cursor]}
      [] OTHER -> {}

\* The answer says that nothing was left out behind it.
Ends(v) ==
    CASE op \in {"get_function_details", "get_control_flow", "find_call_paths"} ->
            ~ v.status.truncated
      [] op = "get_call_graph" -> ~ v.status.truncated /\ ~ v.depth_limit_reached
      [] op \in {"trace_data_flow", "compare_program_memory"} -> ~ v.truncated
      [] op = "get_pcode"      -> v.truncation_reason = "none"
      [] op \in Windows        -> ~ v.has_more
      [] OTHER                 -> TRUE

\* What a client keeps of an answer.
Rows(v) ==
    CASE op = "get_call_graph"         -> v.nodes
      [] op = "compare_program_memory" ->
            [i \in DOMAIN v.rows |-> <<v.rows[i].offset, v.rows[i].length>>]
      [] op = "find_similar_functions" ->
            [i \in DOMAIN (v.rows \o v.failures) |-> (v.rows \o v.failures)[i].at]
      [] op \in {"hash_memory", "compare_functions", "compare_saved_function",
                "get_function_fingerprint"} -> <<>>
      [] OTHER                         -> v.rows

-----------------------------------------------------------------------------
(* What a client is to have in the end, said without any paging or walk.     *)

Reached(calls, root, n) ==
    {f \in 1..n : \A S \in SUBSET (1..n) :
        (root \in S /\ \A c \in calls : c[1] \in S => c[2] \in S) => f \in S}
Reversed(calls) == {<<c[2], c[1]>> : c \in calls}
Differing(p, r) == {i \in 0..(r.length - 1) : r.address + i \in p.marks}
\* All sequences of functions without repetition that are joined by calls.
SimplePaths(p, r) ==
    {path \in UNION {[1..n -> 1..p.size] : n \in 1..Min({r.max_depth + 1, p.size})} :
        /\ path[1] = r.source /\ path[Len(path)] = r.target
        /\ IsInjective(path)
        /\ \A i \in 1..(Len(path) - 1) : <<path[i], path[i + 1]>> \in p.calls}

Wanted(p, r) ==
    CASE op \in Pages \ {"get_processor_context"} -> (r.offset + 1)..p.size
      [] op = "get_processor_context" /\ r.register = 0 -> (r.offset + 1)..p.size
      [] op = "get_data" ->
            IF p.units[UnitAt(p, r.address)].kind = "data"
            THEN (r.component_offset + 1)..p.size ELSE {}
      [] op = "get_listing" ->
            {u \in ToSet(p.units) : u.end >= r.address /\ u.at <= EndOf(r)}
      [] op \in {"get_pcode", "preview_instructions"} ->
            {u \in ToSet(p.units) : u.at >= r.address
                /\ \A w \in ToSet(p.units) : w.at \in r.address..u.at =>
                        w.kind = "instruction" \/ (op # "get_pcode" /\ w.kind # "data")}
      [] op = "list_comments" ->
            {m \in p.marks : m \in r.address..EndOf(r) /\ TextContains(r.query, m)}
      [] op \in Searches -> {u \in ToSet(Code(p)) : u.at \in p.marks \cap (From(r)..Upto(r))}
      [] op = "get_references_range" ->
            {end \in (p.marks \cap (From(r)..r.end)) \X (1..p.size) :
                end[1] = r.cursor => end[2] > r.cursor_offset}
      [] op = "search_decompiled_code" -> {u.at : u \in ToSet(Code(p))} \ (0..r.start_after)
      [] op = "find_similar_functions" ->
            {u.at : u \in ToSet(Code(p))} \ ((0..r.start_after) \cup {r.address})
      [] op = "compare_program_memory" ->
            {run \in Differing(p, r) \X (1..r.length) :
                LET from == run[1]
                    next == from + run[2]
                IN /\ from..(next - 1) \subseteq Differing(p, r)
                   /\ {from - 1, next} \cap Differing(p, r) = {}}
      [] op \in {"get_function_details", "get_control_flow"} -> 1..p.size
      [] op = "get_call_graph" ->
            Reached(CASE r.direction = "callees" -> p.calls
                      [] r.direction = "callers" -> Reversed(p.calls)
                      [] OTHER -> p.calls \cup Reversed(p.calls), r.address, p.size)
      [] op = "find_call_paths" -> SimplePaths(p, r)
      [] op = "trace_data_flow" ->
            Reached(IF r.direction = "forward" THEN p.calls ELSE Reversed(p.calls),
                    r.operation_address, p.size)
Named == Pages \cup Scans \cup
    {"get_data", "get_pcode", "preview_instructions", "compare_program_memory",
     "get_function_details", "get_control_flow", "get_call_graph", "find_call_paths",
     "trace_data_flow"}
Wants(p, r) ==
    /\ op \in Named /\ Answers(p, r)
    /\ op = "get_processor_context" => r.register = 0
    /\ op = "preview_instructions" => Starts(p, r.address)
    \* Otherwise the least similar ones of a window are left out.
    /\ op = "find_similar_functions" => r.function_limit <= r.result_limit

-----------------------------------------------------------------------------
Init ==
    /\ op \in Ops
    /\ program \in Programs
    /\ first \in Requests[op]
    /\ request = first
    /\ reply = <<>> /\ honest = TRUE
    /\ phase = "asking"
    /\ seen = <<>> /\ always = {} /\ edited = FALSE

\* validate() fails: nothing is sent.
Refuse ==
    /\ phase = "asking" /\ ~ Valid(request)
    /\ phase' = "refused"
    /\ UNCHANGED <<op, program, first, request, reply, honest, seen, always, edited>>

Send ==
    /\ phase = "asking" /\ Valid(request)
    /\ phase' = "sent"
    /\ always' = IF reply = <<>> /\ Wants(program, first) THEN Wanted(program, first) ELSE always
    /\ UNCHANGED <<op, program, first, request, reply, honest, seen, edited>>

\* The program is edited while the client has a page and not yet the next.
Edit ==
    /\ phase = "asking" /\ reply # <<>> /\ ~ edited
    /\ program' \in Programs \ {program}
    /\ always' = IF Wants(program', first) THEN always \cap Wanted(program', first) ELSE {}
    /\ edited' = TRUE
    /\ UNCHANGED <<op, first, request, reply, honest, phase, seen>>

\* The handler throws IllegalArgumentException: a definite error.
Decline ==
    /\ phase = "sent" /\ ~ Answers(program, request)
    /\ phase' = "declined"
    /\ UNCHANGED <<op, program, first, request, reply, honest, seen, always, edited>>

Reply ==
    /\ phase = "sent" /\ Answers(program, request)
    /\ \E time \in 0..Budget : reply' = Answer(program, request, time)
    /\ honest' = TRUE /\ phase' = "answered"
    /\ UNCHANGED <<op, program, first, request, seen, always, edited>>

\* The answer to another request of the client, as from a confused bridge.
Misroute ==
    /\ phase = "sent"
    /\ \E other \in Requests[op] \ {request} :
        /\ Valid(other) /\ Answers(program, other)
        /\ reply' = Answer(program, other, Budget)
    /\ honest' = FALSE /\ phase' = "answered"
    /\ UNCHANGED <<op, program, first, request, seen, always, edited>>

\* The validator is content: the rows are the client's, and it goes on.
Accept ==
    /\ phase = "answered" /\ Accepts(request, reply)
    /\ LET next == GoOn(request, reply)
       IN /\ phase' = IF ~ honest THEN "misled" ELSE IF next # {} THEN "asking" ELSE "done"
          /\ request' = IF honest /\ next # {} THEN CHOOSE r \in next : TRUE ELSE request
    /\ seen' = IF honest THEN seen \o Rows(reply) ELSE seen
    /\ UNCHANGED <<op, program, first, reply, honest, always, edited>>

\* It is not: the call ends as an uncertain one.
Reject ==
    /\ phase = "answered" /\ ~ Accepts(request, reply)
    /\ phase' = "doubt"
    /\ UNCHANGED <<op, program, first, request, reply, honest, seen, always, edited>>

Next == Refuse \/ Send \/ Edit \/ Decline \/ Reply \/ Misroute \/ Accept \/ Reject

Spec == Init /\ [][Next]_vars

-----------------------------------------------------------------------------
(* Properties.                                                              *)

\* An answer the bridge gives to the request it was sent is never taken for a
\* doubt: the MCP server's checks and the handlers agree at every boundary.
\* (A doubt ends the client's session until somebody inspects the project.)
HonestAccepted == ~ (phase = "doubt" /\ honest)

\* What an answer names to go on with is a request the MCP server lets through:
\* a client that follows it is not stopped half-way.
ContinuationsSent == phase = "refused" => request = first

\* Nobody edits: a client that goes on until the answers say that they are whole
\* has every row there is, none twice, whatever the limits and the time budget.
WholeAndOnce ==
    (phase = "done" /\ ~ edited /\ Ends(reply) /\ Wants(program, first)) =>
        ToSet(seen) = Wanted(program, first) /\ IsInjective(seen)

\* The program is edited between two pages of a scan: a row that was there all
\* the time is still given exactly once, because a scan goes on from a place.
\* (Pages go on from a count, and promise no such thing.)
StableRows ==
    (phase = "done" /\ op \in Scans /\ Ends(reply)) =>
        \A row \in always : Cardinality({i \in DOMAIN seen : seen[i] = row}) = 1

\* The operations whose validator ties the answer to the whole request.
Bound ==
    {"get_data", "get_high_pcode", "get_function_variables", "hash_memory", "read_bytes",
     "map_file_offset", "batch_decompile"}
\* For these an accepted answer is one the bridge could have given to the
\* request: an answer to another one is never passed on as this one's.
BoundReplies ==
    (phase = "misled" /\ op \in Bound) =>
        \E time \in 0..Budget : reply = Answer(program, request, time)
=============================================================================

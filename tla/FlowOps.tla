------------------------------ MODULE FlowOps ------------------------------
(***************************************************************************)
(* Decompiler, data flow, similarity and the isolated emulator: the requests  *)
(* (domain/flow.rs), the bridge's answers (FlowCommands) and what the MCP server *)
(* accepts (backend/flow.rs).                                                *)
(*                                                                         *)
(* A native program is that of ResearchOps.  Every instruction starts a         *)
(* function here; the functions at p.marks cannot be decompiled or             *)
(* fingerprinted.  p.size is also the number of SSA operations and of          *)
(* varnodes, and p.calls the SSA links, a pair <<definition, use>> each.        *)
(***************************************************************************)
EXTENDS ResearchOps

CONSTANT EdgeLimit  \* edges of one trace, 512 in the code

ASSUME FlowAssumption == EdgeLimit \in Nat \ {0}

-----------------------------------------------------------------------------
(* Requests.                                                                *)

\* Operations of the SSA form that the bridge reads, at most.
LastOperation == 20000
HighPcodeParams == [address : Offset, offset : 0..LastOperation, limit : Limit(512)]
TraceDirection == {"forward", "backward"}
TraceDataFlowParams ==
    [address : Offset, expected_snapshot_id : Nat, operation_address : Offset,
     operation_time : Nat, operand_index : -1..31, direction : TraceDirection,
     max_depth : 1..8, max_nodes : 1..128]
AddressList(max) == {s \in Seq(Offset) : Len(s) \in 1..max}
BatchDecompileParams == [addresses : AddressList(8)]
BatchReferencesParams ==
    [addresses : AddressList(32), direction : {"to", "from"}, limit_per_address : 1..200]
SearchDecompiledCodeParams ==
    [text : Text(256), start_after : ScanOffset, function_limit : 1..8]
FunctionFingerprintParams == [address : Offset, max_instructions : Limit(4096)]
CompareFunctionsParams ==
    [address : Offset, other_address : Offset, max_instructions : Limit(4096)]
FindSimilarFunctionsParams ==
    [address : Offset, start_after : ScanOffset, function_limit : 1..100,
     result_limit : 1..25, max_instructions : Limit(4096)]
EmulatorRegister == [name : Text(64), value : Nat]
EmulatorMemory   == [address : Offset, bytes : 1..4096]
EmulatorRead     == [address : Offset, count : 1..4096]
Total(field, s)  == SumOf([i \in DOMAIN s |-> s[i][field]])
EmulateFunctionParams ==
    {r \in [address : Offset, stop_address : Offset, registers : Seq(EmulatorRegister),
            memory : Seq(EmulatorMemory), output_registers : Seq(Text(64)),
            output_memory : Seq(EmulatorRead), max_steps : Limit(10000)] :
        /\ Len(r.registers) <= 32 /\ Len(r.memory) <= 16 /\ Len(r.output_memory) <= 16
        /\ Len(r.output_registers) \in 1..16
        /\ Total("bytes", r.memory) <= 8192 /\ Total("count", r.output_memory) <= 8192}

-----------------------------------------------------------------------------
(* Answers.                                                                 *)

\* The snapshot names the whole SSA graph: what it was when it was read.
Snapshot(p) == Cardinality(p.calls)

HighPcode(p, r) ==
    LET rows == Take(Numbers(p.size), r.offset, r.limit)
    IN [address |-> r.address, snapshot_id |-> Snapshot(p), offset |-> r.offset,
        total |-> p.size, rows |-> rows, has_more |-> r.offset + Len(rows) < p.size]

Linked(p, n, direction) ==
    Ascending(IF direction = "backward" THEN {c[1] : c \in {d \in p.calls : d[2] = n}}
              ELSE {c[2] : c \in {d \in p.calls : d[1] = n}})
\* One link of varnode n: left out, and said so, when a limit is reached.
TraceLink(r, n, t, next) ==
    LET new == next \notin DOMAIN t.depth
    IN IF Len(t.edges) = EdgeLimit \/ (new /\ Cardinality(DOMAIN t.depth) = r.max_nodes)
       THEN [t EXCEPT !.truncated = TRUE]
       ELSE [t EXCEPT !.edges = Append(@, <<n, next>>),
                      !.depth = IF new THEN WithDepth(@, next, t.depth[n] + 1) ELSE @,
                      !.queue = IF new THEN Append(@, next) ELSE @]
\* The next varnode of the queue.
FollowOne(p, r, t) ==
    LET n    == Head(t.queue)
        here == [t EXCEPT !.queue = Tail(@), !.nodes = Append(@, n)]
        out  == Linked(p, n, r.direction)
        linked[k \in 0..Len(out)] ==
            IF k = 0 THEN here ELSE TraceLink(r, n, linked[k - 1], out[k])
    IN IF out = <<>> THEN [here EXCEPT !.terminals = Append(@, <<n, "no_ssa_edge">>)]
       ELSE IF t.depth[n] = r.max_depth
       THEN [here EXCEPT !.terminals = Append(@, <<n, "depth_limit">>), !.truncated = TRUE]
       ELSE linked[Len(out)]
\* The queue is empty when as many varnodes have been followed as are kept.
Follow(p, r, root) ==
    LET trace[k \in 0..r.max_nodes] ==
            IF k = 0 THEN [nodes |-> <<>>, depth |-> [n \in {root} |-> 0], edges |-> <<>>,
                           terminals |-> <<>>, queue |-> <<root>>, truncated |-> FALSE]
            ELSE LET t == trace[k - 1] IN IF t.queue = <<>> THEN t ELSE FollowOne(p, r, t)
    IN trace[r.max_nodes]
\* The bridge refuses a snapshot it does not have, and an anchor it does not find.
TraceAnswers(p, r) ==
    /\ p.size <= LastOperation
    /\ r.expected_snapshot_id = Snapshot(p) /\ r.operation_address \in 1..p.size
Trace(p, r) ==
    LET root == r.operation_address
        t    == Follow(p, r, root)
    IN [address |-> r.address, snapshot_id |-> Snapshot(p), direction |-> r.direction,
        root |-> root, rows |-> t.nodes, depth |-> t.depth, edges |-> t.edges,
        terminals |-> t.terminals, truncated |-> t.truncated]

Decompiles(p, at) == at \notin p.marks
\* A request's own order; what fails, and what the time is not enough for, is a row too.
BatchDecompile(p, r, time) ==
    [rows |-> [i \in DOMAIN r.addresses |->
        [address |-> r.addresses[i], ok |-> i <= time /\ Decompiles(p, r.addresses[i])]],
     count |-> Len(r.addresses)]
BatchReferences(p, r) ==
    [direction |-> r.direction, count |-> Len(r.addresses),
     rows |-> [i \in DOMAIN r.addresses |->
        LET refs == Take(Numbers(p.size), 0, r.limit_per_address)
        IN [address |-> r.addresses[i], refs |-> refs, truncated |-> p.size > Len(refs)]]]

\* A plausible slip: the function at the cursor is part of the next window.
EntriesFrom(p, after) == CodeAt(p, after..MaxOffset)
\* functionsAfter: the cursor is the last function seen, and exclusive.
EntriesAfter(p, after) == CodeAt(p, (after + 1)..MaxOffset)
Window(p, r, time) == Take(EntriesAfter(p, r.start_after), 0, Min({r.function_limit, time}))
LastSeen(window) == IF window = <<>> THEN None ELSE window[Len(window)].at

SearchDecompiledCode(p, r, time) ==
    LET window == Window(p, r, time)
    IN [text |-> r.text, scanned |-> Len(window),
        rows |-> [i \in DOMAIN window |-> window[i].at],
        has_more |-> Len(EntriesAfter(p, r.start_after)) > Len(window),
        next_cursor |-> LastSeen(window)]
\* u.ops is how similar a function is.
MoreSimilar(u, w) == u.ops > w.ops \/ (u.ops = w.ops /\ u.at < w.at)
\* Every function but the one asked about is a match or a failure.
FindSimilarFunctions(p, r, time) ==
    LET window == Window(p, r, time)
        others == {i \in DOMAIN window : window[i].at # r.address}
        good   == {window[i] : i \in {i \in others : Decompiles(p, window[i].at)}}
        ranked == Ranked(good, MoreSimilar)
    IN [address |-> r.address, scanned |-> Len(window), rows |-> Take(ranked, 0, r.result_limit),
        failures |-> Chosen(window, {i \in others : ~ Decompiles(p, window[i].at)}),
        has_more |-> Len(EntriesAfter(p, r.start_after)) > Len(window),
        next_cursor |-> LastSeen(window)]

\* Two functions have the same tokens when they have as many operations.
Fingerprint(p, at, max) ==
    LET tokens == p.units[UnitAt(p, at)].ops
    IN [function_address |-> at, sha256 |-> Min({tokens, max}),
        instruction_count |-> Min({tokens, max}), truncated |-> tokens > max]
FunctionFingerprint(p, r) ==
    LET print == Fingerprint(p, r.address, r.max_instructions)
    IN [address |-> r.address, function_address |-> print.function_address,
        sha256 |-> print.sha256, instruction_count |-> print.instruction_count,
        truncated |-> print.truncated]
SameTokens(a, b) == ~ a.truncated /\ ~ b.truncated /\ a.sha256 = b.sha256
CompareFunctions(p, r) ==
    LET left  == Fingerprint(p, r.address, r.max_instructions)
        right == Fingerprint(p, r.other_address, r.max_instructions)
    IN [address |-> r.address, other_address |-> r.other_address, left |-> left,
        right |-> right, equal |-> SameTokens(left, right)]
\* The other function is one of a saved program, opened for this answer only.
CompareSavedFunction(p, r) ==
    LET compared == CompareFunctions(p, r)
    IN [address |-> r.address, other_address |-> r.other_address,
        other_program_path |-> r.other_program_path,
        left |-> compared.left, right |-> compared.right, equal |-> compared.equal]

\* Steps over whole code units until the stop, the budget, the time or a unit
\* that is no code, which is counted too; then the outputs, of which those at p.marks
\* cannot be read.
Step(p, r, run, time) ==
    IF run.at = r.stop_address THEN [run EXCEPT !.outcome = "stop_address"]
    ELSE IF run.steps = time THEN [run EXCEPT !.outcome = "time_limit"]
    ELSE IF ~ Starts(p, run.at) \/ p.units[UnitAt(p, run.at)].kind # "instruction"
    THEN [run EXCEPT !.outcome = "emulator_error", !.steps = @ + 1]
    ELSE [run EXCEPT !.at = p.units[UnitAt(p, run.at)].end + 1, !.steps = @ + 1]
Steps(p, r, time) ==
    LET run[k \in 0..r.max_steps] ==
            IF k = 0 THEN [outcome |-> "step_limit", at |-> r.address, steps |-> 0]
            ELSE LET before == run[k - 1]
                 IN IF before.outcome = "step_limit" THEN Step(p, r, before, time) ELSE before
        last == run[r.max_steps]
    IN IF last.at = r.stop_address /\ last.outcome # "emulator_error"
       THEN [last EXCEPT !.outcome = "stop_address"] ELSE last
Readable(p, reg) == reg \notin p.marks
Emulate(p, r, time) ==
    LET run  == Steps(p, r, time)
        rows == [i \in DOMAIN r.output_registers |->
            [name |-> r.output_registers[i],
             value |-> IF Readable(p, r.output_registers[i]) THEN 0 ELSE None]]
        all  == \A i \in DOMAIN rows : rows[i].value # None
        outcome == IF all THEN run.outcome ELSE "emulator_error"
    IN [address |-> r.address, stop_address |-> r.stop_address, execution_address |-> run.at,
        steps |-> run.steps, outcome |-> outcome, reached_stop |-> outcome = "stop_address",
        error |-> outcome = "emulator_error", rows |-> rows]

-----------------------------------------------------------------------------
(* What the MCP server accepts.                                             *)

AcceptsHighPcode(r, v) ==
    /\ v.address = r.address /\ v.offset = r.offset
    /\ v.total <= LastOperation
    /\ Len(v.rows) = Min({r.limit, Max({0, v.total - v.offset})})
    /\ v.has_more = (v.offset + Len(v.rows) < v.total)
    /\ \A i \in DOMAIN v.rows : v.rows[i] = v.offset + i

AcceptsTrace(r, v) ==
    LET ids == ToSet(v.rows)
    IN /\ v.address = r.address
       /\ v.snapshot_id = r.expected_snapshot_id /\ v.direction = r.direction
       /\ Len(v.rows) \in 1..r.max_nodes /\ Len(v.edges) <= EdgeLimit
       /\ \A n \in ids : v.depth[n] <= r.max_depth
       /\ IsInjective(v.rows) /\ v.root \in ids
       /\ \A i \in DOMAIN v.edges : {v.edges[i][1], v.edges[i][2]} \subseteq ids
       /\ \A i \in DOMAIN v.terminals : v.terminals[i][1] \in ids

AnswersInOrder(r, v) ==
    /\ Len(v.rows) = Len(r.addresses) /\ v.count = Len(v.rows)
    /\ \A i \in DOMAIN v.rows : v.rows[i].address = r.addresses[i]
AcceptsBatchReferences(r, v) ==
    /\ v.direction = r.direction /\ AnswersInOrder(r, v)
    /\ \A i \in DOMAIN v.rows : Len(v.rows[i].refs) <= r.limit_per_address

Cursor(v, scanned)  == (v.next_cursor = None) = (scanned = 0)
Advances(from, to)  == from = None \/ to > from
AcceptsSearchDecompiled(r, v) ==
    /\ v.text = r.text
    /\ v.scanned <= r.function_limit /\ Len(v.rows) = v.scanned
    /\ Cursor(v, v.scanned)
    /\ \A i \in DOMAIN v.rows :
        Advances(IF i = 1 THEN r.start_after ELSE v.rows[i - 1], v.rows[i])
    /\ v.rows # <<>> => v.next_cursor = v.rows[Len(v.rows)]
AcceptsSimilar(r, v) ==
    /\ v.address = r.address
    /\ v.scanned <= r.function_limit /\ Cursor(v, v.scanned)
    /\ v.scanned > 0 => Advances(r.start_after, v.next_cursor)
    /\ Len(v.rows) <= r.result_limit /\ Len(v.rows) + Len(v.failures) <= v.scanned
    /\ \A i \in 2..Len(v.rows) : v.rows[i].ops <= v.rows[i - 1].ops

AcceptsFingerprint(v, max) == v.instruction_count \in 1..max
AcceptsFunctionFingerprint(r, v) ==
    v.address = r.address /\ AcceptsFingerprint(v, r.max_instructions)
AcceptsComparison(r, v) ==
    /\ v.address = r.address /\ v.other_address = r.other_address
    /\ AcceptsFingerprint(v.left, r.max_instructions)
    /\ AcceptsFingerprint(v.right, r.max_instructions)
    /\ v.equal = (~ v.left.truncated /\ ~ v.right.truncated /\ v.left.sha256 = v.right.sha256)
AcceptsSavedComparison(r, v) ==
    v.other_program_path = r.other_program_path /\ AcceptsComparison(r, v)

AcceptsEmulation(r, v) ==
    /\ v.address = r.address /\ v.stop_address = r.stop_address
    /\ v.steps <= r.max_steps
    /\ v.reached_stop = (v.outcome = "stop_address")
    /\ v.outcome = "stop_address" => v.execution_address = r.stop_address
    /\ v.error => v.outcome = "emulator_error"
    /\ Len(v.rows) = Len(r.output_registers)
    /\ \A i \in DOMAIN v.rows :
        /\ v.rows[i].name = r.output_registers[i]
        /\ v.rows[i].value = None => v.outcome = "emulator_error"
=============================================================================

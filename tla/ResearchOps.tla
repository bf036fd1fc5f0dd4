---------------------------- MODULE ResearchOps ----------------------------
(***************************************************************************)
(* Functions, control flow, call graphs and scans of the existing analysis:   *)
(* the requests (domain/research.rs), the bridge's answers (ResearchCommands)   *)
(* and what the MCP server accepts (backend/research.rs).                       *)
(*                                                                         *)
(* Every answer works within a budget of five seconds: `time` is how many       *)
(* steps fit into it.  A native program has, besides the fields of CoreOps,      *)
(* p.calls, the call references between its functions 1..p.size.                *)
(***************************************************************************)
EXTENDS CoreOps

-----------------------------------------------------------------------------
(* Requests.  A range or cursor that is not given is None.                  *)

None == -1

FunctionDetailsParams == [address : Offset, limit : 1..256]
ControlFlowParams == [address : Offset, max_blocks : 1..256, max_edges : Limit(2048)]
CallDirection == {"callers", "callees", "both"}
CallGraphParams ==
    [address : Offset, direction : CallDirection, max_depth : 1..8, max_nodes : 1..256,
     max_edges : Limit(2048)]
CallPathsParams ==
    [source : Offset, target : Offset, max_depth : 1..16, max_paths : 1..64,
     max_nodes : 1..256, max_edges : Limit(2048)]

ScanRange(r) ==
    /\ (r.start = None) = (r.end = None)
    /\ r.start # None =>
        r.start <= r.end /\ r.cursor \in {None} \cup r.start..r.end
ScanOffset == Offset \cup {None}
MostSteps  == 100000
ScanSteps  == 1..MostSteps
SearchConstantsParams ==
    {r \in [value : 0..MaxOffset, scalar_bits : 0..64, start : ScanOffset, end : ScanOffset,
            cursor : ScanOffset, limit : 1..200, scan_limit : ScanSteps] :
        /\ r.scalar_bits \in 1..29 => r.value < 2 ^ r.scalar_bits
        /\ ScanRange(r)}
SearchInstructionsParams ==
    {r \in [mnemonic : Optional(Text(128)), operand_contains : Optional(Text(256)),
            start : ScanOffset, end : ScanOffset, cursor : ScanOffset, limit : 1..200,
            scan_limit : ScanSteps] :
        /\ r.mnemonic # 0 \/ r.operand_contains # 0
        /\ ScanRange(r)}
SearchPcodeParams ==
    {r \in [opcode : Text(64), start : ScanOffset, end : ScanOffset, cursor : ScanOffset,
            limit : 1..200, scan_limit : ScanSteps] : ScanRange(r)}
\* References of one address that can be counted off, at most.
LastReference == 100000
ReferencesRangeParams ==
    {r \in [start : Offset, end : Offset, direction : {"from", "to"}, cursor : ScanOffset,
            cursor_offset : 0..LastReference, limit : 1..500, scan_limit : ScanSteps] :
        ScanRange(r) /\ (r.cursor_offset # 0 => r.cursor # None)}

-----------------------------------------------------------------------------
(* Answers.  Status names what ended the work early, and a continuation is   *)
(* there exactly then.                                                      *)

Status(reason) == [truncated |-> reason # "none", reason |-> reason]
Least(S)       == Min(S)

\* The maximal runs of a set of offsets, in order.
Runs(S) ==
    LET starts == Ascending({i \in S : i - 1 \notin S})
        ends   == Ascending({i \in S : i + 1 \notin S})
    IN [k \in DOMAIN starts |-> [start |-> starts[k], end |-> ends[k]]]
Body(p) == UNION {u.at..u.end : u \in ToSet(Code(p))}

FunctionDetails(p, r, time) ==
    LET body   == Runs(Body(p))
        inTime == time >= Min({p.size, r.limit})
    IN [address |-> r.address, body |-> Take(body, 0, r.limit),
        body_size |-> Cardinality(Body(p)), body_range_count |-> Len(body),
        rows |-> Take(Numbers(p.size), 0, Min({r.limit, time})), variable_count |-> p.size,
        status |-> Status(IF ~ inTime THEN "time_limit"
                          ELSE IF Max({p.size, Len(body)}) > r.limit THEN "item_limit"
                          ELSE "none")]

\* The continuation is the first instruction that was not scanned.
CursorAfter(ins, scanned) == ins[scanned + 1].at
From(r) == IF r.cursor # None THEN r.cursor ELSE IF r.start # None THEN r.start ELSE 0
Upto(r) == IF r.end # None THEN r.end ELSE MaxOffset

\* The three searches: p.marks are the offsets of the instructions that match.
Search(p, r, time) ==
    LET ins     == CodeAt(p, From(r)..Upto(r))
        hits(n) == Chosen(ins, {i \in 1..n : ins[i].at \in p.marks})
        full    == {n \in DOMAIN ins : Len(hits(n)) = r.limit}
        scanned == Least({Len(ins), time, r.scan_limit} \cup full)
        reason  == IF scanned = Len(ins) THEN "none"
                   ELSE IF scanned = time THEN "time_limit"
                   ELSE IF scanned \in full THEN "result_limit" ELSE "scan_limit"
    IN [rows |-> hits(scanned), scanned |-> scanned, status |-> Status(reason),
        cursor |-> IF reason = "none" THEN None ELSE CursorAfter(ins, scanned)]

EarlierEnd(a, b) == a[1] < b[1] \/ (a[1] = b[1] /\ a[2] < b[2])
\* References in a range: each marked offset has p.size of them.  The place to
\* go on is an offset and the number of its references already returned.
\* A place behind the references that the cursor's own offset has now is refused.
RangeAnswers(p, r) ==
    /\ r.cursor_offset <= IF r.cursor \in p.marks THEN p.size ELSE 0
    /\ p.marks \cap (From(r)..r.end) # {} => p.size <= LastReference
ReferencesRange(p, r, time) ==
    LET \* Without those of the cursor's own offset that were returned before.
        left    == Ranked({end \in (p.marks \cap (From(r)..r.end)) \X (1..p.size) :
                            end[1] = r.cursor => end[2] > r.cursor_offset}, EarlierEnd)
        scanned == Least({Len(left), time, r.limit, r.scan_limit})
        reason  == IF scanned = Len(left) THEN "none"
                   ELSE IF scanned = time THEN "time_limit"
                   ELSE IF scanned = r.limit THEN "result_limit" ELSE "scan_limit"
    IN [start |-> r.start, end |-> r.end, direction |-> r.direction,
        rows |-> Take(left, 0, scanned), scanned |-> scanned, status |-> Status(reason),
        cursor |-> IF reason = "none" THEN None ELSE left[scanned + 1][1],
        cursor_offset |-> IF reason = "none" THEN 0 ELSE left[scanned + 1][2] - 1]

-----------------------------------------------------------------------------
(* Call graphs: breadth first from the root function, within limits on        *)
(* depth, nodes and edges.                                                  *)

NewGraph(root) ==
    [nodes |-> <<root>>, depth |-> [f \in {root} |-> 0], edges |-> <<>>,
     queue |-> <<root>>, frontier |-> <<>>, depthLimit |-> FALSE, reason |-> "none"]

CallsFrom(p, f) ==
    LET to == Ascending({c[2] : c \in {d \in p.calls : d[1] = f}})
    IN [i \in DOMAIN to |-> <<f, to[i]>>]
CallsTo(p, f) ==
    LET from == Ascending({c[1] : c \in {d \in p.calls : d[2] = f}})
    IN [i \in DOMAIN from |-> <<from[i], f>>]
\* Call references of f: the ones from its body, then the ones to its entry.
CallsOf(p, f, direction) ==
    (IF direction # "callers" THEN CallsFrom(p, f) ELSE <<>>)
        \o (IF direction # "callees" THEN CallsTo(p, f) ELSE <<>>)
Neighbour(f, c) == IF c[1] = f THEN c[2] ELSE c[1]
WithDepth(map, key, value) ==
    [x \in DOMAIN map \cup {key} |-> IF x = key THEN value ELSE map[x]]

AddEdge(r, f, g, c) ==
    LET n == Neighbour(f, c)
    IN IF g.reason # "none" \/ c \in ToSet(g.edges) THEN g
       ELSE IF Len(g.edges) = r.max_edges THEN [g EXCEPT !.reason = "edge_limit"]
       ELSE IF n \in ToSet(g.nodes) THEN [g EXCEPT !.edges = Append(@, c)]
       ELSE IF Len(g.nodes) = r.max_nodes THEN [g EXCEPT !.reason = "node_limit"]
       ELSE [g EXCEPT !.edges = Append(@, c), !.nodes = Append(@, n),
                      !.depth = WithDepth(@, n, g.depth[f] + 1), !.queue = Append(@, n)]

\* When a limit ends the work the function and all that still wait are the frontier.
GiveUp(f, g) ==
    IF g.reason = "none" THEN g
    ELSE [g EXCEPT !.frontier = @ \o <<f>> \o g.queue, !.queue = <<>>]
\* As many calls of f as the time is enough for.
FollowCalls(r, f, g, calls, time) ==
    LET n == Min({Len(calls), time})
        followed[k \in 0..n] == IF k = 0 THEN g ELSE AddEdge(r, f, followed[k - 1], calls[k])
    IN GiveUp(f, IF followed[n].reason = "none" /\ n < Len(calls)
                 THEN [followed[n] EXCEPT !.reason = "time_limit"] ELSE followed[n])
\* One function of the queue.
Visit(p, r, direction, g, time) ==
    LET f    == Head(g.queue)
        rest == [g EXCEPT !.queue = Tail(@)]
    IN IF g.depth[f] = r.max_depth
       THEN [rest EXCEPT !.frontier = Append(@, f), !.depthLimit = TRUE]
       ELSE FollowCalls(r, f, rest, CallsOf(p, f, direction), time)

\* As many visits as the time is enough for, and as many calls in each of them.  The
\* limit on scanned references ends the work at the same places, as "scan_limit".
Explore(p, r, direction, root, time) ==
    LET graph[k \in 0..time] ==
            IF k = 0 THEN NewGraph(root)
            ELSE LET g == graph[k - 1]
                 IN IF g.queue = <<>> THEN g ELSE Visit(p, r, direction, g, time)
        last == graph[time]
    IN IF last.queue = <<>> THEN last
       ELSE [last EXCEPT !.reason = "time_limit", !.frontier = @ \o last.queue]

CallGraph(p, r, time) ==
    LET g == Explore(p, r, r.direction, r.address, time)
    IN [address |-> r.address, root |-> r.address, direction |-> r.direction,
        nodes |-> g.nodes, depth |-> g.depth, edges |-> g.edges, frontier |-> g.frontier,
        depth_limit_reached |-> g.depthLimit, rows |-> <<>>, status |-> Status(g.reason)]

\* All simple paths along the edges found, in the order of a search depth first: each
\* path that has not come to the target gives way to the ones that are one step longer.
Longer(g, target, path) ==
    LET next == Ascending({n \in ToSet(g.nodes) : <<path[Len(path)], n>> \in ToSet(g.edges)}
                            \ ToSet(path))
    IN IF path[Len(path)] = target THEN <<path>>
       ELSE [i \in DOMAIN next |-> Append(path, next[i])]
Paths(g, source, target, depth) ==
    LET begun[k \in 0..depth] ==
            IF k = 0 THEN <<<<source>>>>
            ELSE LET before == begun[k - 1]
                 IN FlattenSeq([i \in DOMAIN before |-> Longer(g, target, before[i])])
        all == begun[depth]
    IN Chosen(all, {i \in DOMAIN all : all[i][Len(all[i])] = target})

\* The search for paths goes on with the time that the exploration has left, and
\* takes some of it for each path; a path at the limit is one too many.
CallPaths(p, r, time) ==
    LET g     == Explore(p, r, "callees", r.source, time)
        found == Paths(g, r.source, r.target, r.max_depth)
        left  == IF g.reason = "time_limit" THEN 0 ELSE Max({0, time - Len(g.nodes)})
        reason == IF g.reason # "none" THEN g.reason
                  ELSE IF left <= Min({Len(found), r.max_paths}) THEN "time_limit"
                  ELSE IF Len(found) > r.max_paths THEN "path_limit" ELSE "none"
    IN [source |-> r.source, target |-> r.target, target_function |-> r.target,
        root |-> r.source, direction |-> "callees", nodes |-> g.nodes, depth |-> g.depth,
        edges |-> g.edges, frontier |-> g.frontier, rows |-> Take(found, 0, Min({r.max_paths, left})),
        status |-> Status(reason)]

\* Basic blocks 1..p.size in order, each followed by its destinations; a
\* destination may lie outside the function.
FlowStep(p, r, g, b) ==
    LET out  == CallsFrom(p, b)
        room == r.max_edges - Len(g.edges)
    IN IF g.reason # "none" THEN g
       ELSE IF Len(g.blocks) = r.max_blocks THEN [g EXCEPT !.reason = "block_limit"]
       ELSE [blocks |-> Append(g.blocks, b), edges |-> g.edges \o Take(out, 0, room),
             reason |-> IF Len(out) > room THEN "edge_limit" ELSE "none"]
ControlFlow(p, r, time) ==
    LET blocks == Min({p.size, time})
        flow[b \in 0..blocks] ==
            IF b = 0 THEN [blocks |-> <<>>, edges |-> <<>>, reason |-> "none"]
            ELSE FlowStep(p, r, flow[b - 1], b)
        g    == flow[blocks]
        late == time < p.size /\ g.reason = "none"
    IN [address |-> r.address, rows |-> g.blocks, edges |-> g.edges,
        status |-> Status(IF late THEN "time_limit" ELSE g.reason)]

-----------------------------------------------------------------------------
(* What the MCP server accepts.                                             *)

Early(v, reasons) ==
    v.status.truncated = (v.status.reason # "none")
        /\ (v.status.truncated => v.status.reason \in reasons)
Within(r, at) ==
    /\ r.start # None => at \in r.start..r.end
    /\ r.cursor # None => at >= r.cursor

AcceptsRanges(rows) ==
    \A i \in DOMAIN rows :
        rows[i].start <= rows[i].end /\ (i > 1 => rows[i].start > rows[i - 1].end)
Covered(rows) == SumOf([i \in DOMAIN rows |-> rows[i].end - rows[i].start + 1])
AcceptsDetails(r, v) ==
    /\ v.address = r.address
    /\ Early(v, {"item_limit", "time_limit", "scan_limit"})
    /\ AcceptsRanges(v.body) /\ Len(v.body) <= r.limit
    /\ Covered(v.body) <= v.body_size /\ Len(v.body) <= v.body_range_count
    /\ Len(v.rows) <= r.limit /\ Len(v.rows) <= v.variable_count
    /\ ~ v.status.truncated =>
        /\ Covered(v.body) = v.body_size /\ Len(v.body) = v.body_range_count
        /\ Len(v.rows) = v.variable_count

AcceptsSearch(r, v) ==
    /\ Early(v, {"scan_limit", "result_limit", "time_limit"})
    /\ v.scanned <= r.scan_limit
    /\ Len(v.rows) <= r.limit /\ Len(v.rows) <= v.scanned
    /\ \A i \in DOMAIN v.rows :
        Within(r, v.rows[i].at) /\ (i > 1 => v.rows[i - 1].at < v.rows[i].at)
    /\ v.status.truncated =>
        Within(r, v.cursor) /\ (v.rows # <<>> => v.rows[Len(v.rows)].at < v.cursor)

AcceptsReferencesRange(r, v) ==
    /\ v.start = r.start /\ v.end = r.end /\ v.direction = r.direction
    /\ Early(v, {"scan_limit", "time_limit", "result_limit"})
    /\ v.scanned <= r.scan_limit
    /\ Len(v.rows) <= r.limit /\ Len(v.rows) <= v.scanned
    /\ \A i \in DOMAIN v.rows :
        Within(r, v.rows[i][1]) /\ (i > 1 => v.rows[i - 1][1] <= v.rows[i][1])
    /\ v.status.truncated =>
        /\ Within(r, v.cursor) /\ v.cursor_offset <= LastReference
        /\ v.rows # <<>> => v.rows[Len(v.rows)][1] <= v.cursor

GraphReasons == {"scan_limit", "time_limit", "node_limit", "edge_limit", "path_limit"}
AcceptsGraph(r, direction, v) ==
    LET known == ToSet(v.nodes)
    IN /\ Early(v, GraphReasons)
       /\ v.direction = direction
       /\ Len(v.nodes) \in 1..r.max_nodes /\ Len(v.edges) <= r.max_edges
       /\ \A n \in known : v.depth[n] <= r.max_depth
       /\ IsInjective(v.nodes) /\ v.root \in known
       /\ \A i \in DOMAIN v.edges : {v.edges[i][1], v.edges[i][2]} \subseteq known
       /\ Len(v.frontier) <= Len(v.nodes) /\ ToSet(v.frontier) \subseteq known
AcceptsCallGraph(r, v) == v.address = r.address /\ AcceptsGraph(r, r.direction, v)
AcceptsPath(r, v, path) ==
    /\ Len(path) \in 1..(r.max_depth + 1)
    /\ IsInjective(path) /\ ToSet(path) \subseteq ToSet(v.nodes)
    /\ \A i \in 1..(Len(path) - 1) : <<path[i], path[i + 1]>> \in ToSet(v.edges)
    /\ path[1] = v.root /\ path[Len(path)] = v.target_function
AcceptsCallPaths(r, v) ==
    /\ v.source = r.source /\ v.target = r.target
    /\ AcceptsGraph(r, "callees", v)
    /\ Len(v.rows) <= r.max_paths
    /\ \A i \in DOMAIN v.rows : AcceptsPath(r, v, v.rows[i])

AcceptsControlFlow(r, v) ==
    /\ v.address = r.address
    /\ Early(v, {"scan_limit", "time_limit", "block_limit", "edge_limit", "block_range_limit"})
    /\ Len(v.rows) <= r.max_blocks /\ Len(v.edges) <= r.max_edges
    /\ IsInjective(v.rows)
    /\ \A i \in DOMAIN v.edges : v.edges[i][1] \in ToSet(v.rows)
=============================================================================

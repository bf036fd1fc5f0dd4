------------------------------ MODULE CoreOps ------------------------------
(***************************************************************************)
(* The operations every bridge has had from the start: what the MCP server   *)
(* lets through (domain.rs), what the bridge answers (CommandDispatcher,       *)
(* ExtendedCommands, InspectionCommands) and what the MCP server accepts as      *)
(* an answer (backend.rs, backend/inspection.rs).                             *)
(*                                                                         *)
(* A text is its number of characters and an address its offset in one       *)
(* space of a program.  A native program p is a record: p.top is the last      *)
(* mapped offset, p.units its code units in address order, p.size the number    *)
(* of rows of the native lists, p.marks the offsets that carry something (a      *)
(* comment, a match, a referenced operand).                                   *)
(***************************************************************************)
EXTENDS Integers, Sequences, SequencesExt, FiniteSetsExt

CONSTANTS
    MaxOffset,  \* the last offset of an address space, 2^64 - 1 in the code
    MaxInt,     \* 2^31 - 1: Java's int
    OpLimit     \* P-code operations in one answer, 2048 in the code

ASSUME CoreAssumption ==
    /\ MaxOffset \in Nat /\ MaxInt \in Nat \ {0} /\ OpLimit \in Nat \ {0}

-----------------------------------------------------------------------------
(* domain.rs: the values a request may carry.                               *)

Text(max)      == 1..max
Offset         == 0..MaxOffset
Fits(at, n)    == at + n - 1 <= MaxOffset
Optional(S)    == S \cup {0}
CommentText    == 0..8192
Limit(max)     == 1..max
\* The farthest page of a list that can be asked for.
LastRow        == 1000000
RowOffset      == 0..LastRow

AddressParams == [address : Offset]
ReadBytesParams ==
    {r \in [address : Offset, count : Limit(4096)] : Fits(r.address, r.count)}
MapFileOffsetParams == [file_offset : 0..(MaxOffset \div 2)]
ListFunctionsParams == [offset : 0..MaxInt, limit : Limit(200)]
DisassembleParams   == [address : Offset, count : 1..200]
ReferencesParams    == [address : Offset, direction : {"to", "from"}, limit : 1..500]
SearchBytesParams   == [pattern : 1..256, limit : 1..500]
GetDataParams ==
    [address : Offset, component_offset : 0..MaxInt, component_limit : Limit(128)]
ListSymbolsParams   == [query : Optional(Text(1024)), offset : RowOffset, limit : Limit(500)]
ListStringsParams   == [offset : RowOffset, limit : Limit(500)]

LabelParams   == [address : Offset, name : Text(1024)]
CommentParams == [address : Offset, comment : CommentText]
AnalysisOptionsParams == {r \in [options : SUBSET Text(512)] : r.options # {}}
MemoryBlockParams ==
    {r \in [name : Text(255), address : Offset, size : 1..67108864] :
        Fits(r.address, r.size)}
InstructionsParams ==
    {r \in [address : Offset, length : 1..65536] : Fits(r.address, r.length)}
CreateFunctionParams == [address : Offset, name : Optional(Text(1024))]
TypeSize ==
    [u8 |-> 1, s8 |-> 1, u16 |-> 2, s16 |-> 2, u32 |-> 4, s32 |-> 4, f32 |-> 4,
     u64 |-> 8, s64 |-> 8, f64 |-> 8]
DefineDataParams ==
    {r \in [address : Offset, type_name : DOMAIN TypeSize, count : 1..65536] :
        Fits(r.address, r.count * TypeSize[r.type_name])}

-----------------------------------------------------------------------------
(* What the bridge answers.  Take(s, from, n) is how every native iterator   *)
(* is read: skip, then collect while there is room.                          *)

Take(s, from, n) == SubSeq(s, from + 1, Min({from + n, Len(s)}))
Numbers(n)       == [i \in 1..n |-> i]
\* A set in order: the k-th is the one with k - 1 others before it.
Ranked(S, Precedes(_, _)) ==
    [k \in 1..Cardinality(S) |-> CHOOSE x \in S : Cardinality({y \in S : Precedes(y, x)}) = k - 1]
Ascending(S) == Ranked(S, <)
\* The members of a sequence at some positions, in the sequence's order.
Chosen(s, I) == LET at == Ascending(I) IN [k \in DOMAIN at |-> s[at[k]]]
Mapped(p, at)    == at <= p.top
UnitAt(p, at)    == CHOOSE i \in DOMAIN p.units : at \in p.units[i].at..p.units[i].end
Starts(p, at)    == Mapped(p, at) /\ p.units[UnitAt(p, at)].at = at
\* The sum of a sequence of numbers.
SumOf(s) ==
    LET sum[k \in 0..Len(s)] == IF k = 0 THEN 0 ELSE sum[k - 1] + s[k] IN sum[Len(s)]
\* The instructions that start at one of the offsets.
CodeAt(p, offsets) ==
    Chosen(p.units, {i \in DOMAIN p.units :
                        p.units[i].kind = "instruction" /\ p.units[i].at \in offsets})
Code(p) == CodeAt(p, Offset)

Functions(p, r) ==
    [total |-> p.size, offset |-> r.offset, rows |-> Take(Numbers(p.size), r.offset, r.limit)]
\* list_symbols, list_strings: the loop counts one match more than it keeps and
\* stops there.
Symbols(p, r) ==
    LET matched == Min({p.size, r.offset + r.limit + 1})
    IN [offset |-> r.offset, rows |-> Take(Numbers(p.size), r.offset, r.limit),
        has_more |-> matched > r.offset + r.limit]
Bytes(p, r) ==
    [address |-> r.address, rows |-> [i \in 1..r.count |-> r.address + i - 1]]
Disassembly(p, r) ==
    [address |-> r.address,
     rows |-> Take(CodeAt(p, r.address..MaxOffset), 0, r.count)]
References(p, r) ==
    LET ends == IF r.direction = "to"
                THEN Ascending(p.marks \ {r.address})
                ELSE Numbers(p.size)
    IN [address |-> r.address, direction |-> r.direction, rows |-> Take(ends, 0, r.limit),
        truncated |-> Len(ends) > r.limit]
Matches(p, r) ==
    [rows |-> Take(Ascending(p.marks), 0, r.limit),
     truncated |-> Cardinality(p.marks) > r.limit]
FileOffsets(p, r) ==
    LET found == Ascending({m \in p.marks : m <= r.file_offset})
    IN [file_offset |-> r.file_offset, rows |-> found, ambiguous |-> Len(found) > 1]
\* The data definition that contains the address; p.size components.
Data(p, r) ==
    LET unit  == p.units[UnitAt(p, r.address)]
        found == unit.kind = "data"
        total == IF found THEN p.size ELSE 0
    IN [address |-> r.address, found |-> found, data |-> IF found THEN unit ELSE <<>>,
        total |-> total, component_offset |-> r.component_offset,
        rows |-> Take(Numbers(total), r.component_offset, r.component_limit),
        has_more |-> r.component_offset + Min({r.component_limit, total - r.component_offset})
                        < total]

\* A plausible slip: the limits are met when one instruction goes past them.
PcodeFitsLoosely(done, unit) == done < OpLimit
\* P-code is collected while the next instruction is whole, wanted, and within
\* the limits on operations (varnodes are limited in the same way).
PcodeFits(done, unit) == done + unit.ops <= OpLimit

InstructionAt(p, at) == Starts(p, at) /\ p.units[UnitAt(p, at)].kind = "instruction"
\* The next instruction of a run of code, where it begins behind the one before.
Collect(p, run) ==
    LET unit == p.units[UnitAt(p, run.next)]
    IN IF InstructionAt(p, run.next) /\ PcodeFits(run.done, unit)
       THEN [rows |-> Append(run.rows, unit), done |-> run.done + unit.ops, next |-> unit.end + 1]
       ELSE run
\* As many as there is room for; what does not fit once does not fit later.
CodeFrom(p, at, n) ==
    LET run[k \in 0..n] ==
            IF k = 0 THEN [rows |-> <<>>, done |-> 0, next |-> at] ELSE Collect(p, run[k - 1])
    IN run[n]

Pcode(p, r) ==
    LET run == CodeFrom(p, r.address, r.count)
    IN [address |-> r.address, rows |-> run.rows, operation_count |-> run.done,
        truncation_reason |-> IF ~ InstructionAt(p, run.next) THEN "none"
                              ELSE IF Len(run.rows) = r.count THEN "instruction_count"
                              ELSE "operation_or_varnode_limit"]

-----------------------------------------------------------------------------
(* What the MCP server accepts.                                             *)

\* list_functions (with a total), list_symbols and list_strings (without).
AcceptsPage(r, v) == Len(v.rows) <= r.limit
AcceptsFunctions(r, v) == AcceptsPage(r, v) /\ v.total >= Len(v.rows)
AcceptsBytes(r, v) == v.address = r.address /\ Len(v.rows) = r.count
AcceptsDisassembly(r, v) ==
    /\ v.address = r.address
    /\ Len(v.rows) <= r.count
    /\ \A i \in DOMAIN v.rows : v.rows[i].len > 0
AcceptsReferences(r, v) ==
    v.address = r.address /\ v.direction = r.direction /\ Len(v.rows) <= r.limit
AcceptsMatches(r, v) == Len(v.rows) <= r.limit
AcceptsFileOffsets(r, v) ==
    v.file_offset = r.file_offset /\ v.ambiguous = (Len(v.rows) > 1)
AcceptsReadback(field, r, v) == v.address = r.address /\ v[field] = r[field]

\* A plausible slip: the answer's own place in the list is not compared.
AcceptsAnyData(r, v) == Len(v.rows) <= r.component_limit
AcceptsData(r, v) ==
    /\ v.address = r.address
    /\ v.component_offset = r.component_offset
    /\ v.found => r.address \in v.data.at..v.data.end
    /\ ~ v.found => v.data = <<>> /\ v.total = 0
    /\ Len(v.rows) = Max({0, Min({r.component_limit, v.total - v.component_offset})})
    /\ v.has_more = (v.component_offset + Len(v.rows) < v.total)
    /\ \A i \in DOMAIN v.rows : v.rows[i] = v.component_offset + i

AcceptsPcode(r, v) ==
    LET sum == SumOf([i \in DOMAIN v.rows |-> v.rows[i].ops])
    IN /\ v.address = r.address
       /\ Len(v.rows) <= r.count
       /\ \A i \in DOMAIN v.rows :
            /\ v.rows[i].len > 0
            /\ v.rows[i].at = IF i = 1 THEN r.address ELSE v.rows[i - 1].at + v.rows[i - 1].len
            /\ i < Len(v.rows) => v.rows[i].at + v.rows[i].len <= MaxOffset
       /\ v.operation_count = sum /\ sum <= OpLimit
       /\ v.truncation_reason = "none" => v.rows # <<>>
       /\ v.truncation_reason = "instruction_count" => Len(v.rows) = r.count
=============================================================================

----------------------------- MODULE UtilityOps -----------------------------
(***************************************************************************)
(* Listing, memory, register and annotation operations: the requests          *)
(* (domain/utilities.rs), the bridge's answers (UtilityCommands,                *)
(* ProjectInspectionCommands) and what the MCP server accepts                    *)
(* (backend/utilities.rs).  Native programs and texts are those of CoreOps.      *)
(***************************************************************************)
EXTENDS CoreOps

CONSTANT ScanLimit  \* comments one answer may look at, 10000 in the code

ASSUME UtilityAssumption == ScanLimit \in Nat \ {0}

-----------------------------------------------------------------------------
(* Requests.                                                                *)

Span(max) == {s \in [address : Offset, length : 1..max] : Fits(s.address, s.length)}
InSpan(r, max) == [address |-> r.address, length |-> r.length] \in Span(max)
ListingSpan == 65536
MemorySpan  == 16777216

ListingParams ==
    {r \in [address : Offset, length : 1..ListingSpan, limit : 1..256] : InSpan(r, ListingSpan)}
HashMemoryParams == Span(MemorySpan)
LastRegister == 65536
ProcessorContextParams ==
    [address : Offset, register : Optional(Text(256)), offset : 0..LastRegister,
     limit : Limit(256)]
SetProcessorContextParams ==
    {r \in [address : Offset, length : 1..ListingSpan, register : Text(256), value : Nat] :
        InSpan(r, ListingSpan)}
ListingKind == {"data", "instruction", "any"}
ClearListingParams ==
    {r \in [address : Offset, length : 1..ListingSpan, expected_kind : ListingKind] :
        InSpan(r, ListingSpan)}
ListBookmarksParams == [offset : 0..MaxInt, limit : Limit(256)]
\* An absent text is -1: an empty comment is a text.
Absent         == -1
OptionalText   == CommentText \cup {Absent}
SetBookmarkParams ==
    [address : Offset, bookmark_type : Text(64), category : Text(128),
     comment : CommentText, expected_comment : OptionalText]
DeleteBookmarkParams ==
    [address : Offset, bookmark_type : Text(64), category : Text(128),
     expected_comment : CommentText]
StoredCommentType == {"eol", "pre", "post", "plate", "repeatable"}
ListCommentsParams ==
    {r \in [address : Offset, length : 1..MemorySpan, comment_type : StoredCommentType,
            query : Optional(Text(256)), limit : 1..128] : InSpan(r, MemorySpan)}
CommentUpdate ==
    [address : Offset, comment_type : StoredCommentType, comment : OptionalText,
     expected_comment : OptionalText]
Characters(u) == Max({0, u.comment}) + Max({0, u.expected_comment})
AllCharacters(updates) == SumOf([i \in DOMAIN updates |-> Characters(updates[i])])
BatchCommentsParams ==
    {r \in [updates : Seq(CommentUpdate)] :
        Len(r.updates) \in 1..64 /\ AllCharacters(r.updates) <= 65536}
UpdateFunctionTagsParams ==
    {r \in [address : Offset, add : Seq(Text(128)), remove : Seq(Text(128))] :
        /\ Len(r.add) <= 32 /\ Len(r.remove) <= 32
        /\ r.add \o r.remove # <<>>
        /\ IsInjective(r.add \o r.remove)}
RenameUpdate ==
    [kind : {"function", "label"}, address : Offset, name : Text(200),
     expected_name : Optional(Text(200))]
BatchRenameParams ==
    {r \in [updates : Seq(RenameUpdate)] : Len(r.updates) \in 1..64}
CompareProgramMemoryParams ==
    {r \in [address : Offset, other_address : Offset, other_program_path : Text(4096),
            length : Limit(1048576), limit : 1..256] :
        InSpan(r, 1048576) /\ Fits(r.other_address, r.length)}
CompareSavedFunctionParams ==
    [address : Offset, other_address : Offset, other_program_path : Text(4096),
     max_instructions : Limit(4096)]

-----------------------------------------------------------------------------
(* Answers of the reads.                                                    *)

EndOf(r)          == r.address + r.length - 1
Region(p, r)     == EndOf(r) <= p.top
NextOffset(at)   == IF at = MaxOffset THEN Absent ELSE at + 1

\* Code units from the one that contains the start; it may begin before it.
Listing(p, r) ==
    LET first == UnitAt(p, r.address)
        wanted == Chosen(p.units, {i \in first..Len(p.units) : p.units[i].at <= EndOf(r)})
        rows  == Take(wanted, 0, r.limit)
        next  == NextOffset(rows[Len(rows)].end)
        more  == next # Absent /\ next <= EndOf(r)
    IN [address |-> r.address, end |-> EndOf(r), rows |-> rows, truncated |-> more,
        next_address |-> IF more THEN next ELSE Absent]

Hash(p, r) == [address |-> r.address, length |-> r.length]

\* Decoding needs no listing: here the bytes decode as the units are cut, from
\* the start of any unit, and not inside data.
Decodes(p, at) == Starts(p, at) /\ p.units[UnitAt(p, at)].kind # "data"
\* The units that decode one after the other from an offset, at most n.
Decode(p, at, n) ==
    LET decoded[k \in 0..n] ==
            IF k = 0 THEN <<>>
            ELSE LET before == decoded[k - 1]
                     next   == IF before = <<>> THEN at ELSE before[Len(before)].end + 1
                 IN IF Len(before) = k - 1 /\ Decodes(p, next)
                    THEN Append(before, p.units[UnitAt(p, next)]) ELSE before
    IN decoded[n]
Preview(p, r) ==
    LET rows   == Decode(p, r.address, r.count)
        cursor == IF rows = <<>> THEN r.address ELSE NextOffset(rows[Len(rows)].end)
    IN [address |-> r.address, rows |-> rows, next_address |-> cursor,
        stop_reason |-> IF cursor = Absent \/ ~ Mapped(p, cursor) THEN "memory_end"
                        ELSE IF Len(rows) = r.count THEN "count_limit" ELSE "decode_failed"]

\* Register names are found whatever their case: here 1 and 2 are two ways to
\* write the name whose native spelling is 1.
Native(name) == IF name = 2 THEN 1 ELSE name
Context(p, r) ==
    LET names == IF r.register # 0 THEN <<Native(r.register)>> ELSE Numbers(p.size)
        rows  == Take(names, r.offset, r.limit)
    IN [address |-> r.address, offset |-> r.offset, rows |-> rows, total |-> Len(names),
        has_more |-> r.offset + Len(rows) < Len(names)]

Bookmarks(p, r) ==
    LET rows == Take(Numbers(p.size), r.offset, r.limit)
        more == r.offset + Len(rows) < p.size
    IN [offset |-> r.offset, rows |-> rows, has_more |-> more,
        next_offset |-> IF more THEN r.offset + Len(rows) ELSE Absent]

\* A plausible slip: the scan continues at the last comment seen, not after it.
AtMark(at) == at
AfterMark(at) == NextOffset(at)
\* The texts at even offsets contain the query.
TextContains(query, at) == query = 0 \/ at % 2 = 0
Comments(p, r) ==
    LET stored  == Ascending({m \in p.marks : m \in r.address..EndOf(r)})
        found(k) == Chosen(stored, {i \in 1..k : TextContains(r.query, stored[i])})
        scanned == Min({ScanLimit, Len(stored)}
                        \cup {k \in DOMAIN stored : Len(found(k)) = r.limit})
        more    == scanned < Len(stored)
    IN [address |-> r.address, end |-> EndOf(r), comment_type |-> r.comment_type,
        rows |-> found(scanned), scanned |-> scanned, truncated |-> more,
        next_address |-> IF more THEN AfterMark(stored[scanned]) ELSE Absent]

\* compareMemory: one pass over the window; d are the offsets that differ.
Close(s, i) ==
    [s EXCEPT !.open = -1, !.runs = Append(@, [offset |-> s.open, length |-> i - s.open])]
ScanByte(d, len, s, i) ==
    LET opened == IF i \in d
                  THEN [s EXCEPT !.open = IF @ = -1 THEN i ELSE @, !.changed = @ + 1]
                  ELSE s
    IN IF opened.open # -1 /\ (i \notin d \/ i + 1 = len)
       THEN Close(opened, IF i \in d THEN i + 1 ELSE i) ELSE opened
Differences(p, r) ==
    LET d    == {i \in 0..(r.length - 1) : r.address + i \in p.marks}
        scanned[i \in 0..r.length] ==
            IF i = 0 THEN [open |-> -1, runs |-> <<>>, changed |-> 0]
            ELSE ScanByte(d, r.length, scanned[i - 1], i - 1)
        scan == scanned[r.length]
        At(x) == [offset |-> x.offset, length |-> x.length,
                  address |-> r.address + x.offset,
                  other_address |-> r.other_address + x.offset]
        rows == [k \in DOMAIN scan.runs |-> At(scan.runs[k])]
    IN [address |-> r.address, other_address |-> r.other_address, length |-> r.length,
        other_program_path |-> r.other_program_path, changed_bytes |-> scan.changed,
        rows |-> Take(rows, 0, r.limit), total_changed_ranges |-> Len(rows),
        truncated |-> Len(rows) > r.limit]

-----------------------------------------------------------------------------
(* What the MCP server accepts of the reads.                                *)

RequestedEnd(r, v) == v.address = r.address /\ v.end = EndOf(r)

AcceptsListing(r, v) ==
    /\ RequestedEnd(r, v)
    /\ Len(v.rows) <= r.limit
    /\ \A i \in DOMAIN v.rows :
        LET u == v.rows[i]
        IN /\ u.at <= EndOf(r) /\ u.end >= r.address /\ u.at <= u.end
           /\ i > 1 => u.at > v.rows[i - 1].end
           /\ u.len = u.end - u.at + 1
           /\ u.kind \in {"data", "instruction", "undefined"}
AcceptsHash(r, v) == v.address = r.address /\ v.length = r.length

NextFits(v, i) == v.rows[i].at + v.rows[i].len <= MaxOffset
AcceptsPreview(r, v) ==
    /\ v.address = r.address
    /\ Len(v.rows) <= r.count
    /\ \A i \in DOMAIN v.rows :
        /\ v.rows[i].at = IF i = 1 THEN r.address ELSE v.rows[i - 1].at + v.rows[i - 1].len
        /\ v.rows[i].len > 0
        /\ NextFits(v, i)

AcceptsContext(r, v) ==
    /\ v.address = r.address /\ v.offset = r.offset
    /\ Len(v.rows) = Max({0, Min({r.limit, v.total - r.offset})})
    /\ v.has_more = (r.offset + Len(v.rows) < v.total)
    /\ r.register # 0 =>
        v.total = 1 /\ \A i \in DOMAIN v.rows : v.rows[i] = r.register
AcceptsBookmarks(r, v) ==
    /\ v.offset = r.offset
    /\ Len(v.rows) <= r.limit
    /\ v.next_offset = IF v.has_more THEN r.offset + Len(v.rows) ELSE Absent
AcceptsComments(r, v) ==
    /\ RequestedEnd(r, v)
    /\ v.comment_type = r.comment_type
    /\ Len(v.rows) <= r.limit /\ v.scanned <= ScanLimit

AcceptsDifferences(r, v) ==
    LET total == v.total_changed_ranges
        sum   == SumOf([i \in DOMAIN v.rows |-> v.rows[i].length])
    IN /\ v.address = r.address /\ v.length = r.length
       /\ v.other_program_path = r.other_program_path
       /\ v.other_address = r.other_address
       /\ v.changed_bytes \in 0..r.length /\ total \in 0..r.length
       /\ Len(v.rows) <= r.limit
       /\ total >= Len(v.rows) /\ v.truncated = (total > Len(v.rows))
       /\ \A i \in DOMAIN v.rows :
            LET x == v.rows[i]
            IN /\ x.length > 0 /\ x.offset + x.length <= r.length
               /\ i > 1 => x.offset >= v.rows[i - 1].offset + v.rows[i - 1].length
               /\ x.address = r.address + x.offset
               /\ x.other_address = r.other_address + x.offset
       /\ v.changed_bytes >= sum
       /\ total = Len(v.rows) => v.changed_bytes = sum
=============================================================================

------------------------------ MODULE TypeOps ------------------------------
(***************************************************************************)
(* Data types and variables: the requests (domain/types.rs), the bridge's      *)
(* answers (TypeCommands) and what the MCP server accepts (backend/types.rs).    *)
(*                                                                         *)
(* A native type is [kind, path, length, fields]; a path is the sequence of    *)
(* its parts: u8, u8 * for a pointer, u8 [2] [4] for an array of two arrays of     *)
(* four.  A field is [offset, name, type, length, comment], where comment is a     *)
(* text or None.                                                              *)
(***************************************************************************)
EXTENDS ResearchOps

CONSTANTS
    FieldLimit,  \* components of one answer, 256 in the code
    MaxSize      \* bytes of a type, 2^20 in the code

ASSUME TypeAssumption == FieldLimit \in Nat \ {0} /\ MaxSize \in Nat \ {0}

-----------------------------------------------------------------------------
(* Requests.                                                                *)

Name         == Text(200)
TypePath     == Text(1024)
NewPath      == Text(1024)
FieldOffset  == 0..1048575
FieldComment == 0..4096 \cup {None}

Builtin(name)    == [kind |-> "builtin", name |-> name]
Pointer(to)      == [kind |-> "pointer", to |-> to]
ArrayOf(d, n)    == [kind |-> "array", element |-> d, count |-> n]
BuiltinNames     == DOMAIN TypeSize
\* A type descriptor from the outside in, as far as it is looked at: each pointer
\* and array is followed by what it is about.
Levels(d) ==
    LET levels[n \in 0..5] ==
            IF n = 0 THEN <<d>>
            ELSE LET outer == levels[n - 1]
                     last  == outer[Len(outer)]
                 IN CASE last.kind = "pointer" -> Append(outer, last.to)
                      [] last.kind = "array"   -> Append(outer, last.element)
                      [] OTHER                 -> outer
    IN levels[5]
\* At most four levels below the first, void only where something points to it or
\* a function returns it.
Descriptor(d, allowVoid) ==
    LET levels == Levels(d)
        inner  == levels[Len(levels)]
        void   == IF Len(levels) = 1 THEN allowVoid ELSE levels[Len(levels) - 1].kind = "pointer"
    IN /\ Len(levels) <= 5
       /\ \A i \in DOMAIN levels : levels[i].kind = "array" => levels[i].count \in 1..65536
       /\ \/ inner.kind = "builtin" /\ (inner.name \in BuiltinNames \/ (void /\ inner.name = "void"))
          \/ inner.kind = "path" /\ inner.path # <<>>
DataType(d) == Descriptor(d, FALSE)

VariableSelector == [symbol_id : Nat, name : Text(1024), storage : Text(2048)]
FunctionVariablesParams == [address : Offset, offset : RowOffset, limit : Limit(200)]
RenameVariableParams(r) ==
    r.address \in Offset /\ r.selector \in VariableSelector /\ r.name \in Name
SetVariableTypeParams(r) ==
    r.address \in Offset /\ r.selector \in VariableSelector /\ DataType(r.data_type)
Distinct(field, s) == \A i, j \in DOMAIN s : s[i][field] = s[j][field] => i = j
FunctionSignatureParams(r) ==
    /\ r.address \in Offset
    /\ Descriptor(r.return_type, TRUE)
    /\ Len(r.parameters) <= 64 /\ Distinct("name", r.parameters)
    /\ \A i \in DOMAIN r.parameters :
        r.parameters[i].name \in Name /\ DataType(r.parameters[i].data_type)
ListDataTypesParams ==
    [query : Optional(Text(1024)), offset : RowOffset, limit : Limit(200)]
CreateStructureParams(r) ==
    /\ r.path \in NewPath
    /\ r.size \in 1..1048576 /\ Len(r.fields) <= 256
    /\ Distinct("name", r.fields) /\ Distinct("offset", r.fields)
    /\ \A i \in DOMAIN r.fields :
        LET f == r.fields[i]
        IN f.name \in Name /\ DataType(f.data_type) /\ f.comment \in FieldComment
              /\ f.offset \in 0..(r.size - 1)
SetStructureFieldParams(r) ==
    /\ r.path \in TypePath /\ r.name \in Name /\ r.expected_name \in Text(1024)
    /\ r.offset \in FieldOffset
    /\ DataType(r.data_type) /\ r.comment \in FieldComment
\* The range a member's value has to lie in: signed when any value is negative.
EnumRange(size, members) ==
    LET half == 2 ^ (8 * size - 1)
    IN IF \E i \in DOMAIN members : members[i].value < 0 THEN -half..(half - 1)
       ELSE 0..(2 * half - 1)
CreateEnumParams(r) ==
    /\ r.path \in NewPath /\ r.size \in {1, 2, 4, 8} /\ Len(r.members) \in 1..256
    /\ Distinct("name", r.members)
    /\ r.size = 1 => \A i \in DOMAIN r.members : r.members[i].value \in EnumRange(1, r.members)
CreateUnionParams(r) ==
    /\ r.path \in NewPath /\ Len(r.fields) \in 1..256 /\ Distinct("name", r.fields)
    /\ \A i \in DOMAIN r.fields : DataType(r.fields[i].data_type)
CreateTypedefParams(r) == r.path \in NewPath /\ DataType(r.data_type)
ApplyDataTypeParams(r) == r.address \in Offset /\ DataType(r.data_type)
StructureFieldReferencesParams(r) ==
    r.address \in Offset /\ r.path \in TypePath /\ r.field_offset \in FieldOffset
        /\ r.limit \in 1..200

-----------------------------------------------------------------------------
(* Native types.  PointerSize is the program's.                              *)

PointerSize == 4
LengthAround(d, inner) ==
    CASE d.kind = "builtin" -> TypeSize[d.name]
      [] d.kind = "path"    -> 1
      [] d.kind = "pointer" -> PointerSize
      [] d.kind = "array"   -> d.count * inner
LengthOf(d) == FoldRight(LengthAround, Levels(d), 0)
NamePart(name) == [name |-> name]
Times(count) == [times |-> count]
Star == NamePart("*")
\* Ghidra's name of an array of arrays has the outer count first; what is
\* counted starts behind the last part that is not a count.
Counts(path) == Max({i \in DOMAIN path : "times" \notin DOMAIN path[i]})
PathAround(d, inner) ==
    CASE d.kind = "builtin" -> <<NamePart(d.name)>>
      [] d.kind = "path"    -> d.path
      [] d.kind = "pointer" -> Append(inner, Star)
      [] d.kind = "array"   -> InsertAt(inner, Counts(inner) + 1, Times(d.count))
NativePath(d) == FoldRight(PathAround, Levels(d), <<>>)
FieldOf(f) == [offset |-> f.offset, name |-> f.name, type |-> NativePath(f.data_type),
               length |-> LengthOf(f.data_type), comment |-> f.comment]
InOrder(fields) == SortSeq(fields, LAMBDA f, g : f.offset < g.offset)
Disjoint(fields) ==
    \A i \in DOMAIN fields : i + 1 \in DOMAIN fields =>
        fields[i].offset + fields[i].length <= fields[i + 1].offset
\* A plausible slip: the fields' sizes are not looked at.
FitsByOffset(size, fields) == \A i \in DOMAIN fields : fields[i].offset < size
\* createType: every field inside the structure, and none over another.
FitsStructure(size, fields) ==
    /\ \A i \in DOMAIN fields : fields[i].offset + fields[i].length <= size
    /\ Disjoint(fields)
Structure(r) ==
    [kind |-> "structure", path |-> r.path, length |-> r.size,
     fields |-> InOrder([i \in DOMAIN r.fields |-> FieldOf(r.fields[i])])]
\* replaceAtOffset; a comment that is not given stays.
Replace(t, i, r) ==
    [t EXCEPT !.fields[i] =
        [FieldOf(r) EXCEPT !.comment = IF r.comment = None THEN t.fields[i].comment ELSE @]]

-----------------------------------------------------------------------------
(* Answers of the reads.                                                    *)

\* typeInfo: at most FieldLimit components.
TypeInfo(t) ==
    [path |-> t.path, kind |-> t.kind, length |-> t.length,
     components |-> Take(t.fields, 0, FieldLimit), component_count |-> Len(t.fields),
     components_truncated |-> Len(t.fields) > FieldLimit]
    @@ (IF t.kind = "typedef" THEN [target |-> t.target] ELSE <<>>)

\* listTypes counts a match before it finds that the page is full.
MoreThan(matched, r) == matched > r.offset + r.limit
DataTypes(p, r) ==
    LET matched == Min({p.size, r.offset + r.limit + 1})
    IN [offset |-> r.offset, query |-> r.query,
        rows |-> Take(Numbers(p.size), r.offset, r.limit), has_more |-> MoreThan(matched, r)]
Variables(p, r) ==
    LET rows == Take(Numbers(p.size), r.offset, r.limit)
    IN [address |-> r.address, offset |-> r.offset, total |-> p.size, rows |-> rows,
        has_more |-> r.offset + Len(rows) < p.size]
FieldReferences(p, r) ==
    LET found == Ascending(p.marks)
    IN [address |-> r.address, path |-> r.path, field_offset |-> r.field_offset,
        rows |-> Take(found, 0, r.limit), truncated |-> Len(found) > r.limit]

-----------------------------------------------------------------------------
(* What the MCP server accepts.                                             *)

\* A plausible slip: the counts are written inner first.
SpelledInnerFirst(d, inner) ==
    CASE d.kind = "builtin" -> <<NamePart(d.name)>>
      [] d.kind = "path"    -> d.path
      [] d.kind = "pointer" -> Append(inner, Star)
      [] d.kind = "array"   -> Append(inner, Times(d.count))
DescriptorPathInnerFirst(d) == FoldRight(SpelledInnerFirst, Levels(d), <<>>)
\* descriptor_path: an array's counts in the order they are nested, behind the
\* path of what is no array any more.
Spelled(d, inner) ==
    CASE d.kind = "builtin" -> [path |-> <<NamePart(d.name)>>, counts |-> <<>>]
      [] d.kind = "path"    -> [path |-> d.path, counts |-> <<>>]
      [] d.kind = "pointer" ->
            [path |-> Append(inner.path \o inner.counts, Star), counts |-> <<>>]
      [] d.kind = "array"   -> [inner EXCEPT !.counts = <<Times(d.count)>> \o @]
DescriptorPath(d) ==
    LET spelled == FoldRight(Spelled, Levels(d), <<>>) IN spelled.path \o spelled.counts
SameType(path, d) == path = DescriptorPath(d)

AcceptsTypeInfo(t) ==
    /\ Len(t.components) = Min({t.component_count, FieldLimit})
    /\ t.components_truncated = (t.component_count > FieldLimit)
    /\ t.kind \notin {"structure", "union", "enum"} => t.component_count = 0
    /\ Distinct("name", t.components)
    /\ \A i \in DOMAIN t.components :
        LET c == t.components[i]
        IN c.offset + c.length <= t.length /\ (t.kind = "union" => c.offset = 0)
AcceptsStructure(r, t) ==
    /\ AcceptsTypeInfo(t) /\ t.path = r.path
    /\ t.kind = "structure" /\ t.length = r.size
    /\ Len(t.components) = Len(r.fields) /\ ~ t.components_truncated
    /\ \A i \in DOMAIN r.fields : \E k \in DOMAIN t.components :
        LET c == t.components[k]
            f == r.fields[i]
        IN c.name = f.name /\ SameType(c.type, f.data_type) /\ c.offset = f.offset
              /\ c.comment = f.comment
AcceptsField(r, t) ==
    LET at == {k \in DOMAIN t.components : t.components[k].offset = r.offset}
    IN /\ AcceptsTypeInfo(t) /\ t.path = r.path /\ t.kind = "structure"
       /\ at # {}
       /\ LET c == t.components[Min(at)]
          IN c.name = r.name /\ SameType(c.type, r.data_type)
                /\ (r.comment # None => c.comment = r.comment)

AcceptsDataTypes(r, v) ==
    /\ v.offset = r.offset /\ Len(v.rows) <= r.limit
    /\ v.has_more => Len(v.rows) = r.limit
    /\ v.query = r.query \* every row's path contains the query
AcceptsVariables(r, v) ==
    /\ v.address = r.address /\ v.offset = r.offset
    /\ Len(v.rows) = Min({r.limit, Max({0, v.total - v.offset})})
    /\ v.has_more = (v.offset + Len(v.rows) < v.total)
    /\ IsInjective(v.rows)
AcceptsFieldReferences(r, v) ==
    /\ v.address = r.address /\ v.path = r.path /\ v.field_offset = r.field_offset
    /\ Len(v.rows) <= r.limit /\ IsInjective(v.rows)
=============================================================================

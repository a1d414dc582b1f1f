----------------------------- MODULE JsonCodec -----------------------------
(***************************************************************************)
(* What serde makes of the printed types (the derives and attributes that  *)
(* rpc/codegen/src/printer.rs writes): reading a value of a type from a    *)
(* JSON document, and writing it.  The types that are not printed are      *)
(* those of rpc/api/src/byte.rs and type_id.rs, of ethereum_types and of   *)
(* Rust.  `types` is a table of the printed types by name.                 *)
(***************************************************************************)
EXTENDS JsonDocs, SchemaTypes

\* A value: of a type that is not printed, as its JSON document; a list, a
\* struct by pairs of a field and its value, the `index`th variant of a union.
Value(kind) == [kind |-> kind, json |-> JsonNull, items |-> <<>>, fields |-> {}, index |-> 0]
Failed == Value("failed")
None == Value("none")
Plain(j) == [Value("plain") EXCEPT !.json = j]
List(vs) == IF \E i \in DOMAIN vs : vs[i] = Failed THEN Failed ELSE [Value("list") EXCEPT !.items = vs]
Variant(i, v) == [Value("variant") EXCEPT !.index = i, !.items = <<v>>]
StructValue(fs) ==
    IF \E f \in fs : f[2] = Failed THEN Failed ELSE [Value("struct") EXCEPT !.fields = fs]
OkIf(cond, v) == IF cond THEN v ELSE Failed

\* Variant with a bug: the zeros are kept.
Padded(j) == j

\* A number forgets the zeros it was written with.
Minimal(j) == IF j.value = 0 THEN JsonHex(1, 1, 0) ELSE JsonHex(j.digits - j.zeros, 0, j.value)

\* byte.rs (`from_hex`) and type_id.rs (`Deserialize`).
ReadHex(name, j) ==
    CASE name = "Byte" -> OkIf(j.digits > 0 /\ j.digits - j.zeros <= 2, Plain(Minimal(j)))
      [] name = "Bytes" -> OkIf(j.digits % 2 = 0, Plain(j))
      [] name = "Bytes256" -> OkIf(j.digits = 512, Plain(j))
      [] name = "Type0" -> OkIf(j = JsonHex(1, 1, 0), Plain(j))
      [] name = "Type1" -> OkIf(j = JsonHex(1, 0, 1), Plain(j))
      [] name = "Type2" -> OkIf(j = JsonHex(1, 0, 2), Plain(j))

\* ethereum_types: at most 32 bytes for a number, exactly 20 and 32 for the rest.
ReadExternal(name, j) ==
    CASE name = "U256" -> OkIf(j.kind = "hex" /\ j.digits \in 1..64, Plain(Minimal(j)))
      [] name = "H256" -> OkIf(j.kind = "hex" /\ j.digits = 64, Plain(j))
      [] name = "Address" -> OkIf(j.kind = "hex" /\ j.digits = 40, Plain(j))
      [] name = "String" -> OkIf(j.kind \in {"hex", "text"}, Plain(j))
      [] name = "bool" -> OkIf(j.kind = "bool", Plain(j))

HexTypes == {"Byte", "Bytes", "Bytes256", "Type0", "Type1", "Type2"}

\* Variant with a bug: legacy names are not known.
KeysWithoutAlias(f) == {f.name}

\* Members under which a field is found.
Keys(f) == {f.name} \cup ({f.alias} \ {""})
OwnKeys(fields) == UNION {Keys(f) : f \in {g \in fields : ~g.flatten}}

\* Of pairs of an index and a value, the one with the least index.
FirstRead(vs) == CHOOSE v \in vs : \A w \in vs : v[1] <= w[1]

RECURSIVE Read(_, _, _)
Read(types, info, j) ==
    LET one == [info EXCEPT !.array = FALSE, !.required = "yes"]

        \* A member that is there twice is an error, one that is not is None.
        Member(f) ==
            LET there == Keys(f) \cap DOMAIN j.members IN
            IF there = {} THEN OkIf(IsOptional(f.type), None)
            ELSE OkIf(Cardinality(there) = 1, Read(types, f.type, j.members[CHOOSE k \in there : TRUE]))

        ReadStruct(fields) ==
            IF j.kind # "object" THEN Failed
            ELSE StructValue({<<f, IF f.flatten THEN Read(types, f.type, Without(j, OwnKeys(fields)))
                                   ELSE Member(f)>> : f \in fields})

        ReadUnion(variants) ==
            LET vs == {v \in {<<i, Read(types, variants[i], j)>> : i \in DOMAIN variants} : v[2] # Failed} IN
            IF vs = {} THEN Failed ELSE LET v == FirstRead(vs) IN Variant(v[1], v[2])

        ReadType(t) ==
            CASE t.kind = "struct" -> ReadStruct(t.fields)
              [] t.kind = "enum" -> ReadUnion(t.variants)
              [] t.kind = "alias" -> Read(types, t.variants[1], j)
              [] t.kind = "strings" -> OkIf(j.kind = "text" /\ j.text \in Range(t.variants), Plain(j))
    IN
    IF IsOptional(info) THEN IF j = JsonNull THEN None ELSE Read(types, [info EXCEPT !.required = "yes"], j)
    ELSE IF info.array
         THEN IF j.kind = "array" THEN List([i \in DOMAIN j.elements |-> Read(types, one, j.elements[i])])
              ELSE Failed
    ELSE IF info.name \in DOMAIN types THEN ReadType(types[info.name])
    ELSE IF info.name \in HexTypes THEN OkIf(j.kind = "hex", ReadHex(info.name, j))
    ELSE ReadExternal(info.name, j)

\* Members of a struct: a None that is skipped is not there.
RECURSIVE Write(_, _, _)
Write(types, info, v) ==
    LET one == [info EXCEPT !.array = FALSE, !.required = "yes"]

        WriteStruct(fields) ==
            LET written == {<<f[1].name, Write(types, f[1].type, f[2])>> : f \in
                               {g \in fields : ~g[1].flatten /\ ~(g[1].type.required = "skip" /\ g[2] = None)}}
                own == JsonObject([p \in {w[1] : w \in written} |-> (CHOOSE w \in written : w[1] = p)[2]])
                flat == {Write(types, f[1].type, f[2]) : f \in {g \in fields : g[1].flatten}}
            IN  IF flat = {} THEN own ELSE Merged(<<own, CHOOSE j \in flat : TRUE>>)

        WriteType(t) ==
            CASE t.kind = "struct" -> WriteStruct(v.fields)
              [] t.kind = "enum" -> Write(types, t.variants[v.index], v.items[1])
              [] t.kind = "alias" -> Write(types, t.variants[1], v)
              [] t.kind = "strings" -> v.json
    IN
    IF v = None THEN JsonNull
    ELSE IF info.array THEN JsonArray([i \in DOMAIN v.items |-> Write(types, one, v.items[i])])
    ELSE IF info.name \in DOMAIN types THEN WriteType(types[info.name])
    ELSE v.json
=============================================================================

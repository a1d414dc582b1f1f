---------------------------- MODULE SchemaTypes ----------------------------
(***************************************************************************)
(* The Rust type the code generator makes of a schema: `type_info` and     *)
(* `generate_type` of rpc/codegen/src/generator.rs, and what               *)
(* rpc/codegen/src/printer.rs makes of fields and variants.                *)
(*                                                                         *)
(* `type_info` does two things at once.  `TypeInfo` is what it returns,    *)
(* `Mentions` what it hands to `collect`.                                  *)
(***************************************************************************)
EXTENDS OpenRpc, FiniteSets

Range(s) == {s[i] : i \in DOMAIN s}

\* PRIMITIVE_MAPPINGS
PrimitiveMappings ==
    [address |-> "Address", byte |-> "Byte", bytes |-> "Bytes", bytes256 |-> "Bytes256",
     hash32 |-> "H256", bytes32 |-> "H256", bytes8 |-> "String", uint |-> "U256",
     uint256 |-> "U256", uint64 |-> "U256"]

\* `to_pascal_case` of a component's name.
PascalCase(n) ==
    LET renamed == [notFound |-> "NotFound", addresses |-> "Addresses", bytesMax32 |-> "BytesMax32",
                    ratio |-> "Ratio",
                    address |-> "Address", byte |-> "Byte", bytes |-> "Bytes", bytes256 |-> "Bytes256",
                    hash32 |-> "Hash32", bytes32 |-> "Bytes32", bytes8 |-> "Bytes8", uint |-> "Uint",
                    bytes48 |-> "Bytes48", bytes65 |-> "Bytes65", bytes96 |-> "Bytes96",
                    uint256 |-> "Uint256", uint64 |-> "Uint64"]
    IN  IF n \in DOMAIN renamed THEN renamed[n] ELSE n

ReferenceToName(n) ==
    IF n \in DOMAIN PrimitiveMappings THEN PrimitiveMappings[n] ELSE PascalCase(n)

\* Names that `TypeGenerator::new` takes for generated already.  `type_info`
\* hands only names of references and of unions to `collect`.
Builtin ==
    {"NotFound"} \cup Range(PrimitiveMappings)
    \cup {ReferenceToName(n) : n \in DOMAIN PrimitiveMappings}

\* `Required`: "yes", or an Option that is skipped or written as null when it is
\* None.
TypeNamed(n) == [name |-> n, array |-> FALSE, required |-> "yes"]
\* Variant with a bug: only what may be null is an Option.
IsNullable(info) == info.required = "null"

IsOptional(info) == info.required # "yes"
SetRequired(info, required) == [info EXCEPT !.required = IF required THEN "yes" ELSE "skip"]

DigitTypes == [p \in {"0x0", "0x1", "0x2"} |->
                 CASE p = "0x0" -> "Type0" [] p = "0x1" -> "Type1" [] p = "0x2" -> "Type2"]

Union(s) == s.kind \in {"anyOf", "oneOf"}
Dropped(info) == info.name \in {"Null", "NotFound"}
KeptOf(infos) == SelectSeq(infos, LAMBDA i : ~Dropped(i))

RECURSIVE Join(_, _)
Join(names, sep) ==
    IF names = <<>> THEN ""
    ELSE IF Len(names) = 1 THEN names[1]
    ELSE names[1] \o sep \o Join(Tail(names), sep)

JoinNames(infos, sep) == Join([i \in DOMAIN infos |-> infos[i].name], sep)

\* Variant with a bug: a union is named for its last member.
UnionInfoLastName(infos) ==
    [name |-> infos[Len(infos)].name, array |-> FALSE,
     required |-> IF \E i \in DOMAIN infos : Dropped(infos[i]) THEN "null" ELSE "yes"]

\* The `anyOf` and `oneOf` arm: null makes an Option, and the arrays among the
\* rest leave no trace in the name.
UnionInfo(infos) ==
    [name |-> JoinNames(KeptOf(infos), "Or"), array |-> FALSE,
     required |-> IF \E i \in DOMAIN infos : Dropped(infos[i]) THEN "null" ELSE "yes"]

RECURSIVE TypeInfo(_)
TypeInfo(s) ==
    LET infos == [i \in DOMAIN s.items |-> TypeInfo(s.items[i])] IN
    CASE s.kind = "ref" -> TypeNamed(ReferenceToName(s.name))
      [] s.kind = "array" -> [TypeNamed(infos[1].name) EXCEPT !.array = TRUE]
      [] s.kind = "allOf" -> TypeNamed(JoinNames(infos, "And"))
      [] Union(s) -> UnionInfo(infos)
      [] s.kind = "null" -> TypeNamed("Null")
      [] s.kind = "string" -> TypeNamed(DigitTypes[s.name])
      [] s.kind = "boolean" -> TypeNamed("bool")

\* Variant with a bug: a union is not collected.
RECURSIVE MentionsReferences(_)
MentionsReferences(s) ==
    (UNION {MentionsReferences(s.items[i]) : i \in DOMAIN s.items})
    \cup (IF s.kind = "ref" THEN {<<TypeInfo(s).name, s>>} ELSE {})

\* Names and sources that `type_info` hands to `collect`: references, and unions
\* of several types.
RECURSIVE Mentions(_)
Mentions(s) ==
    (UNION {Mentions(s.items[i]) : i \in DOMAIN s.items})
    \cup (IF s.kind = "ref" \/ (Union(s) /\ Len(KeptOf([i \in DOMAIN s.items |-> TypeInfo(s.items[i])])) > 1)
          THEN {<<TypeInfo(s).name, s>>} ELSE {})

\* `type_info` returns a name: it neither panics nor returns None.
RECURSIVE Nameable(_)
Nameable(s) ==
    /\ \/ s.kind \in {"ref", "null", "boolean", "array", "allOf"} \/ Union(s)
       \/ s.kind = "string" /\ s.name \in DOMAIN DigitTypes
    /\ \A i \in DOMAIN s.items : Nameable(s.items[i])

-----------------------------------------------------------------------------
\* printer.rs

Field(name, info, alias, flatten) ==
    [name |-> name, type |-> info, alias |-> alias, flatten |-> flatten]

\* Variant with a bug: an absent property is written as null.
FieldInfoNull(o, p) ==
    LET info == TypeInfo(o.properties[p]) IN
    IF info.required = "yes" /\ p \notin o.required THEN [info EXCEPT !.required = "null"] ELSE info

\* Type of the property `p` of `o`.
FieldInfo(o, p) ==
    LET info == TypeInfo(o.properties[p]) IN
    IF info.required = "yes" /\ p \notin o.required THEN [info EXCEPT !.required = "skip"] ELSE info

\* `Fields::from`
FieldsFrom(o) ==
    {Field(p, FieldInfo(o, p), IF p \in DOMAIN o.aliases THEN o.aliases[p] ELSE "", FALSE)
       : p \in DOMAIN o.properties}

\* `Fields::from_all_of`
FieldsFromAllOf(all_of) ==
    UNION {IF s.kind = "untyped" THEN FieldsFrom(s)
           ELSE {Field(TypeInfo(s).name, TypeInfo(s), "", TRUE)} : s \in Range(all_of)}

\* `Variants::from_one_of`
VariantsFromOneOf(one_of) == KeptOf([i \in DOMAIN one_of |-> TypeInfo(one_of[i])])

Content(kind, fields, variants) == [kind |-> kind, fields |-> fields, variants |-> variants]
Struct(fields) == Content("struct", fields, <<>>)
UntaggedUnion(infos) == Content("enum", {}, infos)
TypeAlias(info) == Content("alias", {}, <<info>>)
Strings(values) == Content("strings", {}, values)

\* The schema a name stands for: `ReferenceOrSchema::schema`.
SchemaOf(source) == IF source.kind = "ref" THEN GetSchema(source.name) ELSE source

\* `generate_type` and the printing of its result: a union of one type is an
\* alias of that type.
TypeOf(source) ==
    LET s == SchemaOf(source) IN
    CASE s.kind \in {"object", "untyped"} -> Struct(FieldsFrom(s))
      [] s.kind = "allOf" -> Struct(FieldsFromAllOf(s.items))
      [] Union(s) -> LET vs == VariantsFromOneOf(s.items) IN
                     IF Len(vs) = 1 THEN TypeAlias(vs[1]) ELSE UntaggedUnion(vs)
      [] s.kind = "array" -> TypeAlias([TypeNamed(TypeInfo(s.items[1]).name) EXCEPT !.array = TRUE])
      [] s.kind = "enum" -> Strings(s.values)

PropertiesOf(s) == {s.properties[p] : p \in DOMAIN s.properties}

\* Schemas whose `type_info` is asked for by `generate_type`.
Parts(s) ==
    PropertiesOf(s) \cup UNION {IF i.kind = "untyped" THEN PropertiesOf(i) ELSE {i} : i \in Range(s.items)}

\* What `generate_type` hands to `collect`.
TypeMentions(source) == UNION {Mentions(p) : p \in Parts(SchemaOf(source))}

\* It does not panic.
TypePrintable(source) ==
    LET s == SchemaOf(source) IN
    /\ s.kind \in {"object", "untyped", "allOf", "anyOf", "oneOf", "array", "enum"}
    /\ \A p \in Parts(s) : Nameable(p)

-----------------------------------------------------------------------------
\* `generate_rpc_method`

ParamTypes(m) ==
    LET ps == MethodDocs[m].params
    IN  [i \in DOMAIN ps |-> SetRequired(TypeInfo(ps[i].schema), ps[i].required)]

ResultType(m) ==
    LET r == MethodDocs[m].result IN IF r.kind = "rust" THEN TypeNamed(r.name) ELSE TypeInfo(r)

SignatureOf(m) == [params |-> ParamTypes(m), result |-> ResultType(m)]

SchemasOfMethod(m) ==
    {p.schema : p \in Range(MethodDocs[m].params)} \cup ({MethodDocs[m].result} \ {RustType("String")})

MethodMentions(m) == UNION {Mentions(s) : s \in SchemasOfMethod(m)}

MethodNameable(m) == \A s \in SchemasOfMethod(m) : Nameable(s)
=============================================================================

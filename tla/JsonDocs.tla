------------------------------ MODULE JsonDocs ------------------------------
(***************************************************************************)
(* The JSON documents of the RPC: which of them a schema of the OpenRPC    *)
(* document admits, when two of them mean the same, and samples of them.   *)
(*                                                                         *)
(* Of a hexadecimal string the schemas tell apart how many digits it has,  *)
(* how many of them are leading zeros, for a type byte which digit is      *)
(* left, and whether the last digit is 0.                                  *)
(***************************************************************************)
EXTENDS OpenRpc, FiniteSets

Many == 9     \* stands for every value that is not 0, 1 or 2 and ends in no 0
Round == 16   \* stands for every value above 0 that ends in a 0

Json(kind) == [kind |-> kind, digits |-> 0, zeros |-> 0, value |-> 0, text |-> "",
               elements |-> <<>>, members |-> <<>>]
JsonNull == Json("null")
JsonHex(digits, zeros, value) ==
    [Json("hex") EXCEPT !.digits = digits, !.zeros = zeros, !.value = value]
JsonText(text) == [Json("text") EXCEPT !.text = text]
JsonBool(text) == [Json("bool") EXCEPT !.text = text]
JsonArray(elements) == [Json("array") EXCEPT !.elements = elements]
JsonObject(members) == [Json("object") EXCEPT !.members = members]

Has(j, p) == p \in DOMAIN j.members /\ j.members[p] # JsonNull
Resolve(s) == IF s.kind = "ref" THEN GetSchema(s.name) ELSE s

\* Digits that a pattern admits, but for the form of numbers.
PatternDigits ==
    [address |-> {40}, byte |-> 0..2, bytes |-> Nat, bytes256 |-> {512}, hash32 |-> {64},
     bytes32 |-> {64}, bytes48 |-> {96}, bytes65 |-> {130}, bytes8 |-> {16}, bytes96 |-> {192},
     bytesMax32 |-> 0..64, uint |-> Nat \ {0}, uint256 |-> Nat \ {0}, uint64 |-> Nat \ {0}]
Numbers == {"uint", "uint256", "uint64"}

\* The pattern of `uint` is "^0x([1-9a-f]+[0-9a-f]*|0)$".  Those of `uint256` and
\* `uint64`, "^0x([1-9a-f]+[0-9a-f]{0,31})|0$" and the like, have the 0 outside
\* the group: they admit what begins with a digit above 0, however long it is,
\* and what ends in a 0.
MatchesPattern(p, j) ==
    /\ j.kind = "hex"
    /\ CASE p = "" -> TRUE
         [] p = "0x0" -> j = JsonHex(1, 1, 0)
         [] p = "0x1" -> j = JsonHex(1, 0, 1)
         [] p = "0x2" -> j = JsonHex(1, 0, 2)
         [] OTHER -> /\ j.digits \in PatternDigits[p]
                     /\ p = "uint" => j.zeros = 0 \/ j.digits = 1
                     /\ p \in {"uint256", "uint64"} => j.zeros = 0 \/ j.value % Round = 0

RECURSIVE Valid(_, _)
Valid(s, j) ==
    CASE s.kind = "ref" -> Valid(GetSchema(s.name), j)
      [] s.kind = "null" -> j = JsonNull
      [] s.kind = "boolean" -> j.kind = "bool"
      [] s.kind = "string" -> MatchesPattern(s.name, j)
      [] s.kind = "enum" -> j.kind = "text" /\ \E i \in DOMAIN s.values : s.values[i] = j.text
      [] s.kind = "array" -> j.kind = "array" /\ \A i \in DOMAIN j.elements : Valid(s.items[1], j.elements[i])
      [] s.kind \in {"object", "untyped"} ->
            /\ j.kind = "object"
            /\ s.required \subseteq DOMAIN j.members
            /\ s.closed => DOMAIN j.members \subseteq DOMAIN s.properties
            /\ \A p \in DOMAIN s.properties \cap DOMAIN j.members : Valid(s.properties[p], j.members[p])
      [] s.kind = "allOf" -> \A i \in DOMAIN s.items : Valid(s.items[i], j)
      [] s.kind = "anyOf" -> \E i \in DOMAIN s.items : Valid(s.items[i], j)
      [] s.kind = "oneOf" -> Cardinality({i \in DOMAIN s.items : Valid(s.items[i], j)}) = 1

\* `j` with its legacy names replaced, but for one that stands beside its new name.
Renamed(s, j) ==
    LET old == {p \in DOMAIN s.aliases : s.aliases[p] \in DOMAIN j.members /\ p \notin DOMAIN j.members}
    IN  IF j.kind # "object" THEN j
        ELSE JsonObject([p \in (DOMAIN j.members \ {s.aliases[q] : q \in old}) \cup old |->
                            IF p \in old THEN j.members[s.aliases[p]] ELSE j.members[p]])

\* The member for the property `p`, under its legacy name if need be.
MemberOf(s, p, j) ==
    IF Has(j, p) THEN j.members[p]
    ELSE IF p \in DOMAIN s.aliases /\ Has(j, s.aliases[p]) THEN j.members[s.aliases[p]]
    ELSE JsonNull

\* `a` and `b`, both documents of `s`, say the same: numbers do not count their
\* leading zeros, and null is as good as nothing.
RECURSIVE SameMeaning(_, _, _)
SameMeaning(s, a, b) ==
    CASE s.kind = "ref" -> SameMeaning(GetSchema(s.name), a, b)
      [] s.kind = "string" ->
            IF s.name \in Numbers \cup {"byte"}
            THEN a.digits - a.zeros = b.digits - b.zeros /\ a.value = b.value
            ELSE a = b
      [] s.kind = "array" ->
            /\ Len(a.elements) = Len(b.elements)
            /\ \A i \in DOMAIN a.elements : SameMeaning(s.items[1], a.elements[i], b.elements[i])
      [] s.kind \in {"object", "untyped"} ->
            \A p \in DOMAIN s.properties :
                LET x == MemberOf(s, p, a)  y == MemberOf(s, p, b) IN
                \/ x = JsonNull /\ y = JsonNull
                \/ x # JsonNull /\ y # JsonNull /\ SameMeaning(s.properties[p], x, y)
      [] s.kind = "allOf" -> \A i \in DOMAIN s.items : SameMeaning(s.items[i], a, b)
      [] s.kind \in {"anyOf", "oneOf"} ->
            \E i \in DOMAIN s.items :
                Valid(s.items[i], a) /\ Valid(s.items[i], b) /\ SameMeaning(s.items[i], a, b)
      [] OTHER -> a = b

\* What no Rust type of the generated code can hold although its schema admits
\* it: half a byte, a byte without a digit and a number of more than 64 digits.
RECURSIVE Representable(_, _)
Representable(s, j) ==
    CASE s.kind = "ref" -> Representable(GetSchema(s.name), j)
      [] s.kind = "string" -> /\ s.name = "bytes" => j.digits % 2 = 0
                              /\ s.name = "byte" => j.digits > 0
                              /\ s.name \in Numbers => j.digits <= 64
      [] s.kind = "array" -> \A i \in DOMAIN j.elements : Representable(s.items[1], j.elements[i])
      [] s.kind \in {"object", "untyped"} ->
            \A p \in DOMAIN s.properties : Has(j, p) => Representable(s.properties[p], j.members[p])
      [] s.kind = "allOf" -> \A i \in DOMAIN s.items : Representable(s.items[i], j)
      [] s.kind \in {"anyOf", "oneOf"} ->
            \E i \in DOMAIN s.items : Valid(s.items[i], j) /\ Representable(s.items[i], j)
      [] OTHER -> TRUE

-----------------------------------------------------------------------------
\* Samples: one part of a document varies at a time.

PatternSamples ==
    [address |-> {JsonHex(40, 0, Many), JsonHex(40, 1, Many)},
     byte |-> {JsonHex(0, 0, 0), JsonHex(1, 1, 0), JsonHex(1, 0, 2), JsonHex(2, 1, 1), JsonHex(2, 0, Many)},
     bytes |-> {JsonHex(0, 0, 0), JsonHex(2, 1, 1), JsonHex(3, 0, Many), JsonHex(4, 0, Many)},
     bytes256 |-> {JsonHex(512, 512, 0), JsonHex(512, 3, Many)},
     hash32 |-> {JsonHex(64, 0, Many), JsonHex(64, 1, Many), JsonHex(64, 64, 0)},
     bytes32 |-> {JsonHex(64, 0, Many), JsonHex(64, 63, 1)},
     bytes8 |-> {JsonHex(16, 0, Many), JsonHex(16, 16, 0)},
     bytesMax32 |-> {JsonHex(2, 0, Many)},
     uint |-> {JsonHex(1, 1, 0), JsonHex(1, 0, 1), JsonHex(2, 1, Many), JsonHex(17, 0, Many), JsonHex(64, 0, Many),
               JsonHex(65, 0, Many)},
     uint256 |-> {JsonHex(1, 1, 0), JsonHex(4, 2, Round), JsonHex(64, 0, Many), JsonHex(65, 0, Many)},
     uint64 |-> {JsonHex(1, 0, 2), JsonHex(2, 1, Many), JsonHex(3, 1, Round), JsonHex(17, 0, Many)}]
    @@ "0x0" :> {JsonHex(1, 1, 0)} @@ "0x1" :> {JsonHex(1, 0, 1)} @@ "0x2" :> {JsonHex(1, 0, 2)}

Merged(js) == JsonObject([m \in UNION {DOMAIN js[i].members : i \in DOMAIN js} |->
                            js[CHOOSE i \in DOMAIN js : m \in DOMAIN js[i].members].members[m]])

\* One document of a schema.
RECURSIVE Sample(_)
Sample(s) ==
    CASE s.kind = "ref" -> Sample(GetSchema(s.name))
      [] s.kind = "string" -> CHOOSE j \in PatternSamples[s.name] :
                                 \A k \in PatternSamples[s.name] : j.digits >= k.digits \/ k.digits > 64
      [] s.kind = "enum" -> JsonText(s.values[1])
      [] s.kind = "boolean" -> JsonBool("true")
      [] s.kind = "null" -> JsonNull
      [] s.kind = "array" -> JsonArray(<<Sample(s.items[1])>>)
      [] s.kind \in {"object", "untyped"} -> JsonObject([p \in DOMAIN s.properties |-> Sample(s.properties[p])])
      [] s.kind = "allOf" -> Merged([i \in DOMAIN s.items |-> Sample(s.items[i])])
      [] s.kind \in {"anyOf", "oneOf"} -> Sample(s.items[Len(s.items)])

Unlisted == "unlisted"   \* a member of no schema

Without(j, ps) == JsonObject([p \in DOMAIN j.members \ ps |-> j.members[p]])
With(j, p, x) == JsonObject([q \in DOMAIN j.members \cup {p} |-> IF q = p THEN x ELSE j.members[q]])

RECURSIVE Samples(_)
Samples(s) ==
    CASE s.kind = "ref" -> Samples(GetSchema(s.name))
      [] s.kind = "string" -> PatternSamples[s.name]
      [] s.kind = "enum" -> {JsonText(s.values[i]) : i \in DOMAIN s.values}
      [] s.kind = "boolean" -> {JsonBool("true"), JsonBool("false")}
      [] s.kind = "null" -> {JsonNull}
      [] s.kind = "array" ->
            {JsonArray(<<>>), JsonArray(<<Sample(s.items[1]), Sample(s.items[1])>>)}
            \cup {JsonArray(<<j>>) : j \in Samples(s.items[1])}
      [] s.kind \in {"object", "untyped"} ->
            LET all == Sample(s)
                optional == DOMAIN s.properties \ s.required
                renamed == {p \in DOMAIN s.properties : p \in DOMAIN s.aliases} IN
            {all, Without(all, optional), With(all, Unlisted, JsonBool("true"))}
            \cup {Without(all, {p}) : p \in optional}
            \cup (UNION {{With(all, p, j) : j \in Samples(s.properties[p])} : p \in DOMAIN s.properties})
            \cup (UNION {{With(j, s.aliases[p], all.members[p]) : j \in {all, Without(all, {p})}} : p \in renamed})
      [] s.kind = "allOf" ->
            UNION {{Merged([k \in DOMAIN s.items |-> IF k = i THEN j ELSE Sample(s.items[k])])
                      : j \in Samples(s.items[i])} : i \in DOMAIN s.items}
      [] s.kind \in {"anyOf", "oneOf"} -> UNION {Samples(s.items[i]) : i \in DOMAIN s.items}
=============================================================================

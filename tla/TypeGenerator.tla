--------------------------- MODULE TypeGenerator ---------------------------
(***************************************************************************)
(* `TypeGenerator` (rpc/codegen/src/generator.rs) as main.rs drives it:    *)
(* it prints the methods, then the types they need, then the types those   *)
(* need, until no name is left that was mentioned and not defined.         *)
(*                                                                         *)
(* Every method and type hands pairs of a name and a source to `collect`.  *)
(* Methods come in the order of the document, the types of a round in that *)
(* of their names.                                                         *)
(***************************************************************************)
EXTENDS Naturals, Sequences, FiniteSets

CONSTANTS
    Alphabet,           \* names of Rust types, sorted
    Sources,            \* references and schemas types are generated from
    Document,           \* methods of the document, in its order
    MethodLists,        \* what SUPPORTED_ETH_METHODS may be
    Predefined,         \* names `TypeGenerator::new` takes for generated
    ExtraType,          \* name and source that main.rs adds
    MethodUses(_),      \* pairs a method hands to `collect`
    TypeUses(_),        \* pairs a type hands to `collect`
    CanPrintMethod(_), \* `generate_rpc_method` does not panic on the method
    CanPrintType(_)    \* `generate_type` does not panic on the source

Methods == {Document[i] : i \in DOMAIN Document}
Names == {Alphabet[i] : i \in DOMAIN Alphabet}

ASSUME UsesAssumption ==
    /\ Document \in Seq(Methods) /\ Alphabet \in Seq(Names)
    /\ ExtraType \in Names \X Sources
    /\ \A m \in Methods : MethodUses(m) \subseteq Names \X Sources
    /\ \A s \in Sources : TypeUses(s) \subseteq Names \X Sources

VARIABLES
    pc,
    filtered,    \* filtered_method_names
    methods,     \* methods that are printed
    collected,   \* types to generate in the next round, by name
    batch,       \* types to generate in this one
    generated,   \* names that are taken
    code         \* the types printed, each with its source

vars == <<pc, filtered, methods, collected, batch, generated, code>>

Nothing == [n \in {} |-> n]

\* Variant with a bug: whether a name was generated is not looked at.
CollectAgain(uses) ==
    LET new == {p[1] : p \in uses} \ DOMAIN collected IN
    [n \in DOMAIN collected \cup new |->
        IF n \in DOMAIN collected THEN collected[n] ELSE CHOOSE s \in Sources : <<n, s>> \in uses]

\* `collect`, for each of `uses`: a name keeps the first source it came with.
Collect(uses) ==
    LET new == {p[1] : p \in uses} \ (DOMAIN collected \cup generated) IN
    [n \in DOMAIN collected \cup new |->
        IF n \in DOMAIN collected THEN collected[n] ELSE CHOOSE s \in Sources : <<n, s>> \in uses]

Init ==
    /\ pc = "extra"
    /\ filtered \in MethodLists
    /\ methods = {}
    /\ collected = Nothing /\ batch = Nothing /\ code = Nothing
    /\ generated = Predefined

CollectExtraType ==
    /\ pc = "extra"
    /\ collected' = Collect({ExtraType})
    /\ pc' = "filter"
    /\ UNCHANGED <<filtered, methods, batch, generated, code>>

\* `generate_rpc_methods`: every name on the list has to be in the document.
FilterMethods ==
    /\ pc = "filter"
    /\ pc' = IF filtered \subseteq Methods THEN "methods" ELSE "panicked"
    /\ UNCHANGED <<filtered, methods, collected, batch, generated, code>>

\* The first method of the document that is on the list and not printed yet.
IsNext(i) ==
    /\ Document[i] \in filtered \ methods
    /\ \A j \in 1..(i - 1) : Document[j] \notin filtered \ methods

GenerateRpcMethod(i) ==
    /\ pc = "methods" /\ IsNext(i)
    /\ IF CanPrintMethod(Document[i])
       THEN /\ methods' = methods \cup {Document[i]}
            /\ collected' = Collect(MethodUses(Document[i]))
            /\ UNCHANGED pc
       ELSE /\ pc' = "panicked"
            /\ UNCHANGED <<methods, collected>>
    /\ UNCHANGED <<filtered, batch, generated, code>>

\* Variants with a bug: the loop ends after one round; it has no end.
TakeCollectedOnce ==
    /\ pc \in {"methods", "types"} /\ filtered = methods /\ batch = Nothing
    /\ generated' = generated \cup DOMAIN collected
    /\ batch' = collected /\ collected' = Nothing
    /\ pc' = IF collected = Nothing \/ pc = "types" THEN "done" ELSE "types"
    /\ UNCHANGED <<filtered, methods, code>>
TakeCollectedForever ==
    /\ pc \in {"methods", "types"} /\ filtered = methods /\ batch = Nothing
    /\ generated' = generated \cup DOMAIN collected
    /\ batch' = collected /\ collected' = Nothing
    /\ pc' = "types"
    /\ UNCHANGED <<filtered, methods, code>>

\* A turn of the loop of `generate_types`.
TakeCollected ==
    /\ pc \in {"methods", "types"} /\ filtered = methods /\ batch = Nothing
    /\ generated' = generated \cup DOMAIN collected
    /\ batch' = collected /\ collected' = Nothing
    /\ pc' = IF collected = Nothing THEN "done" ELSE "types"
    /\ UNCHANGED <<filtered, methods, code>>

\* A BTreeMap is iterated in the order of its keys.
IsFirst(n) ==
    /\ n \in DOMAIN batch
    /\ \E i \in DOMAIN Alphabet :
          Alphabet[i] = n /\ \A j \in 1..(i - 1) : Alphabet[j] \notin DOMAIN batch

GenerateType(n) ==
    /\ pc = "types" /\ IsFirst(n)
    /\ IF CanPrintType(batch[n])
       THEN /\ collected' = Collect(TypeUses(batch[n]))
            /\ code' = [x \in DOMAIN code \cup {n} |-> IF x = n THEN batch[n] ELSE code[x]]
            /\ batch' = [x \in DOMAIN batch \ {n} |-> batch[x]]
            /\ UNCHANGED pc
       ELSE /\ pc' = "panicked"
            /\ UNCHANGED <<collected, code, batch>>
    /\ UNCHANGED <<filtered, methods, generated>>

Next ==
    \/ CollectExtraType
    \/ FilterMethods
    \/ \E i \in DOMAIN Document : GenerateRpcMethod(i)
    \/ TakeCollected
    \/ \E n \in Names : GenerateType(n)

Spec == Init /\ [][Next]_vars

\* The program is sequential and waits for nothing.
FairSpec == Spec /\ WF_vars(Next)

-----------------------------------------------------------------------------
\* Types of the variables of the generator.
TypeOK ==
    /\ pc \in {"extra", "filter", "methods", "types", "done", "panicked"}
    /\ filtered \in MethodLists
    /\ methods \subseteq filtered \cap Methods
    /\ \A f \in {collected, batch, code} :
          DOMAIN f \subseteq Names /\ \A n \in DOMAIN f : f[n] \in Sources
    /\ generated \subseteq Names \cup Predefined

\* Pairs that what is printed so far handed to `collect`.
UsesPrinted ==
    {ExtraType} \cup (UNION {MethodUses(m) : m \in methods})
    \cup (UNION {TypeUses(code[n]) : n \in DOMAIN code})

\* All that `collect` may be handed, and that no two of its sources share a name,
\* as in the repository's document.
AllUses ==
    {ExtraType} \cup (UNION {MethodUses(m) : m \in Methods})
    \cup (UNION {TypeUses(s) : s \in Sources})
OneSourcePerName ==
    \A p, q \in AllUses : p[1] = q[1] /\ p[1] \notin Predefined => p[2] = q[2]

\* No type is printed twice (rustc would refuse the file): a name that waits is
\* neither printed nor about to be, and none of the predefined ones ever is,
\* though a name is met many times and only marked as generated one round later
\* (`collect`, `generate_types`).
DefinedOnce ==
    /\ (DOMAIN collected) \cap (DOMAIN batch \cup DOMAIN code) = {}
    /\ (DOMAIN batch) \cap (DOMAIN code) = {}
    /\ (DOMAIN collected \cup DOMAIN batch \cup DOMAIN code) \cap Predefined = {}

\* When the generator is done, every name that a printed method or type uses is
\* one of the predefined types or is printed too (`collect`, `generate_types`).
NothingUndefined ==
    pc = "done" =>
        /\ methods = filtered
        /\ \A p \in UsesPrinted : p[1] \in Predefined \cup DOMAIN code

\* Names are made up from references and from the members of unions, and
\* `collect` keeps the first source that came with a name: no printed type
\* stands for two different schemas.
OneNameOneSchema ==
    \A p \in UsesPrinted : p[1] \in DOMAIN code => code[p[1]] = p[2]

\* What is left to do: methods and types to print, names to take, steps of main.rs.
MethodsLeft == Cardinality(Methods \ methods)
TypesLeft == Cardinality(Names \ DOMAIN code)
NamesLeft == Cardinality(Names \ generated)
StagesLeft ==
    CASE pc = "extra" -> 3 [] pc = "filter" -> 2 [] pc \in {"methods", "types"} -> 1
      [] OTHER -> 0
Work == MethodsLeft + TypesLeft + NamesLeft + StagesLeft

\* Whatever the types refer to, themselves included, every step leaves less to do:
\* a round takes a name that no round took before (`collect`, `generate_types`).
WorkShrinks == [][Work' < Work]_vars

\* The guard of an action of Next.
CanStep ==
    \/ pc \in {"extra", "filter"}
    \/ pc = "methods" /\ \E i \in DOMAIN Document : IsNext(i)
    \/ pc \in {"methods", "types"} /\ filtered = methods /\ batch = Nothing
    \/ pc = "types" /\ \E n \in Names : IsFirst(n)

\* The loops over the document and over a batch never wait for a method or a name
\* that does not come (`generate_rpc_methods`, `generate_types`).
NeverStuck == pc \notin {"done", "panicked"} => CanStep

\* The loop of `generate_types` ends.
Terminates ==
    /\ WorkShrinks
    /\ []NeverStuck
    /\ <>(pc \in {"done", "panicked"})
=============================================================================

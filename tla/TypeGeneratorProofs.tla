------------------------ MODULE TypeGeneratorProofs ------------------------
(***************************************************************************)
(* The generator prints every type once and leaves none out, for every     *)
(* document and every list of methods: TypeOK, DefinedOnce and             *)
(* NothingUndefined of TypeGenerator.  It prints one type for one schema   *)
(* (OneNameOneSchema) whenever the document gives no name to two schemas.  *)
(* Every step leaves less to do and some step is always possible before    *)
(* the end: with a scheduler that runs it, the generator ends.             *)
(***************************************************************************)
EXTENDS TypeGenerator, FiniteSetTheorems, WellFoundedInduction, TLAPS

\* Names count as generated as soon as their batch is taken.
GeneratedNames == generated = Predefined \cup DOMAIN batch \cup DOMAIN code

\* Every name that was met is generated or waits for the next round.
UsesKnown ==
    pc # "extra" => \A p \in UsesPrinted : p[1] \in generated \cup DOMAIN collected

\* Where the program is and what it has done agree.
Progress ==
    /\ pc \in {"extra", "filter"} => methods = {} /\ DOMAIN code = {}
    /\ pc \in {"methods", "types", "done"} => filtered \subseteq Methods
    /\ pc \in {"types", "done"} => methods = filtered
    /\ pc = "done" => DOMAIN collected = {} /\ DOMAIN batch = {}

\* The inductive invariant: DefinedOnce says nothing of `generated`, which is what
\* `collect` looks at, and NothingUndefined nothing of the rounds before the last.
GInv == TypeOK /\ DefinedOnce /\ GeneratedNames /\ UsesKnown /\ Progress

-----------------------------------------------------------------------------
\* What `collect` does: names that are neither generated nor collected are added,
\* each with a source.
LEMMA CollectAdds ==
    ASSUME NEW uses \in SUBSET (Names \X Sources)
    PROVE  /\ DOMAIN Collect(uses) = DOMAIN collected \cup ({p[1] : p \in uses} \ generated)
           /\ \A n \in DOMAIN Collect(uses) :
                 \/ n \in DOMAIN collected /\ Collect(uses)[n] = collected[n]
                 \/ n \in Names /\ Collect(uses)[n] \in Sources
<1> DEFINE new == {p[1] : p \in uses} \ (DOMAIN collected \cup generated)
<1>1. DOMAIN Collect(uses) = DOMAIN collected \cup new
  BY DEF Collect
<1>2. ASSUME NEW n \in new
      PROVE  n \in Names /\ (CHOOSE s \in Sources : <<n, s>> \in uses) \in Sources
  <2>1. PICK p \in uses : n = p[1]
    OBVIOUS
  <2>2. p[1] \in Names /\ p[2] \in Sources /\ p = <<p[1], p[2]>>
    OBVIOUS
  <2>3. \E s \in Sources : <<n, s>> \in uses
    BY <2>1, <2>2
  <2> QED BY <2>1, <2>2, <2>3
<1>3. ASSUME NEW n \in DOMAIN Collect(uses)
      PROVE  \/ n \in DOMAIN collected /\ Collect(uses)[n] = collected[n]
             \/ n \in Names /\ Collect(uses)[n] \in Sources
  <2>1. CASE n \in DOMAIN collected
    BY <2>1, <1>1 DEF Collect
  <2>2. CASE n \notin DOMAIN collected
    <3>1. n \in new
      BY <2>2, <1>1, <1>3
    <3>2. Collect(uses)[n] = CHOOSE s \in Sources : <<n, s>> \in uses
      BY <3>1, <2>2 DEF Collect
    <3> QED BY <3>1, <3>2, <1>2
  <2> QED BY <2>1, <2>2
<1> QED BY <1>1, <1>3

\* After `collect`, every name of the uses is known.
LEMMA CollectKnows ==
    ASSUME NEW uses \in SUBSET (Names \X Sources)
    PROVE  \A p \in uses : p[1] \in generated \cup DOMAIN Collect(uses)
BY CollectAdds

LEMMA InitInv == Init => GInv
<1> SUFFICES ASSUME Init PROVE GInv
  OBVIOUS
<1>1. DOMAIN Nothing = {}
  BY DEF Nothing
<1> QED BY <1>1 DEF Init, GInv, TypeOK, DefinedOnce, GeneratedNames, UsesKnown, Progress

-----------------------------------------------------------------------------
LEMMA ExtraTypeStep == ASSUME GInv, CollectExtraType PROVE GInv'
<1> USE DEF CollectExtraType
<1>1. {ExtraType} \in SUBSET (Names \X Sources)
  BY UsesAssumption
<1>2. DOMAIN collected' = DOMAIN collected \cup ({ExtraType[1]} \ generated)
  BY <1>1, CollectAdds
<1>3. TypeOK'
  BY <1>1, CollectAdds DEF GInv, TypeOK
<1>4. ExtraType[1] \in Names
  BY UsesAssumption
<1>5. DefinedOnce'
  BY <1>2 DEF GInv, DefinedOnce, GeneratedNames
<1>6. UsesPrinted' = {ExtraType}
  BY DEF GInv, Progress, UsesPrinted
<1>7. UsesKnown'
  BY <1>2, <1>6 DEF UsesKnown
<1> QED BY <1>3, <1>5, <1>7 DEF GInv, GeneratedNames, Progress

LEMMA FilterStep == ASSUME GInv, FilterMethods PROVE GInv'
<1> USE DEF FilterMethods
<1>1. UsesPrinted' = UsesPrinted
  BY DEF UsesPrinted
<1> QED BY <1>1 DEF GInv, TypeOK, DefinedOnce, GeneratedNames, UsesKnown, Progress

LEMMA MethodStep == ASSUME GInv, NEW i \in DOMAIN Document, GenerateRpcMethod(i) PROVE GInv'
<1> DEFINE m == Document[i]
<1>1. CASE CanPrintMethod(m)
  <2>1. /\ pc = "methods" /\ m \in filtered
        /\ methods' = methods \cup {m} /\ collected' = Collect(MethodUses(m))
        /\ UNCHANGED <<pc, filtered, batch, generated, code>>
    BY <1>1 DEF GenerateRpcMethod, IsNext
  <2>2. m \in Methods /\ MethodUses(m) \in SUBSET (Names \X Sources)
    BY UsesAssumption DEF Methods
  <2>3. TypeOK'
    BY <2>1, <2>2, CollectAdds DEF GInv, TypeOK
  <2>4. DOMAIN collected' = DOMAIN collected \cup ({p[1] : p \in MethodUses(m)} \ generated)
    BY <2>1, <2>2, CollectAdds
  <2>5. DefinedOnce'
    BY <2>1, <2>4 DEF GInv, DefinedOnce, GeneratedNames
  <2>6. UsesPrinted' = UsesPrinted \cup MethodUses(m)
    BY <2>1 DEF UsesPrinted
  <2>7. UsesKnown'
    BY <2>1, <2>4, <2>6 DEF GInv, UsesKnown
  <2> QED BY <2>1, <2>3, <2>5, <2>7 DEF GInv, GeneratedNames, Progress
<1>2. CASE ~CanPrintMethod(m)
  <2>1. /\ pc' = "panicked"
        /\ UNCHANGED <<filtered, methods, collected, batch, generated, code>>
        /\ pc = "methods"
    BY <1>2 DEF GenerateRpcMethod
  <2>2. UsesPrinted' = UsesPrinted
    BY <2>1 DEF UsesPrinted
  <2> QED BY <2>1, <2>2 DEF GInv, TypeOK, DefinedOnce, GeneratedNames, UsesKnown, Progress
<1> QED BY <1>1, <1>2

LEMMA TakeStep == ASSUME GInv, TakeCollected PROVE GInv'
<1> USE DEF TakeCollected
<1>1. DOMAIN Nothing = {}
  BY DEF Nothing
<1>2. UsesPrinted' = UsesPrinted
  BY DEF UsesPrinted
<1>3. TypeOK'
  BY <1>1 DEF GInv, TypeOK
<1>4. DefinedOnce'
  BY <1>1 DEF GInv, DefinedOnce
<1>5. GeneratedNames'
  BY <1>1 DEF GInv, GeneratedNames
<1>6. UsesKnown'
  BY <1>2 DEF GInv, UsesKnown, TypeOK
<1>7. Progress'
  BY <1>1 DEF GInv, Progress
<1> QED BY <1>3, <1>4, <1>5, <1>6, <1>7 DEF GInv

LEMMA TypeStep == ASSUME GInv, NEW n \in Names, GenerateType(n) PROVE GInv'
<1>0. n \in DOMAIN batch /\ batch[n] \in Sources /\ pc = "types"
  BY DEF GInv, TypeOK, GenerateType, IsFirst
<1>1. CASE CanPrintType(batch[n])
  <2>1. /\ collected' = Collect(TypeUses(batch[n]))
        /\ code' = [x \in DOMAIN code \cup {n} |-> IF x = n THEN batch[n] ELSE code[x]]
        /\ batch' = [x \in DOMAIN batch \ {n} |-> batch[x]]
        /\ UNCHANGED <<pc, filtered, methods, generated>>
    BY <1>1 DEF GenerateType
  <2>2. TypeUses(batch[n]) \in SUBSET (Names \X Sources)
    BY <1>0, UsesAssumption
  <2>3. DOMAIN code' = DOMAIN code \cup {n} /\ DOMAIN batch' = DOMAIN batch \ {n}
    BY <2>1
  <2>4. DOMAIN collected' = DOMAIN collected \cup ({p[1] : p \in TypeUses(batch[n])} \ generated)
    BY <2>1, <2>2, CollectAdds
  <2>5. TypeOK'
    <3>1. \A x \in DOMAIN collected' : x \in Names /\ collected'[x] \in Sources
      BY <2>1, <2>2, CollectAdds DEF GInv, TypeOK
    <3>2. \A x \in DOMAIN code' : x \in Names /\ code'[x] \in Sources
      BY <1>0, <2>1, <2>3 DEF GInv, TypeOK
    <3>3. \A x \in DOMAIN batch' : x \in Names /\ batch'[x] \in Sources
      BY <2>1, <2>3 DEF GInv, TypeOK
    <3> QED BY <2>1, <3>1, <3>2, <3>3 DEF GInv, TypeOK
  <2>6. DefinedOnce'
    BY <1>0, <2>3, <2>4 DEF GInv, DefinedOnce, GeneratedNames
  <2>7. GeneratedNames'
    BY <1>0, <2>1, <2>3 DEF GInv, GeneratedNames
  <2>8. ASSUME NEW p \in UsesPrinted' PROVE p \in UsesPrinted \/ p \in TypeUses(batch[n])
    <3>1. CASE p \in {ExtraType} \cup (UNION {MethodUses(m) : m \in methods'})
      BY <3>1, <2>1 DEF UsesPrinted
    <3>2. CASE \E x \in DOMAIN code' : p \in TypeUses(code'[x])
      <4>1. PICK x \in DOMAIN code' : p \in TypeUses(code'[x])
        BY <3>2
      <4>2. CASE x = n
        BY <4>1, <4>2, <2>1
      <4>3. CASE x # n
        <5>1. x \in DOMAIN code /\ code'[x] = code[x]
          BY <4>1, <4>3, <2>1, <2>3
        <5> QED BY <5>1, <4>1 DEF UsesPrinted
      <4> QED BY <4>2, <4>3
    <3> QED BY <2>8, <3>1, <3>2 DEF UsesPrinted
  <2>9. UsesKnown'
    BY <1>0, <2>1, <2>4, <2>8 DEF GInv, UsesKnown
  <2> QED BY <1>0, <2>1, <2>5, <2>6, <2>7, <2>9 DEF GInv, Progress
<1>2. CASE ~CanPrintType(batch[n])
  <2>1. pc' = "panicked" /\ UNCHANGED <<filtered, methods, collected, batch, generated, code>>
    BY <1>2 DEF GenerateType
  <2>2. UsesPrinted' = UsesPrinted
    BY <2>1 DEF UsesPrinted
  <2> QED BY <1>0, <2>1, <2>2 DEF GInv, TypeOK, DefinedOnce, GeneratedNames, UsesKnown, Progress
<1> QED BY <1>1, <1>2

LEMMA StutterStep == ASSUME GInv, UNCHANGED vars PROVE GInv'
<1>1. UsesPrinted' = UsesPrinted
  BY DEF vars, UsesPrinted
<1> QED BY <1>1 DEF vars, GInv, TypeOK, DefinedOnce, GeneratedNames, UsesKnown, Progress

\* The invariant is inductive.
THEOREM GeneratorInvariant == Spec => []GInv
<1>1. Init => GInv
  BY InitInv
<1>2. ASSUME GInv, [Next]_vars PROVE GInv'
  <2>1. CASE CollectExtraType
    BY <1>2, <2>1, ExtraTypeStep
  <2>2. CASE FilterMethods
    BY <1>2, <2>2, FilterStep
  <2>3. CASE \E i \in DOMAIN Document : GenerateRpcMethod(i)
    BY <1>2, <2>3, MethodStep
  <2>4. CASE TakeCollected
    BY <1>2, <2>4, TakeStep
  <2>5. CASE \E n \in Names : GenerateType(n)
    BY <1>2, <2>5, TypeStep
  <2>6. CASE UNCHANGED vars
    BY <1>2, <2>6, StutterStep
  <2> QED BY <1>2, <2>1, <2>2, <2>3, <2>4, <2>5, <2>6 DEF Next
<1> QED BY <1>1, <1>2, PTL DEF Spec

\* The variables of the generator keep their types (generator.rs).
THEOREM GeneratorTypes == Spec => []TypeOK
<1>1. GInv => TypeOK
  BY DEF GInv
<1> QED BY <1>1, GeneratorInvariant, PTL

\* No type is printed twice, whatever the document and the list of methods.
THEOREM EveryTypeOnce == Spec => []DefinedOnce
<1>1. GInv => DefinedOnce
  BY DEF GInv
<1> QED BY <1>1, GeneratorInvariant, PTL

\* When the generator is done, no name it used is left without a type.
THEOREM EveryTypePrinted == Spec => []NothingUndefined
<1>1. GInv => NothingUndefined
  BY DEF GInv, NothingUndefined, GeneratedNames, UsesKnown, Progress
<1> QED BY <1>1, GeneratorInvariant, PTL

-----------------------------------------------------------------------------
\* Every source that waits or was printed came from the document with its name.
SourcesMet ==
    \A f \in {collected, batch, code} : \A n \in DOMAIN f : <<n, f[n]>> \in AllUses

\* `collect` takes a name and its source from one of the pairs it is handed.
LEMMA CollectKeepsPairs ==
    ASSUME SourcesMet, NEW uses \in SUBSET (Names \X Sources), uses \subseteq AllUses
    PROVE  \A n \in DOMAIN Collect(uses) : <<n, Collect(uses)[n]>> \in AllUses
<1> SUFFICES ASSUME NEW n \in DOMAIN Collect(uses) PROVE <<n, Collect(uses)[n]>> \in AllUses
  OBVIOUS
<1>1. CASE n \in DOMAIN collected
  <2>1. Collect(uses)[n] = collected[n]
    BY <1>1 DEF Collect
  <2> QED BY <1>1, <2>1 DEF SourcesMet
<1>2. CASE n \notin DOMAIN collected
  <2>1. PICK p \in uses : n = p[1]
    BY <1>2 DEF Collect
  <2>2. p[2] \in Sources /\ p = <<p[1], p[2]>>
    OBVIOUS
  <2>3. \E s \in Sources : <<n, s>> \in uses
    BY <2>1, <2>2
  <2>4. Collect(uses)[n] = CHOOSE s \in Sources : <<n, s>> \in uses
    BY <1>2 DEF Collect
  <2> QED BY <2>3, <2>4
<1> QED BY <1>1, <1>2

LEMMA SourcesStep ==
    ASSUME GInv, SourcesMet, [Next]_vars
    PROVE  SourcesMet'
<1>0. SourcesMet' <=> /\ \A n \in DOMAIN collected' : <<n, collected'[n]>> \in AllUses
                      /\ \A n \in DOMAIN batch' : <<n, batch'[n]>> \in AllUses
                      /\ \A n \in DOMAIN code' : <<n, code'[n]>> \in AllUses
  BY DEF SourcesMet
<1>1. CASE CollectExtraType
  <2>1. {ExtraType} \in SUBSET (Names \X Sources) /\ {ExtraType} \subseteq AllUses
    BY UsesAssumption DEF AllUses
  <2> QED BY <1>0, <1>1, <2>1, CollectKeepsPairs DEF CollectExtraType, SourcesMet
<1>2. CASE \E i \in DOMAIN Document : GenerateRpcMethod(i)
  <2>1. PICK i \in DOMAIN Document : GenerateRpcMethod(i)
    BY <1>2
  <2> DEFINE m == Document[i]
  <2>2. m \in Methods
    BY DEF Methods
  <2>3. MethodUses(m) \in SUBSET (Names \X Sources) /\ MethodUses(m) \subseteq AllUses
    BY <2>2, UsesAssumption DEF AllUses
  <2>4. (collected' = Collect(MethodUses(m)) \/ collected' = collected) /\ UNCHANGED <<batch, code>>
    BY <2>1 DEF GenerateRpcMethod
  <2> HIDE DEF m
  <2> QED BY <1>0, <2>3, <2>4, CollectKeepsPairs DEF SourcesMet
<1>3. CASE TakeCollected
  <2>1. DOMAIN Nothing = {}
    BY DEF Nothing
  <2> QED BY <1>0, <1>3, <2>1 DEF TakeCollected, SourcesMet
<1>4. CASE \E n \in Names : GenerateType(n)
  <2>1. PICK n \in Names : GenerateType(n)
    BY <1>4
  <2>2. n \in DOMAIN batch /\ batch[n] \in Sources
    BY <2>1 DEF GInv, TypeOK, GenerateType, IsFirst
  <2>3. TypeUses(batch[n]) \in SUBSET (Names \X Sources) /\ TypeUses(batch[n]) \subseteq AllUses
    BY <2>2, UsesAssumption DEF AllUses
  <2>4. CASE CanPrintType(batch[n])
    <3>1. /\ collected' = Collect(TypeUses(batch[n]))
          /\ code' = [x \in DOMAIN code \cup {n} |-> IF x = n THEN batch[n] ELSE code[x]]
          /\ batch' = [x \in DOMAIN batch \ {n} |-> batch[x]]
      BY <2>1, <2>4 DEF GenerateType
    <3>2. \A x \in DOMAIN collected' : <<x, collected'[x]>> \in AllUses
      BY <2>3, <3>1, CollectKeepsPairs
    <3>3. \A x \in DOMAIN code' : <<x, code'[x]>> \in AllUses
      BY <2>2, <3>1 DEF SourcesMet
    <3>4. \A x \in DOMAIN batch' : <<x, batch'[x]>> \in AllUses
      BY <3>1 DEF SourcesMet
    <3> QED BY <1>0, <3>2, <3>3, <3>4
  <2>5. CASE ~CanPrintType(batch[n])
    BY <2>1, <2>5 DEF GenerateType, SourcesMet
  <2> QED BY <2>4, <2>5
<1>5. CASE UNCHANGED <<collected, batch, code>>
  BY <1>5 DEF SourcesMet
<1> QED BY <1>1, <1>2, <1>3, <1>4, <1>5 DEF Next, FilterMethods, vars

\* Whatever order the worklist takes and whichever source came first, no printed
\* type stands for two schemas, when the document gives no name to two of them.
THEOREM OneTypePerSchema ==
    ASSUME OneSourcePerName
    PROVE  Spec => []OneNameOneSchema
<1>1. Init => SourcesMet
  <2>1. DOMAIN Nothing = {}
    BY DEF Nothing
  <2> QED BY <2>1 DEF Init, SourcesMet
<1>2. GInv /\ SourcesMet /\ [Next]_vars => SourcesMet'
  BY SourcesStep
<1>3. GInv /\ SourcesMet => OneNameOneSchema
  <2> SUFFICES ASSUME GInv, SourcesMet, NEW p \in UsesPrinted, p[1] \in DOMAIN code
               PROVE  code[p[1]] = p[2]
    BY DEF OneNameOneSchema
  <2>1. p \in AllUses
    <3>1. methods \subseteq Methods /\ \A n \in DOMAIN code : code[n] \in Sources
      BY DEF GInv, TypeOK
    <3> QED BY <3>1 DEF UsesPrinted, AllUses
  <2>2. <<p[1], code[p[1]]>> \in AllUses
    BY DEF SourcesMet
  <2>3. p[1] \notin Predefined
    BY DEF GInv, DefinedOnce
  <2> QED BY <2>1, <2>2, <2>3 DEF OneSourcePerName
<1> QED BY <1>1, <1>2, <1>3, GeneratorInvariant, PTL DEF Spec

-----------------------------------------------------------------------------
\* The numbers are well-founded, so a set of them has a least element.
LEMMA NatWellFounded ==
    \E R : IsWellFoundedOn(R, Nat) /\ \A x, y \in Nat : <<y, x>> \in R <=> y < x
<1> DEFINE R == OpToRel(<, Nat)
<1>1. IsWellFoundedOn(R, Nat)
  BY NatLessThanWellFounded
<1>2. \A x, y \in Nat : <<y, x>> \in R <=> y < x
  BY DEF OpToRel
<1> HIDE DEF R
<1> QED BY <1>1, <1>2

LEMMA Least ==
    ASSUME NEW S \in SUBSET Nat, S # {}
    PROVE  \E m \in S : \A k \in S : m <= k
<1>1. PICK R : IsWellFoundedOn(R, Nat) /\ \A x, y \in Nat : <<y, x>> \in R <=> y < x
  BY NatWellFounded
<1>2. \E x \in S : \A y \in S : ~(<<y, x>> \in R)
  BY <1>1, WFMin
<1>3. PICK m \in S : \A y \in S : ~(<<y, m>> \in R)
  BY <1>2
<1>4. ASSUME NEW k \in S PROVE m <= k
  <2>1. k \in Nat /\ m \in Nat /\ ~(k < m)
    BY <1>1, <1>3
  <2> QED BY <2>1
<1> QED BY <1>4

\* A sequence has finitely many elements, and among those of a set a first one.
LEMMA SeqFinite ==
    ASSUME NEW S, NEW s \in Seq(S)
    PROVE  IsFiniteSet({s[i] : i \in DOMAIN s})
<1> DEFINE f == [i \in 1..Len(s) |-> s[i]]
           T == {s[i] : i \in DOMAIN s}
<1>1. IsFiniteSet(1..Len(s))
  BY FS_Interval
<1>2. f \in Surjection(1..Len(s), T)
  BY DEF Surjection
<1> QED BY <1>1, <1>2, FS_Surjection

LEMMA FirstOf ==
    ASSUME NEW S, NEW s \in Seq(S), NEW T, \E i \in DOMAIN s : s[i] \in T
    PROVE  \E i \in DOMAIN s : s[i] \in T /\ \A j \in 1..(i - 1) : s[j] \notin T
<1> DEFINE I == {i \in DOMAIN s : s[i] \in T}
<1>1. I \in SUBSET Nat /\ I # {}
  OBVIOUS
<1>2. PICK m \in I : \A k \in I : m <= k
  BY <1>1, Least
<1>3. ASSUME NEW j \in 1..(m - 1) PROVE s[j] \notin T
  <2>1. m \in 1..Len(s)
    OBVIOUS
  <2>2. j \in DOMAIN s /\ ~(m <= j)
    BY <2>1
  <2> QED BY <1>2, <2>2
<1> QED BY <1>3

-----------------------------------------------------------------------------
\* The two worklists are maps: one that is not empty has a name.
Maps ==
    /\ collected = [n \in DOMAIN collected |-> collected[n]]
    /\ batch = [n \in DOMAIN batch |-> batch[n]]
    /\ pc \in {"extra", "filter", "methods"} => batch = Nothing

LEMMA MapsStep == ASSUME Maps, [Next]_vars PROVE Maps'
<1>1. CASE CollectExtraType
  BY <1>1 DEF CollectExtraType, Collect, Maps
<1>2. CASE FilterMethods
  BY <1>2 DEF FilterMethods, Maps
<1>3. ASSUME NEW i \in DOMAIN Document, GenerateRpcMethod(i) PROVE Maps'
  BY <1>3 DEF GenerateRpcMethod, Collect, Maps
<1>4. CASE TakeCollected
  <2>1. Nothing = [n \in DOMAIN Nothing |-> Nothing[n]]
    BY DEF Nothing
  <2>2. pc' \in {"types", "done"}
    BY <1>4 DEF TakeCollected
  <2> QED BY <1>4, <2>1, <2>2 DEF TakeCollected, Maps
<1>5. ASSUME NEW n \in Names, GenerateType(n) PROVE Maps'
  <2>1. pc' \notin {"extra", "filter", "methods"}
    BY <1>5 DEF GenerateType
  <2>2. collected' = collected \/ collected' = Collect(TypeUses(batch[n]))
    BY <1>5 DEF GenerateType
  <2>3. batch' = batch \/ batch' = [x \in DOMAIN batch \ {n} |-> batch[x]]
    BY <1>5 DEF GenerateType
  <2>4. collected' = [x \in DOMAIN collected' |-> collected'[x]]
    BY <2>2 DEF Collect, Maps
  <2>5. batch' = [x \in DOMAIN batch' |-> batch'[x]]
    BY <2>3 DEF Maps
  <2> QED BY <2>1, <2>4, <2>5 DEF Maps
<1>6. CASE UNCHANGED vars
  BY <1>6 DEF vars, Maps
<1> QED BY <1>1, <1>2, <1>3, <1>4, <1>5, <1>6 DEF Next

LEMMA MapsInit == Init => Maps
BY DEF Init, Maps, Nothing

\* An empty map is Nothing.
LEMMA EmptyIsNothing ==
    ASSUME NEW f, f = [n \in DOMAIN f |-> f[n]], DOMAIN f = {}
    PROVE  f = Nothing
BY DEF Nothing

-----------------------------------------------------------------------------
\* A smaller subset leaves more of a finite set to do.
LEMMA LessLeft ==
    ASSUME NEW S, IsFiniteSet(S), NEW T \in SUBSET S, T # S
    PROVE  /\ Cardinality(S) \in Nat /\ Cardinality(T) \in Nat
           /\ Cardinality(T) < Cardinality(S)
BY FS_Subset, FS_CardinalityType

LEMMA WorkIsFinite ==
    /\ IsFiniteSet(Methods \ methods) /\ MethodsLeft \in Nat
    /\ IsFiniteSet(Names \ DOMAIN code) /\ TypesLeft \in Nat
    /\ IsFiniteSet(Names \ generated) /\ NamesLeft \in Nat
<1>1. IsFiniteSet(Methods) /\ IsFiniteSet(Names)
  BY SeqFinite, UsesAssumption DEF Methods, Names
<1> QED BY <1>1, FS_Subset, FS_CardinalityType DEF MethodsLeft, TypesLeft, NamesLeft

LEMMA SumShrinks ==
    ASSUME NEW m \in Nat, NEW c \in Nat, NEW g \in Nat, NEW s \in Nat,
           NEW m2 \in Nat, NEW c2 \in Nat, NEW g2 \in Nat, NEW s2 \in Nat,
           m2 = m \/ m2 < m, c2 = c \/ c2 < c, g2 = g \/ g2 < g, s2 = s \/ s2 < s,
           m2 < m \/ c2 < c \/ g2 < g \/ s2 < s
    PROVE  m2 + c2 + g2 + s2 < m + c + g + s
OBVIOUS

LEMMA WorkLess == ASSUME GInv, Maps, Next PROVE Work' < Work
<1>1. /\ Work = MethodsLeft + TypesLeft + NamesLeft + StagesLeft
      /\ Work' = MethodsLeft' + TypesLeft' + NamesLeft' + StagesLeft'
  BY DEF Work
<1>2. MethodsLeft \in Nat /\ TypesLeft \in Nat /\ NamesLeft \in Nat
  BY WorkIsFinite
<1>3. CASE /\ UNCHANGED <<methods, code, generated>>
           /\ StagesLeft \in Nat /\ StagesLeft' \in Nat /\ StagesLeft' < StagesLeft
  <2>1. MethodsLeft' = MethodsLeft /\ TypesLeft' = TypesLeft /\ NamesLeft' = NamesLeft
    BY <1>3 DEF MethodsLeft, TypesLeft, NamesLeft
  <2>2. /\ MethodsLeft' \in Nat /\ TypesLeft' \in Nat /\ NamesLeft' \in Nat
    BY <1>2, <2>1
  <2> QED BY <1>1, <1>2, <1>3, <2>1, <2>2, SumShrinks, Zenon
<1>4. CASE CollectExtraType
  BY <1>3, <1>4 DEF CollectExtraType, StagesLeft
<1>5. CASE FilterMethods
  BY <1>3, <1>5 DEF FilterMethods, StagesLeft
<1>6. ASSUME NEW i \in DOMAIN Document, GenerateRpcMethod(i) PROVE Work' < Work
  <2> DEFINE m == Document[i]
  <2>1. CASE CanPrintMethod(m)
    <3>1. m \in Methods /\ m \notin methods /\ methods' = methods \cup {m}
      BY <1>6, <2>1 DEF GenerateRpcMethod, IsNext, Methods
    <3>2. StagesLeft = 1 /\ StagesLeft' = 1
      BY <1>6, <2>1 DEF GenerateRpcMethod, StagesLeft
    <3>3. UNCHANGED <<code, generated>>
      BY <1>6, <2>1 DEF GenerateRpcMethod
    <3>4. TypesLeft' = TypesLeft /\ NamesLeft' = NamesLeft
      BY <3>3 DEF TypesLeft, NamesLeft
    <3> HIDE DEF m
    <3>5. /\ Methods \ methods' \in SUBSET (Methods \ methods)
          /\ Methods \ methods' # Methods \ methods
      BY <3>1
    <3>6. MethodsLeft' \in Nat /\ MethodsLeft' < MethodsLeft
      BY <3>5, WorkIsFinite, LessLeft DEF MethodsLeft
    <3>7. 1 \in Nat
      OBVIOUS
    <3>8. MethodsLeft' \in Nat /\ TypesLeft' \in Nat /\ NamesLeft' \in Nat
      BY <1>2, <3>4, <3>6
    <3> QED BY <1>1, <1>2, <3>2, <3>4, <3>6, <3>7, <3>8, SumShrinks, Zenon
  <2>2. CASE ~CanPrintMethod(m)
    BY <1>3, <1>6, <2>2 DEF GenerateRpcMethod, StagesLeft
  <2> QED BY <2>1, <2>2
<1>7. CASE TakeCollected
  <2>1. UNCHANGED <<methods, code>> /\ generated' = generated \cup DOMAIN collected
    BY <1>7 DEF TakeCollected
  <2>2. CASE collected = Nothing
    <3>1. DOMAIN collected = {}
      BY <2>2 DEF Nothing
    <3>2. UNCHANGED <<methods, code, generated>>
      BY <2>1, <3>1
    <3>3. StagesLeft = 1 /\ StagesLeft' = 0
      BY <1>7, <2>2 DEF TakeCollected, StagesLeft
    <3> QED BY <1>3, <3>2, <3>3
  <2>3. CASE collected # Nothing
    <3>1. DOMAIN collected # {}
      BY <2>3, EmptyIsNothing DEF Maps
    <3>2. DOMAIN collected \subseteq Names /\ (DOMAIN collected) \cap generated = {}
      BY DEF GInv, TypeOK, DefinedOnce, GeneratedNames
    <3>3. /\ Names \ generated' \in SUBSET (Names \ generated)
          /\ Names \ generated' # Names \ generated
      BY <2>1, <3>1, <3>2
    <3>4. NamesLeft' \in Nat /\ NamesLeft' < NamesLeft
      BY <3>3, WorkIsFinite, LessLeft DEF NamesLeft
    <3>5. StagesLeft = 1 /\ StagesLeft' = 1
      BY <1>7, <2>3 DEF TakeCollected, StagesLeft
    <3>6. MethodsLeft' = MethodsLeft /\ TypesLeft' = TypesLeft
      BY <2>1 DEF MethodsLeft, TypesLeft
    <3>7. 1 \in Nat
      OBVIOUS
    <3>8. MethodsLeft' \in Nat /\ TypesLeft' \in Nat /\ NamesLeft' \in Nat
      BY <1>2, <3>4, <3>5, <3>6
    <3> QED BY <1>1, <1>2, <3>4, <3>5, <3>6, <3>7, <3>8, SumShrinks, Zenon
  <2> QED BY <2>2, <2>3
<1>8. ASSUME NEW n \in Names, GenerateType(n) PROVE Work' < Work
  <2>1. CASE CanPrintType(batch[n])
    <3>1. UNCHANGED <<methods, generated>> /\ DOMAIN code' = DOMAIN code \cup {n}
      BY <1>8, <2>1 DEF GenerateType
    <3>2. n \notin DOMAIN code
      BY <1>8 DEF GenerateType, IsFirst, GInv, DefinedOnce
    <3>3. /\ Names \ DOMAIN code' \in SUBSET (Names \ DOMAIN code)
          /\ Names \ DOMAIN code' # Names \ DOMAIN code
      BY <3>1, <3>2
    <3>4. TypesLeft' \in Nat /\ TypesLeft' < TypesLeft
      BY <3>3, WorkIsFinite, LessLeft DEF TypesLeft
    <3>5. StagesLeft = 1 /\ StagesLeft' = 1
      BY <1>8, <2>1 DEF GenerateType, StagesLeft
    <3>6. MethodsLeft' = MethodsLeft /\ NamesLeft' = NamesLeft
      BY <3>1 DEF MethodsLeft, NamesLeft
    <3>7. 1 \in Nat
      OBVIOUS
    <3>8. MethodsLeft' \in Nat /\ TypesLeft' \in Nat /\ NamesLeft' \in Nat
      BY <1>2, <3>4, <3>5, <3>6
    <3> QED BY <1>1, <1>2, <3>4, <3>5, <3>6, <3>7, <3>8, SumShrinks, Zenon
  <2>2. CASE ~CanPrintType(batch[n])
    BY <1>3, <1>8, <2>2 DEF GenerateType, StagesLeft
  <2> QED BY <2>1, <2>2
<1> QED BY <1>4, <1>5, <1>6, <1>7, <1>8 DEF Next

LEMMA WorkIsANumber == Work \in Nat
<1>1. StagesLeft \in Nat
  BY DEF StagesLeft
<1> QED BY <1>1, WorkIsFinite DEF Work

\* Every step of the generator leaves less to do, so it takes at most as many steps
\* as there is work at the start, whatever the types refer to.
THEOREM EveryStepShrinks == Spec => WorkShrinks /\ [](Work \in Nat)
<1>1. GInv /\ Maps /\ [Next]_vars => Maps' /\ [Work' < Work]_vars
  BY MapsStep, WorkLess
<1>2. Spec => WorkShrinks
  BY <1>1, MapsInit, GeneratorInvariant, PTL DEF Spec, WorkShrinks
<1>3. [](Work \in Nat)
  BY WorkIsANumber, PTL
<1> QED BY <1>2, <1>3

\* And until it is done or has panicked, some action is possible: no loop waits for
\* a method that is not in the document or for a name that is not in the alphabet.
THEOREM NeverWaits == Spec => []NeverStuck
<1>1. GInv /\ Maps => NeverStuck
  <2> SUFFICES ASSUME GInv, Maps, pc \notin {"done", "panicked"}, pc \notin {"extra", "filter"}
               PROVE  CanStep
    BY DEF NeverStuck, CanStep
  <2>1. pc \in {"methods", "types"}
    BY DEF GInv, TypeOK
  <2>2. CASE pc = "methods"
    <3>1. CASE filtered = methods
      BY <2>2, <3>1 DEF Maps, CanStep
    <3>2. CASE filtered # methods
      <4>1. PICK m \in filtered : m \notin methods
        BY <3>2 DEF GInv, TypeOK
      <4>2. m \in Methods
        BY <2>2, <4>1 DEF GInv, Progress
      <4>3. \E i \in DOMAIN Document : Document[i] \in filtered \ methods
        BY <4>1, <4>2 DEF Methods
      <4>4. \E i \in DOMAIN Document : IsNext(i)
        BY <4>3, FirstOf, UsesAssumption DEF IsNext
      <4> QED BY <2>2, <4>4 DEF CanStep
    <3> QED BY <3>1, <3>2
  <2>3. CASE pc = "types"
    <3>1. CASE batch = Nothing
      BY <2>3, <3>1 DEF GInv, Progress, CanStep
    <3>2. CASE batch # Nothing
      <4>1. PICK n \in DOMAIN batch : n \in Names
        BY <3>2, EmptyIsNothing DEF Maps, GInv, TypeOK
      <4>2. \E i \in DOMAIN Alphabet : Alphabet[i] \in DOMAIN batch
        BY <4>1 DEF Names
      <4>3. PICK i \in DOMAIN Alphabet : /\ Alphabet[i] \in DOMAIN batch
                                         /\ \A j \in 1..(i - 1) : Alphabet[j] \notin DOMAIN batch
        BY <4>2, FirstOf, UsesAssumption
      <4>4. IsFirst(Alphabet[i]) /\ Alphabet[i] \in Names
        BY <4>3 DEF IsFirst, Names
      <4> QED BY <2>3, <4>4 DEF CanStep
    <3> QED BY <3>1, <3>2
  <2> QED BY <2>1, <2>2, <2>3
<1>2. Maps /\ [Next]_vars => Maps'
  BY MapsStep
<1> QED BY <1>1, <1>2, MapsInit, GeneratorInvariant, PTL DEF Spec
=============================================================================

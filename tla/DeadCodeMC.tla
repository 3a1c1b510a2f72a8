----------------------------- MODULE DeadCodeMC -----------------------------
(***************************************************************************)
(* Small projects: an entrypoint, a barrel file and the leaf it re-exports.*)
(***************************************************************************)
EXTENDS DeadCode

CONSTANTS main, barrel, leaf, x, y

ThreeFiles == {main, barrel, leaf}
TwoNames == {x, y}

Import(to, names, is_type) == [to |-> to, names |-> names, is_type |-> is_type]
Reexport(to, is_star, original, exported, is_type) ==
    [to |-> to, is_star |-> is_star, is_type |-> is_type,
     original |-> original, exported |-> exported]
UpTo(n, S) == {T \in SUBSET S : Cardinality(T) <= n}

(* The entrypoint imports the side effects of the barrel, or one or two    *)
(* of: a name, a type or the namespace of the barrel, a name past it.      *)
MainImports ==
    {{Import(barrel, {}, FALSE)}} \cup
    {I \in UpTo(2, {Import(barrel, {x}, FALSE), Import(barrel, {y}, TRUE),
                    Import(barrel, {Star}, FALSE),
                    Import(leaf, {y}, FALSE)}) : I # {}}
BarrelReexports ==
    UpTo(2, {Reexport(leaf, TRUE, Star, Star, FALSE),
             Reexport(leaf, TRUE, Star, x, FALSE),
             Reexport(leaf, FALSE, x, y, FALSE),
             Reexport(leaf, FALSE, x, x, TRUE),
             Reexport(main, FALSE, y, x, FALSE)})
LeafReexports ==
    {{}, {Reexport(barrel, TRUE, Star, Star, FALSE)},
     {Reexport(barrel, FALSE, y, x, FALSE)}}
Export(name, is_type, kind) ==
    [name |-> name, is_type |-> is_type, kind |-> kind]
(* With members, y is a class, or a default export when x is no type.      *)
LeafExports ==
    {{Export(x, t, "other"), Export(y, FALSE, IF t THEN "container" ELSE "other")} :
        t \in BOOLEAN}
(* Members of what is imported *)
MainAccesses(imports) ==
    {A \in {{}, {[to |-> barrel, imported |-> x, member |-> y]},
            {[to |-> barrel, imported |-> Star, member |-> x]}} :
        \A a \in A : \E i \in imports :
            i.to = a.to /\ a.imported \in i.names}

Project(le, mi, br, lr, ma) ==
    [seeds |-> {main},
     facts |-> [f \in ThreeFiles |->
        [exports |-> CASE f = main -> {Export(y, FALSE, "other")}
                       [] f = barrel -> {}
                       [] f = leaf -> le,
         imports |-> IF f = main THEN mi ELSE {},
         reexports |-> CASE f = main -> {}
                         [] f = barrel -> br
                         [] f = leaf -> lr,
         same_file_refs |-> IF f = leaf THEN {y} ELSE {},
         members |-> IF f = leaf THEN {[parent |-> y, member |-> x]} ELSE {},
         accesses |-> IF f = main THEN ma ELSE {}]]]

SmallProjects ==
    UNION {{Project(le, mi, br, lr, ma) :
                le \in LeafExports, br \in BarrelReexports,
                lr \in LeafReexports, ma \in MainAccesses(mi)} :
           mi \in MainImports}
NoExempt == {}
=============================================================================

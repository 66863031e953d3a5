------------------------------- MODULE KDeps --------------------------------
(***************************************************************************)
(* The search for recursive dependencies of Kconfig symbols (symbol.c):    *)
(* a depth-first walk that marks the symbols it is in and those it has     *)
(* seen, and treats a choice and its values as one.  A graph g has         *)
(*   deps[s]  the symbols in the expressions of s, in the order of         *)
(*            sym_check_sym_deps(),                                        *)
(*   of[s]    the choice that s is a value of, or None,                    *)
(*   values[s] the values of the choice s, in order, or << >>.             *)
(***************************************************************************)
EXTENDS Integers, Sequences, SequencesExt

None == ""

(* The state of the walk: SYMBOL_CHECK, SYMBOL_CHECKED, dep_stack, the     *)
(* loops that were printed, and the symbol returned, None for NULL.        *)
Start == [check |-> {}, checked |-> {}, stack |-> << >>, told |-> {}, ret |-> None]

dep_stack_insert(x, s) == [x EXCEPT !.stack = Append(@, s)]
dep_stack_remove(x)    == [x EXCEPT !.stack = Front(@)]

(* The loop is the stack from the last entry of the symbol on; a value of  *)
(* a choice is put on top and the loop starts at its choice.  << >> is the *)
(* "unexpected recursive dependency error".                                *)
sym_check_print_recursive(g, x, s) ==
    LET stack == IF g.of[s] # None THEN Append(x.stack, s) ELSE x.stack
        last  == IF g.of[s] # None THEN g.of[s] ELSE s
        at    == {i \in DOMAIN stack : stack[i] = last}
        first == CHOOSE i \in at : \A j \in at : j <= i
    IN  [x EXCEPT !.told = @ \cup {IF at = {} THEN << >>
                                   ELSE SubSeq(stack, first, Len(stack))}]

RECURSIVE sym_check_deps(_, _, _)

(* Of several symbols, up to the first that is part of a loop.             *)
UpTo(Check(_, _), x, syms) ==
    FoldLeft(LAMBDA y, s : IF y.ret # None THEN y ELSE Check(y, s), [x EXCEPT !.ret = None], syms)

sym_check_sym_deps(g, x, s) ==
    dep_stack_remove(UpTo(LAMBDA y, d : sym_check_deps(g, y, d), dep_stack_insert(x, s), g.deps[s]))

sym_check_choice_deps(g, x, c) ==
    LET vals == ToSet(g.values[c])
        in   == [dep_stack_insert(x, c) EXCEPT !.check = @ \cup vals \cup {c},
                                               !.checked = @ \cup vals \cup {c}]
        own  == [sym_check_sym_deps(g, in, c) EXCEPT !.check = @ \ {c}]
        all  == IF own.ret # None THEN own
                ELSE UpTo(LAMBDA y, s : sym_check_sym_deps(g, y, s), own, g.values[c])
    IN  dep_stack_remove([all EXCEPT !.check = @ \ vals, !.ret = IF @ \in vals THEN c ELSE @])

sym_check_deps(g, x, s) ==
    IF s \in x.check THEN [sym_check_print_recursive(g, x, s) EXCEPT !.ret = s]
    ELSE IF s \in x.checked THEN [x EXCEPT !.ret = None]
    ELSE LET In(y)  == [y EXCEPT !.check = @ \cup {s}, !.checked = @ \cup {s}]
             Out(y) == [y EXCEPT !.check = @ \ {s}]
             y == IF g.of[s] # None
                  THEN dep_stack_remove(sym_check_deps(g, dep_stack_insert(x, s), g.of[s]))
                  ELSE IF g.values[s] # << >> THEN sym_check_choice_deps(g, x, s)
                  ELSE Out(sym_check_sym_deps(g, In(x), s))
         IN  IF y.ret = s THEN [y EXCEPT !.ret = None] ELSE y

(* The check of every symbol after the files are parsed.                   *)
CheckAll(g, syms) == FoldLeft(LAMBDA x, s : sym_check_deps(g, x, s), Start, syms)

-----------------------------------------------------------------------------
(* The reference.  A value depends on its choice; the values of one choice *)
(* exclude each other, so that none may lead to another.                   *)
DependsOn(g, syms) ==
    LET E == {<<s, d>> \in syms \X syms : d \in ToSet(g.deps[s]) \/ d = g.of[s]}
        Longer(R) == R \cup {<<a, c>> \in syms \X syms : \E b \in syms : <<a, b>> \in R /\ <<b, c>> \in R}
    IN  Longer(Longer(Longer(E)))

Recursive(g, syms) ==
    \E s, d \in syms : /\ <<s, d>> \in DependsOn(g, syms)
                       /\ s = d \/ (g.of[s] # None /\ g.of[s] = g.of[d])

(* Each symbol of the loop leads to the next, the last one to the first,   *)
(* and not only as a choice and its values do.  A choice is on the stack   *)
(* twice.                                                                  *)
RealLoop(g, loop) ==
    LET Succ(i) == IF i = Len(loop) THEN loop[1] ELSE loop[i + 1]
    IN
    /\ \E i \in DOMAIN loop : Succ(i) \in ToSet(g.deps[loop[i]]) /\ Succ(i) # g.of[loop[i]]
    /\ \A i \in DOMAIN loop :
         LET a == loop[i]
             b == Succ(i)
         IN  (a = b /\ g.values[a] # << >>) \/ b \in ToSet(g.deps[a]) \/ b = g.of[a] \/ a = g.of[b]
=============================================================================

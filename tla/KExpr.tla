-------------------------------- MODULE KExpr -------------------------------
(***************************************************************************)
(* Dependencies in the Kconfig files, as scripts/kconfig/expr.c evaluates  *)
(* and simplifies them.  A symbol is a string; "n", "m" and "y" are the    *)
(* constants symbol_no, symbol_mod and symbol_yes.  The values no, mod and *)
(* yes are 0, 1 and 2.  A pointer to a part of an expression is its path   *)
(* from the root, 1 for left and 2 for right.                              *)
(***************************************************************************)
EXTENDS Integers, Sequences, SequencesExt

CONSTANTS BoolSyms,     \* symbols of type S_BOOLEAN
          TriSyms       \* symbols of type S_TRISTATE

Consts == {"n", "m", "y"}

Const == [n |-> 0, m |-> 1, y |-> 2]

(* What the symbols may be worth.                                          *)
Valuations ==
    {[s \in BoolSyms \cup TriSyms \cup Consts |->
        IF s \in Consts THEN Const[s] ELSE IF s \in BoolSyms THEN b[s] ELSE t[s]] :
     b \in [BoolSyms -> {0, 2}], t \in [TriSyms -> 0..2]}

Sym(s)        == [t |-> "sym", s |-> s]
Not(e)        == [t |-> "not", l |-> e]
And(l, r)     == [t |-> "and", l |-> l, r |-> r]
Or(l, r)      == [t |-> "or", l |-> l, r |-> r]
Comp(c, a, b) == [t |-> c, a |-> a, b |-> b]
Null          == [t |-> "null"]

Joins       == {"and", "or"}
Comparisons == {"=", "!=", "<=", ">=", "<", ">"}

-----------------------------------------------------------------------------
(* EXPR_AND, EXPR_OR, EXPR_NOT.                                            *)
Least(a, b)    == IF a < b THEN a ELSE b
Greatest(a, b) == IF a > b THEN a ELSE b

(* strcmp() on the texts "m" < "n" < "y".                                  *)
Text(v) == IF v = 1 THEN 0 ELSE IF v = 0 THEN 1 ELSE 2

(* What a comparison looks at: numbers if both sides are (the way          *)
(* expr_parse_string() takes an S_INT), texts otherwise.                   *)
Difference(e, val) ==
    IF {e.a, e.b} \cap (BoolSyms \cup TriSyms \cup Consts) = {}
    THEN val[e.a] - val[e.b]
    ELSE Text(val[e.a]) - Text(val[e.b])

Holds(c, d) ==
    CASE c = "="  -> d = 0
      [] c = "!=" -> d # 0
      [] c = "<=" -> d <= 0
      [] c = ">=" -> d >= 0
      [] c = "<"  -> d < 0
      [] c = ">"  -> d > 0

RECURSIVE expr_calc_value(_, _)
expr_calc_value(e, val) ==
    CASE e.t = "null" -> 2
      [] e.t = "sym"  -> val[e.s]
      [] e.t = "not"  -> 2 - expr_calc_value(e.l, val)
      [] e.t = "and"  -> Least(expr_calc_value(e.l, val), expr_calc_value(e.r, val))
      [] e.t = "or"   -> Greatest(expr_calc_value(e.l, val), expr_calc_value(e.r, val))
      [] OTHER        -> IF Holds(e.t, Difference(e, val)) THEN 2 ELSE 0

expr_alloc_and(l, r) == IF l = Null THEN r ELSE IF r = Null THEN l ELSE And(l, r)

-----------------------------------------------------------------------------
(* The leaves of a chain of one operator, from left to right, by path.     *)
RECURSIVE Leaves(_, _)
Leaves(e, op) ==
    IF e.t # op THEN <<<<>>>>
    ELSE [i \in DOMAIN Leaves(e.l, op) |-> <<1>> \o Leaves(e.l, op)[i]] \o
         [i \in DOMAIN Leaves(e.r, op) |-> <<2>> \o Leaves(e.r, op)[i]]

RECURSIVE At(_, _)
At(e, p) == IF p = <<>> THEN e ELSE At(IF p[1] = 1 THEN e.l ELSE e.r, Tail(p))

RECURSIVE Put(_, _, _)
Put(e, p, x) ==
    IF p = <<>> THEN x
    ELSE IF p[1] = 1 THEN [e EXCEPT !.l = Put(e.l, Tail(p), x)]
    ELSE [e EXCEPT !.r = Put(e.r, Tail(p), x)]

(* All pairs of a leaf and a leaf, in the order the code meets them.       *)
Pairs(P, Q) == FlattenSeq([i \in DOMAIN P |-> [j \in DOMAIN Q |-> <<P[i], Q[j]>>]])

Unit(op) == IF op = "and" THEN Sym("y") ELSE Sym("n")
Zero(op) == IF op = "and" THEN Sym("n") ELSE Sym("y")

(* expr_eliminate_yn(): the constants y and n below and and or.            *)
RECURSIVE expr_eliminate_yn(_)
expr_eliminate_yn(e) ==
    IF e.t \notin Joins THEN e
    ELSE LET l == expr_eliminate_yn(e.l)
             r == expr_eliminate_yn(e.r)
         IN IF l = Zero(e.t) \/ r = Zero(e.t) THEN Zero(e.t)
            ELSE IF l = Unit(e.t) THEN r
            ELSE IF r = Unit(e.t) THEN l
            ELSE [e EXCEPT !.l = l, !.r = r]

(* What is left of two chains without their common parts: the same symbol. *)
SameLeft(left) == left[1].t = "sym" /\ left[2].t = "sym" /\ left[1].s = left[2].s

(* expr_eq() and expr_eliminate_eq(): in two chains of the same operator   *)
(* every two leaves that are equal become constants; the chains are equal  *)
(* if the rest is the same symbol.                                         *)
RECURSIVE expr_eliminate_eq(_, _), expr_eq(_, _)
expr_eliminate_eq(e1, e2) ==
    LET Cut(es, pq, op) == <<Put(es[1], pq[1], Unit(op)), Put(es[2], pq[2], Unit(op))>>
        Skipped(a, b) == a.t = "sym" /\ a = b /\ a.s \in {"y", "n"}
        Equal(a, b)   == ~Skipped(a, b) /\ expr_eq(a, b)
        OneOp(both, op) ==
            FoldLeft(LAMBDA es, pq :
                        IF Equal(At(es[1], pq[1]), At(es[2], pq[2])) THEN Cut(es, pq, op) ELSE es,
                     both, Pairs(Leaves(both[1], op), Leaves(both[2], op)))
        First(es)  == IF es[1].t \in Joins THEN OneOp(es, es[1].t) ELSE es
        Second(es) == IF es[1].t # es[2].t /\ es[2].t \in Joins THEN OneOp(es, es[2].t) ELSE es
        Rest(es)   == <<expr_eliminate_yn(es[1]), expr_eliminate_yn(es[2])>>
    IN Rest(Second(First(<<e1, e2>>)))
expr_eq(e1, e2) ==
    /\ e1.t = e2.t
    /\ CASE e1.t = "not"    -> expr_eq(e1.l, e2.l)
         [] e1.t \in Joins  -> SameLeft(expr_eliminate_eq(e1, e2))
         [] OTHER           -> e1 = e2

-----------------------------------------------------------------------------
(* The symbol a part of a chain is about, if it is one expr_join_or() and  *)
(* expr_join_and() look at: a symbol, a comparison, or its negation.       *)
About(e, neg) ==
    CASE e.t = "sym" -> e.s
      [] e.t \in {"=", "!="} -> e.a
      [] e.t = "not" /\ e.l.t = "sym" -> e.l.s
      [] e.t = "not" /\ neg /\ e.l.t \in {"=", "!="} -> e.l.a
      [] OTHER -> ""

(* e1 and e2, in either order, are the comparison c with x and with y.     *)
Both(e1, e2, c, x, y) ==
    e1.t = c /\ e2.t = c /\ ((e1.b = x /\ e2.b = y) \/ (e1.b = y /\ e2.b = x))

(* One of them is the symbol and the other its comparison c with x.        *)
SymAnd(e1, e2, c, x) ==
    \/ e1.t = "sym" /\ e2.t = c /\ e2.b = x
    \/ e2.t = "sym" /\ e1.t = c /\ e1.b = x

(* expr_join_or(): one expression for e1 || e2, or none.                   *)
expr_join_or(e1, e2) ==
    LET s == About(e1, TRUE)
    IN CASE expr_eq(e1, e2) -> e1
         [] s = "" \/ s # About(e2, FALSE) -> Null
         [] s \in TriSyms /\ Both(e1, e2, "=", "y", "m") -> Comp("!=", s, "n")
         [] s \in TriSyms /\ Both(e1, e2, "=", "y", "n") -> Comp("!=", s, "m")
         [] s \in TriSyms /\ Both(e1, e2, "=", "m", "n") -> Comp("!=", s, "y")
         [] s \in BoolSyms /\ ({e1, e2} = {Sym(s), Not(Sym(s))}) -> Sym("y")
         [] OTHER -> Null

(* A mutant: (a) && (a!=m) is (a).                                         *)
SymAndNotMod_Kept(s) == Sym(s)

(* (a) && (a!=m) is (a=y).                                                 *)
SymAndNotMod(s) == Comp("=", s, "y")

(* expr_join_and(): one expression for e1 && e2, or none.                  *)
expr_join_and(e1, e2) ==
    LET s == About(e1, TRUE)
        tri == s \in TriSyms
        EqNe(x, y) == IF x.b # y.b THEN Comp("=", s, x.b) ELSE Sym("n")
        known == {e1, e2} \subseteq [t : {"=", "!="}, a : {s}, b : Consts]
    IN CASE expr_eq(e1, e2) -> e1
         [] s = "" \/ s # About(e2, FALSE) \/ s \in Consts -> Null
         [] SymAnd(e1, e2, "=", "y")  -> Comp("=", s, "y")
         [] SymAnd(e1, e2, "!=", "n") -> Sym(s)
         [] SymAnd(e1, e2, "!=", "m") -> SymAndNotMod(s)
         [] tri /\ known /\ e1.t = "=" /\ e2.t = "!=" -> EqNe(e1, e2)
         [] tri /\ known /\ e1.t = "!=" /\ e2.t = "=" -> EqNe(e2, e1)
         [] tri /\ Both(e1, e2, "!=", "y", "n") -> Comp("=", s, "m")
         [] tri /\ Both(e1, e2, "!=", "y", "m") -> Comp("=", s, "n")
         [] tri /\ Both(e1, e2, "!=", "m", "n") -> Comp("=", s, "y")
         [] OTHER -> Null

(* expr_eliminate_dups1(): every two leaves of the chain are joined where  *)
(* they can be, the chains of the other operator below it before.  n is    *)
(* trans_count.                                                            *)
RECURSIVE expr_eliminate_dups1(_)
expr_eliminate_dups1(e) ==
    LET Inner(x)      == IF x.t \in Joins THEN expr_eliminate_dups1(x) ELSE [e |-> x, n |-> 0]
        Join1(x, y)   == IF e.t = "or" THEN expr_join_or(x, y) ELSE expr_join_and(x, y)
        Put2(st, pq, sub, j) ==
            IF j = Null THEN [e |-> Put(st.e, pq[1], sub.e), n |-> st.n + sub.n]
            ELSE [e |-> Put(Put(st.e, pq[1], Unit(e.t)), pq[2], j), n |-> st.n + sub.n + 1]
        Step(st, pq, sub) == Put2(st, pq, sub, Join1(sub.e, At(st.e, pq[2])))
    IN FoldLeft(LAMBDA st, pq :
                   IF pq[1] = pq[2] THEN st ELSE Step(st, pq, Inner(At(st.e, pq[1]))),
                [e |-> e, n |-> 0], Pairs(Leaves(e, e.t), Leaves(e, e.t)))

(* expr_eliminate_dups(): until nothing changes.                           *)
RECURSIVE expr_eliminate_dups(_)
expr_eliminate_dups(e) ==
    IF e.t \notin Joins THEN e
    ELSE LET Again(r) == IF r.n = 0 THEN r.e ELSE expr_eliminate_dups(expr_eliminate_yn(r.e))
         IN Again(expr_eliminate_dups1(e))

-----------------------------------------------------------------------------

(* The comparison that holds when c does not.                              *)
Negated(c) ==
    CASE c = "=" -> "!=" [] c = "!=" -> "=" [] c = "<=" -> ">" [] c = ">=" -> "<"
      [] c = "<" -> ">=" [] c = ">" -> "<="

(* A comparison of a boolean symbol with a constant.                       *)
BoolComp(e) ==
    LET s == Sym(e.a) eq == e.t = "="
    IN CASE e.b = "n" -> IF eq THEN Not(s) ELSE s
         [] e.b = "m" -> IF eq THEN Sym("n") ELSE Sym("y")
         [] e.b = "y" -> IF eq THEN s ELSE Not(s)
         [] OTHER -> e

(* expr_transform(): negations are moved to the symbols, comparisons of    *)
(* boolean symbols with constants removed.                                 *)
RECURSIVE expr_transform(_)
expr_transform(e) ==
    LET d == CASE e.t \in Joins -> [e EXCEPT !.l = expr_transform(e.l), !.r = expr_transform(e.r)]
               [] e.t = "not"   -> Not(expr_transform(e.l))
               [] OTHER         -> e
    IN CASE d.t \in {"=", "!="} /\ d.a \in BoolSyms -> BoolComp(d)
         [] d.t = "not" /\ d.l.t = "not" -> expr_transform(d.l.l)
         [] d.t = "not" /\ d.l.t \in Comparisons -> [d.l EXCEPT !.t = Negated(d.l.t)]
         [] d.t = "not" /\ d.l.t = "or"  -> expr_transform(And(Not(d.l.l), Not(d.l.r)))
         [] d.t = "not" /\ d.l.t = "and" -> expr_transform(Or(Not(d.l.l), Not(d.l.r)))
         [] d.t = "not" /\ d.l = Sym("y") -> Sym("n")
         [] d.t = "not" /\ d.l = Sym("m") -> Sym("m")
         [] d.t = "not" /\ d.l = Sym("n") -> Sym("y")
         [] OTHER -> d

(* expr_trans_bool(), for a symbol that is not a tristate: FOO!=n is FOO.  *)
RECURSIVE expr_trans_bool(_)
expr_trans_bool(e) ==
    CASE e.t \in Joins -> [e EXCEPT !.l = expr_trans_bool(e.l), !.r = expr_trans_bool(e.r)]
      [] e.t = "not"   -> Not(expr_trans_bool(e.l))
      [] e.t = "!="    -> IF e.a \in TriSyms /\ e.b = "n" THEN Sym(e.a) ELSE e
      [] OTHER         -> e

(* expr_trans_compare(): the expression that says e = sym or e != sym, for *)
(* sym y or n (c is "=" or "!=").                                          *)
RECURSIVE expr_trans_compare(_, _, _)
expr_trans_compare(e, c, sym) ==
    LET Signed(x) == IF c = "!=" THEN Not(x) ELSE x
        l == expr_trans_compare(e.l, "=", sym)
        r == expr_trans_compare(e.r, "=", sym)
    IN CASE e.t = "null" -> Signed(Sym(sym))
         [] e.t = "and" -> Signed(IF sym = "y" THEN And(l, r) ELSE Or(l, r))
         [] e.t = "or"  -> Signed(IF sym = "y" THEN Or(l, r) ELSE And(l, r))
         [] e.t = "not" -> expr_trans_compare(e.l, Negated(c), sym)
         [] e.t = "sym" -> Comp(c, e.s, sym)
         [] OTHER -> IF (c = "=") = (sym = "y") THEN e ELSE Not(e)

(* expr_contains_symbol() and expr_depends_symbol().                       *)
RECURSIVE expr_contains_symbol(_, _)
expr_contains_symbol(e, s) ==
    CASE e.t = "null" -> FALSE
      [] e.t \in Joins -> expr_contains_symbol(e.l, s) \/ expr_contains_symbol(e.r, s)
      [] e.t = "not" -> expr_contains_symbol(e.l, s)
      [] e.t = "sym" -> e.s = s
      [] OTHER -> s \in {e.a, e.b}

RECURSIVE expr_depends_symbol(_, _)
expr_depends_symbol(e, s) ==
    CASE e.t = "and" -> expr_depends_symbol(e.l, s) \/ expr_depends_symbol(e.r, s)
      [] e.t = "sym" -> e.s = s
      [] e.t = "="   -> e.a = s /\ e.b \in {"y", "m"}
      [] e.t = "!="  -> e.a = s /\ e.b = "n"
      [] OTHER       -> FALSE

(* menu_finalize(): the visibility of a property below a menu.             *)
Visibility(parent, dep, tristate) ==
    LET Typed(v) == IF tristate THEN v ELSE expr_trans_bool(v)
    IN Typed(expr_eliminate_dups(expr_alloc_and(parent, expr_transform(dep))))
=============================================================================

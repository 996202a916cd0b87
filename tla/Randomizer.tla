------------------------------ MODULE Randomizer ------------------------------
(* decomp-permuter/src/randomizer.py: Randomizer.randomize applies one randomly *)
(* chosen pass to the body of the function; a pass that raises                  *)
(* RandomizationFailure is tried again as another. The permuter randomizes a    *)
(* candidate again and again, so a state is what the passes so far have left.   *)
EXTENDS RandExprs, RandStmts, RandVars

VARIABLES fn,          \* the body
          inlines,     \* the inline functions before it: name -> body
          first,       \* the body at the beginning
          history,     \* the passes so far
          region,      \* where the last one was to work
          shared       \* it left some node in the tree twice
randVars == <<fn, inlines, first, history, region, shared>>

Starts == Plans[plan].starts         \* functions to begin with
Methods == Plans[plan].methods       \* the passes with a weight above zero
MaxPasses == Plans[plan].passes      \* bound: passes in a behaviour

RInit ==
    /\ plan \in DOMAIN Plans
    /\ first \in {Number(t, 1) : t \in Starts}
    /\ fn = first /\ inlines = <<>> /\ history = <<>> /\ region = Unbounded
    /\ shared = FALSE

Results(m, r) ==
    CASE m = "perm_temp_for_expr" -> perm_temp_for_expr(fn, r)
      [] m = "perm_expand_expr" -> perm_expand_expr(fn, r)
      [] m = "perm_reorder_stmts" -> perm_reorder_stmts(fn, r)
      [] m = "perm_reorder_decls" -> perm_reorder_decls(fn, r)
      [] m = "perm_add_mask" -> perm_add_mask(fn, r)
      [] m = "perm_xor_zero" -> perm_xor_zero(fn, r)
      [] m = "perm_cast_simple" -> perm_cast_simple(fn, r)
      [] m = "perm_refer_to_var" -> perm_refer_to_var(fn, r)
      [] m = "perm_split_assignment" -> perm_split_assignment(fn, r)
      [] m = "perm_sameline" -> perm_sameline(fn, r)
      [] m = "perm_ins_block" -> perm_ins_block(fn, r)
      [] m = "perm_empty_stmt" -> perm_empty_stmt(fn, {"label1", "label2"})
      [] m = "perm_condition" -> perm_condition(fn, r)
      [] m = "perm_mult_zero" -> perm_mult_zero(fn, r)
      [] m = "perm_factor_mult" -> perm_factor_mult(fn, r)
      [] m = "perm_factor_shift" -> perm_factor_shift(fn, r)
      [] m = "perm_dummy_comma_expr" -> perm_dummy_comma_expr(fn, r)
      [] m = "perm_add_self_assignment" -> perm_add_self_assignment(fn, r)
      [] m = "perm_commutative" -> perm_commutative(fn, r)
      [] m = "perm_add_sub" -> perm_add_sub(fn, r)
      [] m = "perm_inequalities" -> perm_inequalities(fn, r)
      [] m = "perm_compound_assignment" -> perm_compound_assignment(fn, r)
      [] m = "perm_remove_ast" -> perm_remove_ast(fn, r)
      [] m = "perm_duplicate_assignment" -> perm_duplicate_assignment(fn, r)
      [] m = "perm_chain_assignment" -> perm_chain_assignment(fn, r)
      [] m = "perm_long_chain_assignment" -> perm_long_chain_assignment(fn, r)
      [] m = "perm_pad_var_decl" -> perm_pad_var_decl(fn)

Commit(g) == fn' = Number(g, 1) /\ shared' = HasShared(g)

\* An inline function comes before the function; every other pass changes only
\* the body.
randomize(m) ==
    /\ Len(history) < MaxPasses
    /\ \E r \in Regions(fn) :
          /\ region' = r
          /\ IF m = "perm_inline"
             THEN \E x \in perm_inline(fn, r, DOMAIN inlines) :
                      Commit(x.fn) /\ inlines' = (x.name :> x.body) @@ inlines
             ELSE \E g \in Results(m, r) : Commit(g) /\ UNCHANGED inlines
    /\ history' = Append(history, m)
    /\ UNCHANGED <<plan, first>>

RNext == \E m \in Methods : randomize(m)
=============================================================================

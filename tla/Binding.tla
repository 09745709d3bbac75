------------------------------- MODULE Binding -------------------------------
(***************************************************************************)
(* Let(v, LAMBDA x : e) is LET x == v IN e.  Functions of the code call    *)
(* one another to a depth at which LET is expensive: TLC repeats v for     *)
(* each use of x in the tree it keeps its statistics in, and the tree      *)
(* grows with the product of the uses.  A bound variable stands for its    *)
(* value once.  LET is used where v is small.                              *)
(***************************************************************************)

Let(value, In(_)) == In(value)

\* The function f with f[n] = Body(f, n) on S: LET f[n \in S] == ... IN f.
Fn(S, Body(_, _)) == LET f[n \in S] == Body(f, n) IN f

\* The same with two arguments.
Fn2(S, T, Body(_, _, _)) == LET f[m \in S, n \in T] == Body(f, m, n) IN f
=============================================================================

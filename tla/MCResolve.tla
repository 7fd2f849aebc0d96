----------------------------- MODULE MCResolve -----------------------------
(* Two games, and the categories that could be mistaken for them: twins that *)
(* differ by case, a duplicate, a series, subtitles.                       *)
EXTENDS Resolve

N(words, seps, case) == [words |-> words, seps |-> seps, case |-> case]
C(name, id) == [name |-> name, id |-> id]

A == N(<<"A">>, <<>>, "x")
AB(sep, case) == N(<<"A", "B">>, <<sep>>, case)

MCTitles ==
    {A, AB("dash", "x"),
     N(<<"A", "Gold Edition", "Deluxe", "(2013)">>, <<"space", "dash", "space">>, "x"),
     N(<<"A", "B", "C">>, <<"colon", "dash">>, "x"),
     N(<<"A", "Beta">>, <<"dash">>, "x"),
     N(<<"D">>, <<>>, "x")}

MCCategories ==
    {C(A, 1), C([A EXCEPT !.case = "y"], 2), C(A, 3),
     C(AB("colon", "x"), 4), C(AB("colon", "y"), 5), C(AB("dash", "x"), 6),
     C(N(<<"A", "B", "C">>, <<"colon", "space">>, "x"), 7)}

MCAliases == (<<<<"D">>, <<>>>> :> A)
=============================================================================

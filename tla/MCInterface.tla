---------------------------- MODULE MCInterface ----------------------------
(* A small instance of Interface for TLC. *)
EXTENDS Interface, TLC

\* A configuration of the kit that exercises all of it (the program mounts one
\* provider, docked and without a peek): the shell encloses a frame with a demo
\* of the sidebar, and another sidebar stands aside.
PageEnclosing ==
    ("body" :> {"body"}) @@ ("shell" :> {"body", "shell"}) @@ ("row" :> {"body", "shell", "row"})
    @@ ("frame" :> {"body", "shell", "frame"}) @@ ("demo" :> {"body", "shell", "frame", "demo"})
    @@ ("inner" :> {"body", "shell", "frame", "demo", "inner"}) @@ ("aside" :> {"body", "aside"})

\* Two root rows, one with a sub-menu; two rows at a time.
PageHosts == ("a" :> None) @@ ("b" :> None) @@ ("a1" :> "a")
PageDocuments == {<<>>, <<"a">>, <<"b">>, <<"a", "a1">>, <<"a", "b">>, <<"b", "a">>}

\* Pointer moves on a switch: within and beyond the dead zone and the midpoint.
PageMoves == {-14, -6, -1, 1, 6, 14}
=============================================================================

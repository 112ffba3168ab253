----------------------------- MODULE MCGlFront -----------------------------
(* One OpenGL context, for the lock keeps two apart, and three views: two   *)
(* of one size, one of them shown larger, and one of another size.          *)
EXTENDS GlFront

CONSTANTS k1

SomeViews == {[extent |-> 2, shown |-> 2], [extent |-> 2, shown |-> 4], [extent |-> 3, shown |-> 5]}
=============================================================================

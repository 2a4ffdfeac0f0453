--------------------------- MODULE MCDesignCanvas ---------------------------
(* DesignCanvas for TLC: three sections, the last two with one artboard; in  *)
(* the second revision an artboard of the first section is another.          *)
EXTENDS DesignCanvas

MCSections == <<"A", "B", "C">>
Revision(x) == [s \in {"A", "B", "C"} |-> CASE s = "A" -> <<"a1", x>>
                                            [] s = "B" -> <<"b">>
                                            [] OTHER   -> <<"c">>]
MCSources == {Revision("a2"), Revision("a3")}
=============================================================================

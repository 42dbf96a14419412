--------------------------- MODULE MCTabNavigation ---------------------------
(* Small instances of TabNavigation for TLC.                                 *)
EXTENDS TabNavigation

CONSTANTS A, B, C

\* A tab that came a long way, and one that went back.
SomePasts == {<<<<B, A>>, <<B>>>>}
==============================================================================

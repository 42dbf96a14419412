--------------------------- MODULE MCOperationLanes ---------------------------
(* Small instances of OperationLanes for TLC.                                *)
EXTENDS OperationLanes

LocalAndNetwork == {<<"Copy", "Local">>, <<"Copy", "Network">>}
LocalCopies     == {<<"Copy", "Local">>}
LocalDeletes    == {<<"RecycleDelete", "Local">>, <<"PermanentDelete", "Local">>}

\* How a round ends when only the order of events matters: all done, all left.
Done == [succeeded |-> TRUE, failed |-> FALSE, retained |-> FALSE, left |-> FALSE]
Left == [Done EXCEPT !.succeeded = FALSE, !.left = TRUE]
DoneOrLeft == {Done, Left}

\* The ends that leave something to do again: one item failed beside another that
\* succeeded, or all are left.
Mixed == [Done EXCEPT !.failed = TRUE]
MixedOrLeft == {Mixed, Left}
==============================================================================

------------------------------ MODULE MCHotPath ------------------------------
EXTENDS HotPath

\* The first event is a child of the second: a child's span closes first.
ChildFirst == <<2, 0>>
=============================================================================

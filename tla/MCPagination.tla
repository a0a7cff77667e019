---------------------------- MODULE MCPagination ----------------------------
(* Pages of one to three rows, two by default; sizes out of range, one that *)
(* becomes a row per page as an int32, and one that becomes negative.       *)
EXTENDS Pagination

SomeSizes == {-1, 0, 1, 3, 4, 8, 17, NoSize}
=============================================================================

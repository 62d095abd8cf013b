------------------------------ MODULE MCPaging ------------------------------
(* A small layout of a process, with two entries per table: two pages in    *)
(* one page table, one of the program and one of the kernel's, as the       *)
(* context page is.                                                         *)
EXTENDS Paging

Code == [at |-> <<0, 0, 0, 1>>, large |-> FALSE, user |-> TRUE]
Context == [at |-> <<0, 0, 0, 0>>, large |-> FALSE, user |-> FALSE]
Small == {Code, Context}
ParamCode == {Code.at}
ScreenAt == <<1, 1, 0, 1>>
None == <<>>
=============================================================================

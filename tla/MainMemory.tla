------------------------------ MODULE MainMemory ------------------------------
(***************************************************************************)
(* main_memory: a page table, filled as pages are written to, behind the   *)
(* two transport calls of the controller.  A transfer is an address and    *)
(* the words that go to or come from there; all of it is looked up in the  *)
(* page of its first address.  pt stands for the page table, a function    *)
(* from the numbers of the loaded pages to their contents.                 *)
(***************************************************************************)
EXTENDS AddressMap

CONSTANTS
    PageSize,   \* PAGE_SIZE
    Values      \* the values of a word

\* A line lies in one page: a transfer that leaves its page has no meaning, the
\* code would read or write past the end of the page's vector.
ASSUME PageSizeAssumption == PageSize \in Nat \ {0} /\ PageSize % LineSize = 0
ASSUME ValuesAssumption   == 0 \in Values

PageOffsets == 0 .. PageSize - 1

PageNumber(a) == a \div PageSize
PageOffset(a) == a % PageSize

\* No page is loaded.
NoPages == [p \in {} |-> [o \in PageOffsets |-> 0]]

\* A page table, however many pages it holds.
IsPageTable(pt) ==
    /\ DOMAIN pt \subseteq Nat
    /\ \A p \in DOMAIN pt : pt[p] \in [PageOffsets -> Values]

LoadPage(pt, p) ==
    [q \in DOMAIN pt \union {p} |-> IF q = p THEN [o \in PageOffsets |-> 0] ELSE pt[q]]

\* A faulty WithPage, for testing the properties: every write starts from a new
\* page.
WithNewPage(pt, p) == LoadPage(pt, p)

WithPage(pt, p) == IF p \in DOMAIN pt THEN pt ELSE LoadPage(pt, p)

\* main_memory::read: word i of the transfer from address a.
ReadMemory(pt, a, i) ==
    IF PageNumber(a) \in DOMAIN pt THEN pt[PageNumber(a)][PageOffset(a) + i] ELSE 0

\* main_memory::write of the words of block, a function from 0 .. n - 1.
WriteMemory(pt, a, block) ==
    [WithPage(pt, PageNumber(a)) EXCEPT ![PageNumber(a)] =
        [o \in PageOffsets |->
            IF o - PageOffset(a) \in DOMAIN block THEN block[o - PageOffset(a)] ELSE @[o]]]

=============================================================================

------------------------------- MODULE Paging -------------------------------
(***************************************************************************)
(* Pages of a list, as the persistence modules cut them                    *)
(* (internal/pagination and the stores) and as the HTTP handlers ask for   *)
(* them (internal/api/handlers/pagination.go).                             *)
(*                                                                         *)
(* The modules count in 32-bit integers, the handlers in 64-bit ones: Half *)
(* stands for 2^31, the integers of a module are -Half .. Half - 1.        *)
(***************************************************************************)
EXTENDS Integers

CONSTANTS Half, DefaultPerPage, MaxPerPage, HandlerDefault

ASSUME PagingAssumption ==
  /\ Half \in Nat
  /\ MaxPerPage \in Nat /\ MaxPerPage < Half
  /\ DefaultPerPage \in 1 .. MaxPerPage
  /\ HandlerDefault \in 1 .. MaxPerPage

\* The conversion to, and the arithmetic in, the integers of a module.
Int32(n) == ((n + Half) % (2 * Half)) - Half

\* What a request for page n (0: not given, not a number or not positive) and
\* for n items per page asks of the module.
AskedPage(n) == IF n > 0 THEN n ELSE 1
AskedPerPage(n) ==
  IF n <= 0 THEN HandlerDefault ELSE IF n > MaxPerPage THEN MaxPerPage ELSE n

\* pagination.Parse.
Page(n) == IF n > 0 THEN n ELSE 1
PerPage(n) ==
  IF n <= 0 THEN DefaultPerPage ELSE IF n > MaxPerPage THEN MaxPerPage ELSE n

\* How many items come before a page.
Offset(page, per) == Int32((page - 1) * per)

\* Where a page ends, as Redis' store computes it.
End(page, per) == Int32(Offset(page, per) + per)

\* The pages whose arithmetic stays within 32 bits.
Fits(page, per) == page * per < Half

\* The positions of a list of total items that a page shows.
Shown(page, per, total) ==
  { i \in 1 .. total : Offset(page, per) < i /\ i <= Offset(page, per) + per }

\* pagination.Info.
TotalPages(per, total) ==
  (total \div per) + (IF total % per > 0 THEN 1 ELSE 0)

\* The handlers' own count of the pages.
HandlerPages(per, total) == (total + per - 1) \div per

=============================================================================

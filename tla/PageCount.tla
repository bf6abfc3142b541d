----------------------------- MODULE PageCount -----------------------------
(***************************************************************************)
(* The arithmetic of the paginated screens: what getItemList makes of the  *)
(* fields total and per_page of an answer, and the number of pages that    *)
(* the server really has.                                                  *)
(***************************************************************************)
EXTENDS Integers

\* (total / per_page).round() + 1: Dart rounds half up for values >= 0.
TotalPage(total, perPage) == (2 * total + perPage) \div (2 * perPage) + 1

\* The last page that holds an item.
LastPage(total, perPage) == (total + perPage - 1) \div perPage
=============================================================================

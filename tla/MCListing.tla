------------------------------ MODULE MCListing ------------------------------
(* Instances of Listing for TLC. *)
EXTENDS Listing

MCTrio == 1 .. 3

NoFilter == [topics |-> {}, visibility |-> {}, patterns |-> {}, archived |-> {}]

MCRepo ==
  {[topics |-> {}, visibility |-> {"private"}, patterns |-> {}, archived |-> {FALSE}],
   [topics |-> {"team"}, visibility |-> {"public"}, patterns |-> {"api-*"}, archived |-> {TRUE}]}

MCSelectors ==
  {[include |-> NoFilter, exclude |-> NoFilter],
   [include |-> NoFilter, exclude |-> [NoFilter EXCEPT !.archived = {TRUE}, !.topics = {"team"}]],
   [include |-> [NoFilter EXCEPT !.visibility = {"private", "public"}, !.patterns = {"api-*"}],
    exclude |-> NoFilter]}

MCCalls == Discovery \cup Sources
===============================================================================

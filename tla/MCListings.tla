---------------------------- MODULE MCListings ----------------------------
(* The catalogue for TLC: what administrators and visitors choose from. *)
EXTENDS Listings

CategoriesUsed == {{}, {"MUSIC", "OTHER"}}

FiltersUsed ==
  {[every |-> {}, dates |-> Years \cup {NoDate}],
   [every |-> {"OTHER"}, dates |-> {2025}]}
=============================================================================

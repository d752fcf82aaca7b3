------------------------------ MODULE MCCampus ------------------------------
(* Campus for TLC: two institutions, whose first entries are there already. *)
EXTENDS Campus

CONSTANTS a, b

\* The slug of the second title is what the first one gets with the suffix.
MCSlugify(title) ==
  IF title = "Water, ab12" THEN <<"water", "ab12">> ELSE <<"water">>

Manuscript(kind, i, title, shown) ==
  [kind |-> kind, institution |-> i, title |-> title, shown |-> shown]

MCManuscripts ==
  {Manuscript("news", a, "Water", TRUE), Manuscript("news", a, "Water, ab12", FALSE),
   Manuscript("handbook", a, "Water", FALSE), Manuscript("handbook", a, "Water, ab12", TRUE),
   Manuscript("handbook", b, "Water", TRUE)}

News(i, published) ==
  [kind |-> "news", institution |-> i, slug |-> <<"water">>, publishedAt |-> published, expiresAt |-> NULL]
Entry(i, published) ==
  [kind |-> "handbook", institution |-> i, slug |-> <<"water">>, isPublished |-> published, helpfulCount |-> 0]

MCBefore == {<<News(a, NULL), Entry(a, TRUE), Entry(b, FALSE)>>}

=============================================================================

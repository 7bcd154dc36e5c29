-------------------------- MODULE MCMccsRetrieval ---------------------------
(* Texts around the bounds: in one pair of parentheses, in several         *)
(* sections, of a vcp section with and without lists, none at all, and     *)
(* ones the parser refuses.                                                *)
EXTENDS MccsCapabilities

MCTexts ==
  {TextOf(<<>>, {}),
   TextOf(<<"x", "(", ")">>, {3}),
   TextOf(<<"v", "(", "1">>, {}),
   TextOf(<<"v", "(", "1", "0", ")">>, {5}),
   TextOf(<<"(", "x", "(", "v", "(", ")", ")", ")">>, {8}),
   TextOf(<<"x", "-", "(", ")", "v", "(", "A", "1", ")">>, {4, 9}),
   TextOf(<<"v", "(", "1", "A", "(", "0", "1", ")", ")">>, {9}),
   TextOf(<<"v", "(", "1", "A", " ", "1", "a", ")">>, {}),
   TextOf(<<"(", "v", "(", "1", "0", " ", "1", "1", ")", ")">>, {10}),
   TextOf(<<"v", "(", "1", "0", ")", "v", "(", "1", "0", ")">>, {5}),
   TextOf(<<" ", "v", " ", "(", "1", "a", "(", "0", "1", ")", ")">>, {})}

MCManners == {"exact", "short", "erratic"}
=============================================================================

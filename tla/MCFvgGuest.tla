------------------------------ MODULE MCFvgGuest ------------------------------
(* Two scenes: clips inside clips, next to each other and around nothing,  *)
(* and a path before, between and after them.                              *)
EXTENDS FvgGuest

Fill(rule, o) == [paint |-> "color", opacity |-> o, rule |-> rule]
Pattern == [paint |-> "pattern", opacity |-> "o", rule |-> "nonzero"]
Clip(p, rule) == <<Path(p, TRUE, Fill(rule, "o"), None), Group("o", None, 2)>>

Nested ==
    <<Group("r", None, 9),
      Path("a", TRUE, Fill("nonzero", "o"), None),
      Group("g", Clip("c", "nonzero"), 6),
      Group("h", Clip("d", "evenodd"), 5),
      Path("b", TRUE, Fill("nonzero", "p"), Fill("nonzero", "q")),
      Path("e", TRUE, None, Fill("nonzero", "o")),
      Text,
      Group("i", Clip("c", "evenodd"), 9),
      Path("f", TRUE, Fill("nonzero", "o"), None)>>

Skipped ==
    <<Group("r", Clip("c", "nonzero"), 5),
      Path("a", FALSE, Fill("nonzero", "o"), None),
      Path("b", TRUE, Pattern, None),
      Group("g", Clip("d", "nonzero"), 4),
      Path("e", TRUE, Pattern, Fill("nonzero", "o"))>>

MCScenes == <<Nested, Skipped>>
=============================================================================

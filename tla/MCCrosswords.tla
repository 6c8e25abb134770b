---------------------------- MODULE MCCrosswords ----------------------------
(***************************************************************************)
(* Programs of run terminal: the operations that can interfere, together,  *)
(* on screens just large enough.  Two history lines let a view follow the  *)
(* output once and not twice.                                              *)
(***************************************************************************)
EXTENDS Crosswords

MCPrograms ==
    LET On(sizes, limit, ops) == [sizes |-> sizes, max_scroll_limit |-> limit, ops |-> ops]
        small == {<<2, 2>>}
        two == {<<2, 2>>, <<1, 3>>}
    IN  {On(two, 2, {"a", "E", "NEL", "resize"}),
         On({<<2, 2>>, <<1, 4>>}, 1, {"a", "E", "NEL", "resize"}),
         On(small, 2, {"a", "LF", "view", "render"}),
         On(small, 2, {"RI", "LF", "SD", "region", "DECALN", "render"}),
         On(small, 1, {"a", "DL", "IL", "SU", "render"}),
         On(small, 1, {"a", "EL", "ED", "render"}),
         On(small, 1, {"a", "swap_alt", "render"}),
         On(small, 1, {"e", "VS16", "VS15", "combine", "BS", "LINE_WRAP"}),
         On(small, 1, {"keys", "swap_alt", "reset_state"}),
         On({<<1, 3>>}, 0, {"a", "E", "CR", "ECH", "DCH", "ICH"}),
         On({<<1, 3>>}, 0, {"a", "CR", "INSERT", "DECCOLM", "render"}),
         On(two, 1, {"swap_alt", "save", "resize", "move"}),
         On(two, 1, {"goto", "goto_one", "region", "ORIGIN", "save", "resize"}),
         On({<<1, 2>>, <<1, 3>>}, 0, {"tab", "move_tabs", "set_tabs", "resize"})}

MCSizes == UNION {p.sizes : p \in MCPrograms}
=============================================================================

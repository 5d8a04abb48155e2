--------------------------- MODULE MCConversation --------------------------
(* Values for the constants of Conversation that a .cfg cannot write. *)
EXTENDS Conversation

Each(a, b) == [p \in Side |-> IF p = "alice" THEN a ELSE b]

None == Each({}, {})
AliceOnly == Each({2}, {})
BothTie == Each({2}, {1, 2})
Same == Each({1}, {1})

M20 == Each(2, 0)
M21 == Each(2, 1)
M10 == Each(1, 0)
============================================================================

----------------------------- MODULE MCSessions -----------------------------
(* Answers of Claude models: with and without calls, with reasoning between *)
(* the calls, and one that is larger than all that may be remembered.       *)
EXTENDS Sessions

MCShapes ==
    { <<"text">>, <<"tool_use">>, <<"thinking", "text", "tool_use">>,
      <<"tool_use", "thinking", "tool_use">>, <<"thinking", "thinking", "tool_use">> }
MCBlockSize == [text |-> 2, tool_use |-> 2, thinking |-> 8]

Symmetry == Permutations(Accounts) \cup Permutations(Settings)
=============================================================================

---------------------------- MODULE MCPrefixCache ----------------------------
(* Blocks of two tokens, a budget of four pages.  The prompts share one      *)
(* token, one block and two blocks, one extends another, two have a partial  *)
(* last block: splits between blocks, chains, in-place removals and ties.    *)
EXTENDS PrefixCache

SharedPrefixes == { <<1, 1, 1, 1, 1>>,        \* two blocks and a tail
                    <<1, 1, 1, 2>>,           \* splits inside the second block
                    <<1, 1, 1, 1, 2, 2>>,     \* extends the first prompt
                    <<1, 2, 1>>,              \* splits inside the first block
                    <<2, 1, 1, 1>> }          \* shares nothing
=============================================================================

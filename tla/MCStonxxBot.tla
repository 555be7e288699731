----------------------------- MODULE MCStonxxBot -----------------------------
(* The two threads that carry out a plan, over one or two symbols.         *)
EXTENDS StonxxBot
CONSTANTS s1, s2, cron, executor
OneSymbol == {s1}
TwoSymbols == {s1, s2}
MCCallers == {cron, executor}
MCPrices == {1, 2}
==============================================================================

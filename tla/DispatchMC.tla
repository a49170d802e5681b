---------------------------- MODULE DispatchMC ----------------------------
(* Instance: two of the prompts tie two categories, one entry is external, *)
(* two ids share an alias, and two relays share a city.                    *)
EXTENDS Dispatch

MCListed == Categories \cup {"coder-hard"}
MCVerdicts ==
  { MCListed, {"coder-hard"}, {"coder", "research"}, MCListed \ {"coder", "thinker"},
    MCListed \ {"vision", "coder-hard"} }
MCPrompts ==
  { [msg |-> "text", score |-> [c \in Categories |-> IF c \in {"coder", "vision"} THEN 2 ELSE 1], hard |-> 2],
    [msg |-> "text", score |-> [c \in Categories |-> IF c = "vision" THEN 2 ELSE 1], hard |-> 1],
    [msg |-> "image", score |-> [c \in Categories |-> 0], hard |-> 0],
    [msg |-> "none", score |-> [c \in Categories |-> 0], hard |-> 0] }
MCPasses == {{}, Categories, {"thinker", "vision"}}
MCRegistry ==
  [ loop |-> [enabled |-> TRUE, external |-> FALSE, nothink |-> FALSE, names |-> {"chat"}],
    plain |-> [enabled |-> TRUE, external |-> FALSE, nothink |-> TRUE, names |-> {"chat"}],
    stub |-> [enabled |-> TRUE, external |-> TRUE, nothink |-> FALSE, names |-> {}],
    off |-> [enabled |-> FALSE, external |-> FALSE, nothink |-> FALSE, names |-> {}] ]
MCRelays ==
  [ s1 |-> [country |-> "se", city |-> "sto"], s2 |-> [country |-> "se", city |-> "sto"],
    u1 |-> [country |-> "us", city |-> "nyc"] ]
MCSpecs ==
  { Default, [host |-> "", country |-> "eu", city |-> ""], [host |-> "", country |-> "any", city |-> ""],
    [host |-> "s1", country |-> "se", city |-> "sto"] }
=============================================================================

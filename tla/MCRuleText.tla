---- MODULE MCRuleText ----
\* Clients, specs and texts are interchangeable.
EXTENDS RuleText, TLC

Symmetry == Permutations(Clients) \union Permutations(Specs) \union Permutations(Texts)

====

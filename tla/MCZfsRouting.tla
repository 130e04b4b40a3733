----------------------------- MODULE MCZfsRouting -----------------------------
(***************************************************************************)
(* Model-checking instance of ZfsRouting: two callers on one node.  Tables *)
(* have no pool or the pool "local" with one rule; the rule's range is     *)
(* "0:F" (valid), "0" (XX without :YY), "0:FF" (lengths differ) or "x"    *)
(* (not hex), its destination a redis:// or an http:// url; lookup and     *)
(* cache name no pool, "local", or "p2" (never defined).                   *)
(***************************************************************************)
EXTENDS ZfsRouting

CONSTANTS c1, c2

MCPoolNames == {"local", "p2"}
MCSchemes == {"redis", "http"}
MCRanges == {<<"h", ":", "h">>, <<"h">>, <<"h", ":", "h", "h">>, <<"g">>}

NoPools == [p \in {} |-> [range |-> <<"h">>, dest |-> "redis"]]
MCPools == {NoPools} \cup {"local" :> [range |-> r, dest |-> d] : r \in MCRanges, d \in MCSchemes}
NameLists == {<<>>, <<"local">>, <<"p2">>}
MCTables == [pools: MCPools, lookup: NameLists, cache: NameLists]

\* Every one-rule pool whose range is a token string of up to four tokens.
RangeStrings(n) == UNION {[1..k -> {"h", "g", ":"}] : k \in 1..n}
GrammarTables ==
    [pools: {"local" :> [range |-> r, dest |-> "redis"] : r \in RangeStrings(4)},
     lookup: {<<"local">>}, cache: {<<"local">>}]

MCCallers == {c1, c2}
AllOps == (c1 :> Ops) @@ (c2 :> {"get", "set"})
ReadSetOps == (c1 :> {"get", "set"}) @@ (c2 :> {"get", "set"})
SetOps == (c1 :> {"set", "set_cache"}) @@ (c2 :> {"set", "set_cache"})
====

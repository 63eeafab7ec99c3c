----------------------------- MODULE MCKVGraph -----------------------------
(* Small instances of the graph: a node whose targets are defined in many   *)
(* ways, and the nodes that may be its targets.                             *)
EXTENDS KVGraph

a == <<1>>
aDir == <<2>>
ab == <<2, 1>>
abc == <<2, 1, 1>>
src == <<3>>

K3 == {ab, abc, src}
One == {src}
Own == {src, ab}
NoChars == {}

\* by key; by prefixes of different depth, one below the other; by a selector that changes
Defs == {{KeyDef(1, ab)},
         {PrefixDef(1, <<Prefix(aDir, TRUE)>>), KeyDef(2, abc)},
         {PrefixDef(1, <<Prefix(ab, TRUE), Prefix(aDir, TRUE)>>), SelectorDef(2, <<>>, {abc, src})},
         {SelectorDef(2, <<>>, {ab})}}

\* the name 5 begins with the name 4
gw == <<4>>
gwLong == <<5>>
KChars == {gw, gwLong, src}
Chars == {<<4, 5>>}
CharDefs == {{PrefixDef(1, <<Prefix(gw, FALSE)>>)}}

\* the first instance satisfies what the theorems of KVGraphProofs assume
ASSUME InstanceAssumption == CharPrefix = {} => DirectoryPrefixes /\ SelectorsKept
=============================================================================

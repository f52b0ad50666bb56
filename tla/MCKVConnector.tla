---- MODULE MCKVConnector ----
EXTENDS KVConnector

CONSTANTS ka, kb

\* A save of one key that gives its blocks only, two saves of another key, of which the
\* second stores fewer blocks than its tokens fill, and a restore
MCKeyOf == <<kb, ka, ka, ka>>
MCTokens == <<2, 4, 4, 4>>
MCMatched == <<0, 4, 4, 4>>
MCSaveBlocks == <<1, None, 1, None>>
====

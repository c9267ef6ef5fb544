----------------------------- MODULE MCRouterHistory -----------------------------
(* Two connections, two gets for one topic, a publication and three        *)
(* replies, with caches small enough for ids to be forgotten.              *)
EXTENDS RouterHistory

CONSTANTS t1, x

HistoryGets == {GetMessage("g1", t1, None), GetMessage("g2", t1, x)}

HistoryPuts == {PutMessage("p1", <<t1>>, None, None),
                PutMessage("r1", <<t1>>, "g1", x),
                PutMessage("r2", <<t1>>, "g1", None),
                PutMessage("r3", <<t1>>, "g2", x)}
==================================================================================

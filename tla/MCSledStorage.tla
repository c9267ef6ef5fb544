------------------------------ MODULE MCSledStorage ------------------------------
(* Small databases.  Warmth is the formula of update_priority,             *)
(*   max(0.1, log10(1000000 / size)) * log10(times_opened + 10),           *)
(* truncated, for the sizes used: data of 8 bytes has priority 5, of 13    *)
(* bytes 4 (5 once opened), of 90 bytes 4, of 126 bytes 3 (4 once opened). *)
EXTENDS SledStorage

CONSTANTS mine, signed, public, meta, a, b

MCWarmth(bytes, times_opened) ==
  CASE bytes = 8   -> IF times_opened < 6 THEN 5 ELSE 6
    [] bytes = 13  -> IF times_opened = 0 THEN 4 ELSE IF times_opened < 8 THEN 5 ELSE 6
    [] bytes = 90  -> IF times_opened < 8 THEN 4 ELSE 5
    [] bytes = 126 -> IF times_opened = 0 THEN 3 ELSE IF times_opened < 10 THEN 4 ELSE 5

Data(bytes, updated_at) == [size |-> bytes, updated_at |-> updated_at]

W(n, c, d) == [node_id |-> n, child_key |-> c, data |-> d]

G(n, c) == [node_id |-> n, child_key |-> c, known |-> None]

OfThree == [n \in NodeIds |-> CASE n = mine -> 110 [] n = signed -> 100 [] OTHER -> 0]

(* All sizes and two timestamps for two children of one node.              *)
StoreDatas == {Data(8, 1), Data(13, 1), Data(13, 2), Data(126, 2)}

StorePuts == {{W(public, a, Data(13, 1)), W(public, b, Data(8, 1))},
              {W(public, a, Data(126, 2)), W(meta, a, Data(8, 1))},
              {W(public, a, Data(8, 1))},
              {W(public, b, Data(13, 2))}}

StoreGets == {G(public, None), G(public, a),
              [node_id |-> public, child_key |-> a, known |-> [x \in {a} |-> Data(13, 1)]]}

StoreKnown == {get.known : get \in StoreGets}

(* One child each of nodes of the three classes.                           *)
EvictPuts == {{W(public, a, Data(8, 1)), W(signed, a, Data(8, 1))},
              {W(public, a, Data(13, 2))},
              {W(public, a, Data(13, 1))},
              {W(mine, a, Data(8, 1))}}

EvictGets == {G(public, a)}

(* A child whose data grows without its priority changing.                 *)
GrowDatas == {Data(13, 1), Data(90, 2)}

GrowPuts == {{W(public, a, d)} : d \in GrowDatas}

OnlyNone == {None}
==================================================================================

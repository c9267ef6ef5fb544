------------------------------- MODULE GunParts ------------------------------
(***************************************************************************)
(* The parts of a browser peer.  A behaviour of GunPeer, GunNetwork,       *)
(* GunListeners, GunObjects and MCGun is about one of them, chosen at      *)
(* first.                                                                  *)
(***************************************************************************)
Parts == {"clock", "events", "turn", "put", "mesh", "wire", "dup", "read",
          "link", "walk", "graph", "once", "soul", "resync", "text", "valid"}

VARIABLE part
=============================================================================

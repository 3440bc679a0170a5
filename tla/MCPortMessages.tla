--------------------------- MODULE MCPortMessages ---------------------------
(* Small instances of PortMessages for TLC: an end to end port, a hybrid one and one *)
(* of 802.1AS, and the messages they hear of two other ports, m1 and m2.             *)
EXTENDS PortMessages

CONSTANTS m1, m2

Conf(dm, as, mode, fs, nsm) ==
  [dm |-> dm, as |-> as, mode |-> mode, fupSync |-> fs, nsm |-> nsm, maxCount |-> 1]

EndToEnd == Conf("E2E", FALSE, "RAW_WEIGHT", TRUE, TRUE)
Hybrid == Conf("AUTO", FALSE, "FILTER", FALSE, FALSE)
Gptp == Conf("P2P", TRUE, "FILTER_WEIGHT", FALSE, FALSE)

Sync(src, seq, one) == [src |-> src, seq |-> seq, oneStep |-> one]
Fup(src, seq) == [src |-> src, seq |-> seq]
Resp(src, seq, one) == [src |-> src, seq |-> seq, oneStep |-> one, mine |-> TRUE]
RespFup(src, seq) == [src |-> src, seq |-> seq, mine |-> TRUE]

\* Two masters, and sequence numbers that repeat after two messages.
TwoMasters ==
  [sync |-> {Sync(m1, 0, FALSE), Sync(m1, 1, FALSE), Sync(m2, 0, FALSE), Sync(m1, 0, TRUE)},
   fup |-> {Fup(m1, 0), Fup(m1, 1), Fup(m2, 0)},
   delayResp |-> {RespFup(m1, 0), RespFup(m1, 1)},
   pdelayReq |-> {m1}, pdelayResp |-> {}, pdelayFup |-> {}]

\* A request or a response of a peer turns the hybrid port to peer to peer.
OnePeer ==
  [sync |-> {Sync(m1, 0, FALSE)}, fup |-> {Fup(m1, 0)}, delayResp |-> {RespFup(m1, 0)},
   pdelayReq |-> {m1}, pdelayResp |-> {Resp(m1, 0, FALSE), Resp(m1, 1, TRUE)},
   pdelayFup |-> {RespFup(m1, 0)}]

\* Two responders on what should be a point to point link.
TwoPeers ==
  [sync |-> {Sync(m1, 0, TRUE)}, fup |-> {}, delayResp |-> {},
   pdelayReq |-> {m1}, pdelayResp |-> {Resp(m1, 0, FALSE), Resp(m2, 0, TRUE)},
   pdelayFup |-> {RespFup(m1, 0)}]

ThreeKinds == {EndToEnd, Hybrid, Gptp}
ThreeTraffics == [c \in ThreeKinds |->
  CASE c = EndToEnd -> TwoMasters [] c = Hybrid -> OnePeer [] c = Gptp -> TwoPeers]
=============================================================================

--------------------------- MODULE MCDataplaneWorker ---------------------------
(* Two flows of one client: flow 1 carries an allowed and a blocked message,   *)
(* or a longer blocked one and an allowed one that does not fit the window     *)
(* with it; flow 2 carries an allowed one.  The altered byte makes a body that *)
(* does not parse, or a length that does not fit.                              *)
EXTENDS DataplaneWorker

MCSourceOf == [k \in Keys |-> 1]
MCStreams == [k \in Keys |->
  IF k = 1 THEN {<<0, 1, 2, 0, 1, 3>>, <<0, 2, 3, 2, 0, 1, 2>>} ELSE {<<0, 1, 2>>}]
MCBlocked == {<<3>>, <<3, 2>>}
MCMalformed == {<<1>>}

(* Datagram 1 of two payloads, one of them blocked, and datagram 2 of the same *)
(* sender.                                                                     *)
MCSenderOf == [d \in Datagrams |-> 1]
MCPayloads == [d \in Datagrams |-> IF d = 1 THEN {<<1, 1, 1, 1, 1>>, <<1, 2, 1>>} ELSE {<<1, 1>>}]
MCBlockedPayloads == {<<1, 2, 1>>, <<1, 2, 1, 1>>, <<1, 2>>}
=================================================================================

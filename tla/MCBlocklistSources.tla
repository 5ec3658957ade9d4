-------------------------- MODULE MCBlocklistSources --------------------------
(* Two sources at server "a", whose document changes between one with an       *)
(* entity tag and one without, and at server "b", whose document has a bad     *)
(* record that only a tolerant source accepts.  Each beginning has the events   *)
(* that matter for it.                                                         *)
EXTENDS BlocklistSources

First  == << <<"x", "y">>, <<"x">> >>
Other == << <<"y">> >>
Flawed == << <<"x">>, <<"y", Bad>> >>
Long   == << <<"x", "y">>, <<"x", "z">> >>

MCDocuments == [s \in Servers |->
  IF s = "a" THEN {[body |-> First, tagged |-> TRUE, dated |-> TRUE],
                   [body |-> Other, tagged |-> FALSE, dated |-> TRUE]}
  ELSE {[body |-> Flawed, tagged |-> FALSE, dated |-> TRUE]}]

AtA   == [server |-> "a", mode |-> "strict", enabled |-> TRUE,
          trusted |-> {First, Other, Flawed}]
AtB   == [AtA EXCEPT !.server = "b", !.mode = "tolerant"]
Here  == [AtA EXCEPT !.server = LocalServer]

MCConfigs == {[AtB EXCEPT !.mode = "strict"], Here}
MCBeginnings ==
  {[configs |-> <<AtA, AtB>>, events |-> 3, kinds |-> {"edit", "transfer", "second"}],
   [configs |-> <<AtA>>, events |-> 4, kinds |-> {"document", "transfer", "second", "request"}],
   [configs |-> <<Here, AtB>>, events |-> 3, kinds |-> {"edit", "request", "crash"}],
   [configs |-> <<AtA, AtB>>, events |-> 3, kinds |-> {"publish", "transaction", "crash"}]}
MCUploads == {Other, Flawed, Long}
=============================================================================

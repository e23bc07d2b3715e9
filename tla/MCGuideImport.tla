---------------------------- MODULE MCGuideImport ----------------------------
(* Two stations: a full listing without icons, with the number of one      *)
(* station last; one with an icon and the number changed; one that lacks   *)
(* the station its programmes are of.                                      *)
EXTENDS GuideImport, TLC

CONSTANTS a, b

Name(n, t) == [number |-> n, text |-> t]

MCDocuments ==
    {[listed |-> Stations, icons |-> {}, airs |-> Stations,
      names |-> a :> <<Name(0, 1), Name(51, 0)>> @@ b :> <<Name(72, 2)>>],
     [listed |-> Stations, icons |-> {a}, airs |-> {a},
      names |-> a :> <<Name(0, 1), Name(61, 0)>> @@ b :> <<Blank>>],
     [listed |-> {a}, icons |-> {}, airs |-> {b},
      names |-> a :> <<Name(0, 1)>> @@ b :> <<>>]}

(* Importers are interchangeable. *)
Symmetry == Permutations(Importers)

=============================================================================

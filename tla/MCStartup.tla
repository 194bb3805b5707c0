---------------------------- MODULE MCStartup -------------------------------
(* TLC instance of Startup.  The signal tree is a slice of the generated   *)
(* model: Vehicle with Speed and Cabin, Cabin with Seat, Door and a plain   *)
(* attribute; every Model has its back link "parent".  Paths keep their    *)
(* first letters: Vehicle.Speed is "VS", Vehicle.Cabin.Door is "VCD".      *)
(* The default of vss_signals keeps the first characters of "No VSS       *)
(* signal filters set ", the ones that can start a path of this tree.     *)
EXTENDS Startup

CONSTANTS nRoot, nSpeed, nCabin, nSeat, nDoor, nNone

Lst(l) == [kind |-> "list", l |-> l]

MCNodes == {nRoot, nSpeed, nCabin, nSeat, nDoor, nNone}

MCNodeKind == [n \in MCNodes |->
                 CASE n \in {nRoot, nCabin} -> "model"
                   [] n \in {nSpeed, nSeat, nDoor} -> "datapoint"
                   [] n = nNone -> "other"]

Entry(name, n) == [name |-> name, node |-> n]

MCDict == [n \in MCNodes |->
             CASE n = nRoot -> <<Entry("parent", nNone), Entry("Speed", nSpeed),
                                 Entry("Cabin", nCabin)>>
               [] n = nCabin -> <<Entry("parent", nRoot), Entry("Seat", nSeat),
                                  Entry("Door", nDoor), Entry("name", nNone)>>
               [] OTHER -> <<>>]

MCNodePath == [n \in MCNodes |->
                 CASE n = nRoot -> <<"V">>
                   [] n = nSpeed -> <<"V", "S">>
                   [] n = nCabin -> <<"V", "C">>
                   [] n = nSeat -> <<"V", "C", "S">>
                   [] n = nDoor -> <<"V", "C", "D">>
                   [] n = nNone -> <<>>]

MCDefaultValue == [k \in {"vss_signals", "endpoint"} |->
                     IF k = "vss_signals" THEN Str(<<"N", "o", " ", "V", "S", "S">>)
                                          ELSE Str(<<"E">>)]

Ok(content) == [state |-> "ok", content |-> content]

\* Files whose vss_signals is a JSON list of prefixes.
ListFiles ==
    {Ok([k \in {"vss_signals"} |-> Lst(<<<<"V", "C">>>>)]),
     Ok([k \in {"vss_signals", "endpoint"} |->
           IF k = "vss_signals" THEN Lst(<<<<"V", "S">>, <<"V", "C", "D">>>>)
                                ELSE Str(<<"H">>)]),
     Ok([k \in {"vss_signals"} |-> Lst(<<>>)]),
     Ok([k \in {"vss_signals"} |-> Lst(<<<<>>>>)])}

MCFileStates == ListFiles \cup {[state |-> "missing"], [state |-> "badjson"]}

\* Files that leave vss_signals out, and command lines that set it.
MCFileStatesUnset == MCFileStates \cup {Ok([k \in {"endpoint"} |-> Str(<<"H">>)])}

MCArgvChoices == {[k \in {} |-> <<>>], [k \in {"endpoint"} |-> <<"H">>]}

MCArgvWithFilter == MCArgvChoices \cup {[k \in {"vss_signals"} |-> <<"V", "C">>]}
=============================================================================

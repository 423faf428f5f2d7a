------------------------------ MODULE MCEvents ------------------------------
(* Small consoles around the names that several families share.            *)
EXTENDS EventProps

plain(name, kids) == [name |-> name, kids |-> kids, props |-> NoProps]

Shared == <<plain("PHYSICALINTERFACE", <<"FADER">>),
            plain("CHANNEL", <<>>), plain("MIX", <<>>)>>

(* A Duo in its initial setup, with a volume where the console keeps them. *)
System == [name |-> "SYSTEM", kids |-> <<"STORAGEVOLUME">>,
           props |-> [NoProps EXCEPT !.boardType = {1},
                                     !.disableAllPhysicalButtons = {TRUE}]]

(* Families that share channelInputSource, those that share the properties *)
(* of a mix cell, a fader level where meters have theirs, a container that *)
(* is itself an addressable singleton, told from its kids by property and  *)
(* length of the path, and a run whose ordinals are read off the path.     *)
SharedNodes == {plain("CHANNEL", <<>>), plain("MIX", <<>>),
                plain("EFFECTS_PARAMETERS", <<"FADER", "METER">>),
                plain("RCSYNCMIX", <<>>), plain("STREAMERXMIXPRESET", <<>>),
                plain("RECORDINGS", <<"METER", "RECORDING">>), System}

(* The other two flags of the setup, kept out of the SYSTEM node.          *)
SetupRoot == [NoProps EXCEPT !.disableAllHeadphoneOutputs = {TRUE}]
SetupKids == [RECORDING |->
                [NoProps EXCEPT !.disableAllLineoutOutputs = {TRUE}]]
=============================================================================

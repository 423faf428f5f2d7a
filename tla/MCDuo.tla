-------------------------------- MODULE MCDuo -------------------------------
(***************************************************************************)
(* A RODECaster Duo at its real size: the shape of the tree captured in    *)
(* tests/fixtures/duo/fw-1.7.4/full-sync.frame, run by run.                *)
(***************************************************************************)
EXTENDS EventProps

times(n, name) == [i \in 1 .. n |-> name]

plain(name) == [name |-> name, kids |-> <<>>, props |-> NoProps]
holding(name, kids) == [plain(name) EXCEPT !.kids = kids]
nodes(n, name) == times(n, plain(name))

PhysicalInterface ==
  holding("PHYSICALINTERFACE",
          times(4, "POT") \o times(9, "FADER") \o times(22, "METER")
            \o times(48, "PADBUTTON") \o times(6, "SOLOMUTEBUTTON"))

System == [holding("SYSTEM", times(3, "STORAGEVOLUME"))
             EXCEPT !.props.boardType = {1}]

Duo ==
  <<PhysicalInterface, plain("DUCKER"), plain("RECBUTTON"), plain("RECORDER"),
    plain("PLAYER"), plain("EMERGENCYMUTE"), plain("ENCODER"), plain("GUI"),
    plain("APP")>>
  \o nodes(4, "HEADPHONE")
  \o <<plain("OUTPUT"), plain("MASTERCHANNEL"), System,
       holding("NETWORK", times(15, "WIFISCANRESULT") \o <<"PROXY">>),
       plain("AUDIO")>>
  \o nodes(10, "STREAMERXMIXPRESET") \o nodes(10, "CHANNEL")
  \o nodes(11, "EFFECTS_PARAMETERS") \o nodes(13, "MIXMINUSES")
  \o nodes(247, "MIX") \o nodes(19, "STREAMERXSTREAMMIX")
  \o nodes(19, "INPUTSOURCE")
  \o <<holding("SHOWS", times(7, "SHOW")), plain("CURRENTSHOW"),
       plain("SHOWCONTROL"), holding("RECORDINGS", times(17, "RECORDING")),
       plain("TEST"), plain("BUILD"), plain("THEME")>>
  \o nodes(3, "SIPCALLSLOTS")
  \o <<holding("RADIO", times(2, "RADIOTX")), plain("RADIORX"),
       holding("SIPCALLING", times(2, "SIPREGISTRATION")),
       plain("SIPADVANCED"), holding("SOUNDPADS", times(21, "PAD")),
       plain("PADRECORDER"), plain("SIPPHONEBOOKARRAY"),
       holding("PADEFFECTS", times(7, "EFFECTS_PARAMETERS")),
       holding("FXPRESETS", times(3, "FXPRESET"))>>
  \o nodes(14, "RCSYNCMIXMINUES") \o nodes(143, "MIX")
  \o nodes(126, "RCSYNCMIX") \o nodes(11, "STREAMERXSTREAMMIX")
  \o nodes(11, "INPUTSOURCE") \o nodes(3, "RCSYNCMIXMINUES")
  \o nodes(27, "RCSYNCMIX") \o <<plain("OAUTH")>>
=============================================================================

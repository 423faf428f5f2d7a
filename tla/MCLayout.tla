------------------------------ MODULE MCLayout ------------------------------
(* A small console: two-bus mix matrix and run counters that saturate at 2.*)
EXTENDS LineProps

plain(name, kids) == [name |-> name, kids |-> kids, props |-> NoProps]

(* A meter among the faders, and a transmitter inside the radio, where no  *)
(* command is sent to it.                                                  *)
Required == <<plain("PHYSICALINTERFACE", <<"METER", "FADER">>),
              plain("RADIO", <<"RADIOTX">>), plain("CHANNEL", <<>>),
              plain("MIX", <<>>), plain("MIX", <<>>)>>

(* The families a layout requires: runs that grow, split and disappear.    *)
Parts == {plain("PHYSICALINTERFACE", <<"FADER">>), plain("CHANNEL", <<>>),
          plain("MIX", <<>>)}
KidParts == {"FADER"}

(* One word for every property: no property of the layout reads it.        *)
AnyWord == {"word"}
=============================================================================

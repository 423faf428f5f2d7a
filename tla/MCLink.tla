------------------------------- MODULE MCLink -------------------------------
(* A console that starts with the families a layout requires and gains,    *)
(* loses or moves a node, up to MaxTopologies - 1 times.                   *)
EXTENDS LinkProps

plain(name, kids) == [name |-> name, kids |-> kids, props |-> NoProps]

Required == <<plain("PHYSICALINTERFACE", <<"FADER">>),
              plain("CHANNEL", <<>>), plain("MIX", <<>>)>>

Added == {plain("CHANNEL", <<>>)}

Written == {Address("CHANNEL", <<0>>), Address("CHANNEL", <<1>>)}
=============================================================================

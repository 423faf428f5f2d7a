---------------------------- MODULE MCUsbMonitor ----------------------------
(* The monitor of a console that gains or loses a node of a required       *)
(* family: trees with a layout, with another layout, and with none.        *)
EXTENDS UsbMonitor

plain(name, kids) == [name |-> name, kids |-> kids, props |-> NoProps]

Required == <<plain("PHYSICALINTERFACE", <<"FADER">>),
              plain("CHANNEL", <<>>), plain("MIX", <<>>)>>

Added == {plain("CHANNEL", <<>>)}
=============================================================================

-------------------------------- MODULE MCCli -------------------------------
(***************************************************************************)
(* A console that gains, loses or moves a mix cell, and a user who mutes a *)
(* fader (one frame), links a mix cell (three frames), or types the path   *)
(* of the second child of the root.                                        *)
(***************************************************************************)
EXTENDS CliProps

plain(name, kids) == [name |-> name, kids |-> kids, props |-> NoProps]

Required == <<plain("PHYSICALINTERFACE", <<"FADER">>),
              plain("CHANNEL", <<>>), plain("MIX", <<>>)>>

Added == {plain("MIX", <<>>)}

Typed == {[address |-> Address("CHANNEL", <<0>>), frames |-> 1],
          [address |-> Address("MIX", <<0, 0>>), frames |-> 3]}

TypedPaths == {<<1>>}
=============================================================================

---------------------------- MODULE CommandLine -----------------------------
(***************************************************************************)
(* The lines a user may type at the prompt of the interactive client, and  *)
(* the command each one stands for (parse_* of src/examples/cli.rs).       *)
(***************************************************************************)
EXTENDS Commands

CONSTANTS
  CallMeSources,  (* the sources called callme1 to callme3                 *)
  Words           (* what may be typed for the name of a property          *)

ASSUME CallMeSourcesAssumption == CallMeSources \subseteq Sources

(* mute, cue, assign; level.                                               *)
FaderLines ==
       {Writes("CHANNEL", <<f>>, <<p>>) : f \in Faders, p \in StripProps}
  \cup {Writes("FADER", <<f>>, <<"faderLevel">>) : f \in Faders}

(* mix-disable, mix-mute, link, unlink: any source with any mix.           *)
MixLines ==
  {Writes("MIX", <<s, m>>, MixCommands[c]) :
     s \in Sources, m \in Mixes, c \in DOMAIN MixCommands \ {"SetMixLevel"}}

(* Any source taken for the source of a CallMe request.                    *)
CallMeLinesMutant == Requests

(* link-callme, unlink-callme: the source must be a CallMe.                *)
CallMeLines == {c \in Requests : c.index[1] \in CallMeSources}

(* `set` knows these families, some of them one to a console, others with  *)
(* an ordinal of any u8; a channel goes by its fader, an input by its      *)
(* source.  A word that is no known property is sent as it is.             *)
SetSingle == {"MASTERCHANNEL", "OUTPUT", "DUCKER", "RECORDER", "PLAYER", "GUI",
              "SYSTEM", "NETWORK", "AUDIO", "BUILD", "APP", "THEME",
              "CURRENTSHOW", "SHOWCONTROL", "RECORDINGS", "RADIO"}

SetIndexed == {"HEADPHONE", "EFFECTS_PARAMETERS", "PAD", "SHOW", "RECORDING",
               "STORAGEVOLUME", "RADIOTX", "RADIORX", "WIFISCANRESULT",
               "STREAMERXMIXPRESET", "STREAMERXSTREAMMIX", "RCSYNCMIX",
               "MIXMINUSES"}

SetLines ==
  LET set(family, keys) == {Writes(family, k, <<w>>) : k \in keys, w \in Words}
  IN  (UNION {set(x, {<<>>}) : x \in SetSingle})
        \cup (UNION {set(x, {<<n>> : n \in Ordinals}) : x \in SetIndexed})
        \cup set("CHANNEL", {<<f>> : f \in Faders})
        \cup set("INPUTSOURCE", {<<s>> : s \in Sources})

(* The lines that make one command; `skip-setup` makes SetupSkip.          *)
Lines == FaderLines \cup MixLines \cup CallMeLines \cup SetLines
           \cup {Writes("SYSTEM", <<>>, <<"powerOffRequest">>)}
=============================================================================

------------------------------ MODULE Commands ------------------------------
(***************************************************************************)
(* The command encoder (src/src/commands.rs): which properties of which    *)
(* node a command writes, and when it is refused.                          *)
(*                                                                         *)
(* A command names a logical address and the properties written there, one *)
(* frame each: a SetXParam writes one property of the family X,            *)
(* SetFaderMute the channelOutputMute of a CHANNEL, LinkMix three          *)
(* properties of a MIX cell, PowerOff one of SYSTEM.  SetupSkip writes     *)
(* several nodes.  LinkCallMe and UnlinkCallMe write to a path that is     *)
(* made of the numbers of source and mix and asks the layout nothing.      *)
(* ScreenTouched is a fixed frame (ChangeFrame!ScreenTouchedFrame).        *)
(***************************************************************************)
EXTENDS Capabilities, Vocabulary, SequencesExt

CONSTANT CallMeOffset  (* CALLME_MIX_PATH_OFFSET: 4                        *)

ASSUME CallMeOffsetAssumption == CallMeOffset \in Nat

Writes(family, index, names) ==
  [family |-> family, index |-> index, names |-> names]

Sources == 0 .. NamedSources - 1
Mixes == 0 .. MixPerSource - 1

(* What each mix command writes, in this order.                            *)
MixCommands ==
  [SetMixDisabled |-> <<"mixDisabled">>, SetMixMute |-> <<"mixMute">>,
   LinkMix |-> <<"mixDisabled", "mixMute", "mixLinkRequest">>,
   UnlinkMix |-> <<"mixUnlinkRequest">>,
   SetMixLevel |-> <<"mixLevelWithAnchor">>]

IndexedFamilies == (RootRuns \cup NestedRuns)
                     \ {"CHANNEL", "FADER", "INPUTSOURCE"}

Commands ==
       {Writes("CHANNEL", <<f>>, <<p>>) : f \in Faders,
                                          p \in StripProps \cup ChannelParam}
  \cup {Writes("FADER", <<f>>, <<"faderLevel">>) : f \in Faders}
  \cup {Writes("MIX", <<s, m>>, MixCommands[c]) :
          s \in Sources, m \in Mixes, c \in DOMAIN MixCommands}
  \cup {Writes("INPUTSOURCE", <<s>>, <<p>>) : s \in Sources,
                                              p \in InputSourceParam}
  \cup (UNION {{Writes(x, <<n>>, <<p>>) : n \in Ordinals, p \in Params(x)} :
                 x \in IndexedFamilies})
  \cup UNION {{Writes(x, <<>>, <<p>>) : p \in Params(x)} : x \in Singletons}

(* LinkCallMe and UnlinkCallMe.  Nothing checks that the source is a       *)
(* CallMe; that is left to the caller.                                     *)
Requests == {Writes("CALLME", <<s, m>>, <<r>>) :
               s \in Sources, m \in Mixes,
               r \in {"mixLinkRequest", "mixUnlinkRequest"}}

(* callme_request_path: the source in the byte above the mix.              *)
RequestPath(source, mix) == <<source * (U8Max + 1) + CallMeOffset + mix>>

(* The logical address of a target: a fader goes by its number on this     *)
(* model.                                                                  *)
Target(layout, family, index) ==
  IF family \in {"CHANNEL", "FADER"}
  THEN {Address(family, <<n>>) : n \in FaderToIndex(layout.model, index[1])}
  ELSE {Address(family, index)}

TargetPath(layout, family, index) ==
  IF family = "CALLME" THEN {RequestPath(index[1], index[2])}
  ELSE UNION {PathOf(layout, a) : a \in Target(layout, family, index)}

Frame(path, name) == [path |-> path, name |-> name]

Encode(layout, c) ==
  {[i \in DOMAIN c.names |-> Frame(path, c.names[i])] :
     path \in TargetPath(layout, c.family, c.index)}

(* The frames of a command that may be refused: none if it is.             *)
FramesOf(layout, c) ==
  IF Encode(layout, c) = {} THEN <<>>
  ELSE CHOOSE frames \in Encode(layout, c) : TRUE

(* The setup flags cleared only if there is a timezone to set.             *)
SetupSkipMutant(layout, language, timezone) ==
  LET part(family, names) == FramesOf(layout, Writes(family, <<>>, names))
  IN  (IF language THEN part("GUI", <<"lang">>) ELSE <<>>)
      \o part("SHOWCONTROL", <<"showControlNewFromDefaultMuted">>)
      \o (IF timezone
          THEN part("SYSTEM", <<"systemDateTimezone", "systemDateTime24h",
                                "disableAllPhysicalButtons",
                                "disableAllLineoutOutputs",
                                "disableAllHeadphoneOutputs">>) ELSE <<>>)

(* SetupSkip leaves out what there is no node for.                         *)
SetupSkip(layout, language, timezone) ==
  LET part(family, names) == FramesOf(layout, Writes(family, <<>>, names))
  IN  (IF language THEN part("GUI", <<"lang">>) ELSE <<>>)
      \o (IF timezone
          THEN part("SYSTEM", <<"systemDateTimezone", "systemDateTime24h",
                                "systemDateTimeOnHome">>) ELSE <<>>)
      \o part("SHOWCONTROL", <<"showControlNewFromDefaultMuted">>)
      \o part("SYSTEM", <<"disableAllPhysicalButtons",
                          "disableAllLineoutOutputs",
                          "disableAllHeadphoneOutputs",
                          "systemChannelSelected">>)
=============================================================================

------------------------------- MODULE Events -------------------------------
(***************************************************************************)
(* The event decoder (src/src/events.rs): what a property change is        *)
(* reported as, and the events a full sync stands for.                     *)
(*                                                                         *)
(* An event is the logical address it reports, with faders and sources by  *)
(* name; the empty set is `Unknown`.  The decoder tries one rule after the *)
(* other, so each rule is an operator and the decoder the first of them    *)
(* that reports something.  A value is of the type the rule expects, of    *)
(* another one, or absent (propertyRemoved).                               *)
(***************************************************************************)
EXTENDS Capabilities, Vocabulary, SequencesExt

CONSTANT EchoStride  (* nodes between the echoes of two channels: 6        *)

ASSUME EchoStrideAssumption == EchoStride \in Nat \ {0}

Values == {"expected", "other", "none"}

FaderNamed(layout, family, n) ==
  {Address(family, <<f>>) : f \in FaderFromIndex(layout.model, n)}

(* The address as the application sees it, if the node has a name there.   *)
Named(layout, a) ==
  CASE a.family \in {"CHANNEL", "FADER"} ->
         FaderNamed(layout, a.family, a.index[1])
    [] a.family \in {"MIX", "INPUTSOURCE"} ->
         IF a.index[1] < NamedSources THEN {a} ELSE {}
    [] OTHER -> {a}

(* The named addresses the layout gives a path.                            *)
Here(layout, path) == UNION {Named(layout, a) : a \in Resolve(layout, path)}

(* An ordinal taken from the path as it stands, in a u8.                   *)
Raw(path) == <<(IF path = <<>> THEN 0 ELSE Last(path)) % (U8Max + 1)>>

Among(here, families) ==
  FirstOf([i \in DOMAIN families |-> {a \in here : a.family = families[i]}])

-----------------------------------------------------------------------------
(* Incremental events, rule by rule.                                       *)

StripEvents(here, name, value) ==
  {a \in here :
     \/ /\ a.family = "CHANNEL"
        /\ \/ name = "channelInputSource"
           \/ /\ name \in {"channelOutputMute", "channelCueEnable"}
              /\ value = "expected"
     \/ a.family = "FADER" /\ name = "faderLevel" /\ value = "expected"}

(* A request left out.                                                     *)
MixEventsMutant(here, name, value) ==
  {a \in here : /\ a.family = "MIX" /\ value = "expected"
                /\ name \in MixProps \ {"mixUnlinkRequest"}}

MixEvents(here, name, value) ==
  {a \in here : a.family = "MIX" /\ name \in MixProps /\ value = "expected"}

(* The path of an encoder is the number of its fader.                      *)
EncoderEvents(layout, path, name, value) ==
  IF /\ \/ name = "encoderSignal"
        \/ name = "encoderColour" /\ value = "expected"
     /\ path # <<>> /\ path[1] < layout.nested["FADER"].count
  THEN FaderNamed(layout, "ENCODER", path[1]) ELSE {}

(* The console echoes the assignment of channel n at n times the stride    *)
(* from the first channel.  The value does not matter.                     *)
AssignmentEvents(layout, here, path, name) ==
  LET channels == layout.run["CHANNEL"]
      echoed   == UNION {FaderNamed(layout, "CHANNEL",
                                    (path[1] - first) \div EchoStride) :
                           first \in {f \in channels.first :
                             /\ path # <<>>
                             /\ path[1] >= f
                             /\ (path[1] - f) % EchoStride = 0
                             /\ (path[1] - f) \div EchoStride < channels.count}}
  IN  IF name # "channelInputSource" THEN {}
      ELSE FirstOf(<<{a \in here : a.family = "CHANNEL"}, echoed>>)

(* Children of PHYSICALINTERFACE, by their place in it.                    *)
HardwareEvents(layout, path, name, value) ==
  IF /\ Len(path) = 2
     /\ path[1] \in layout.nested["FADER"].parent
     /\ value = "expected"
  THEN {Address(node, IF node = "RECBUTTON" THEN <<>> ELSE Raw(path)) :
          node \in {h \in DOMAIN HardwareParams : name \in HardwareParams[h]}}
  ELSE {}

EmergencyEvents(path, name, value) ==
  IF Len(path) = 1 /\ name = "emergencyMuteActive" /\ value = "expected"
  THEN {Address("EMERGENCYMUTE", <<>>)} ELSE {}

(* Meters told from faders by nothing but the name.                        *)
NameKeyedEventsMutant(layout, path, name, value) ==
  {Address(family, Raw(path)) :
     family \in {f \in {"METER", "RECORDING"} :
                   /\ Len(path) = 2
                   /\ name \in Params(f) /\ value # "none"}}

(* Families told by the name of the property and the length of the path.   *)
NameKeyedEvents(layout, path, name, value) ==
  LET known(family) == name \in Params(family) /\ value # "none"
      one(family)   == IF Len(path) = 1 /\ known(family)
                       THEN {Address(family, <<>>)} ELSE {}
      child(family) == IF Len(path) = 2 /\ known(family)
                       THEN {Address(family, Raw(path))} ELSE {}
  IN  FirstOf(<<IF known("NETWORK") THEN {Address("NETWORK", <<>>)} ELSE {},
                one("RECORDINGS"), child("RECORDING"), child("STORAGEVOLUME"),
                one("AUDIO"), one("BUILD"), one("APP"), one("THEME"),
                one("CURRENTSHOW"), one("SHOWCONTROL"), child("SHOW"),
                IF Len(path) = 2 /\ path[1] \in layout.nested["FADER"].parent
                THEN {} ELSE child("METER")>>)

SipEvents(here, name, value) ==
  Among({a \in here : name \in Params(a.family) /\ value # "none"},
        <<"SIPCALLING", "SIPADVANCED", "SIPREGISTRATION", "SIPCALLSLOTS">>)

(* Families told by the name of the property alone.                        *)
SmallFamilies == <<"STREAMERXMIXPRESET", "STREAMERXSTREAMMIX", "FXPRESET",
                   "PADRECORDER", "TEST", "WIFISCANRESULT", "RADIO",
                   "RADIOTX", "RADIORX">>

SmallFamilyEvents(path, name, value) ==
  FirstOf([i \in DOMAIN SmallFamilies |->
     LET family == SmallFamilies[i]
     IN  IF name \in Params(family) /\ value # "none"
         THEN {Address(family, IF family \in {"TEST", "RADIO"} THEN <<>>
                                                            ELSE Raw(path))}
         ELSE {}])

(* The remote mix told by the name of the property.                        *)
RemoteMixEventsMutant(here, name, value) ==
  {Address("RCSYNCMIX", a.index) :
     a \in {b \in here : name \in RcSyncMixParam /\ value # "none"}}

RemoteMixEvents(here, name, value) ==
  Among({a \in here : name \in Params(a.family) /\ value # "none"},
        <<"MIXMINUSES", "RCSYNCMIX">>)

(* resolve_param_target: any other property of these.                      *)
ParamFamilies == <<"CHANNEL", "INPUTSOURCE", "MASTERCHANNEL", "OUTPUT",
                   "DUCKER", "RECORDER", "PLAYER", "HEADPHONE",
                   "EFFECTS_PARAMETERS", "GUI", "PAD", "SYSTEM">>

ParamTarget(here, name) ==
  Among({a \in here : a.family = "CHANNEL" => name \notin StripProps},
        ParamFamilies)

Rules(layout, path, name, value) ==
  LET here == Here(layout, path)
  IN  <<StripEvents(here, name, value),
        MixEvents(here, name, value),
        EncoderEvents(layout, path, name, value),
        AssignmentEvents(layout, here, path, name),
        HardwareEvents(layout, path, name, value),
        EmergencyEvents(path, name, value),
        NameKeyedEvents(layout, path, name, value),
        SipEvents(here, name, value),
        SmallFamilyEvents(path, name, value),
        RemoteMixEvents(here, name, value),
        IF value = "none" THEN {} ELSE ParamTarget(here, name)>>

DecodeProperty(layout, path, name, value) ==
  FirstOf(Rules(layout, path, name, value))
=============================================================================

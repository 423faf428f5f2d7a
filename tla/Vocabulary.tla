----------------------------- MODULE Vocabulary -----------------------------
(***************************************************************************)
(* The wire names of properties (src/src/names/): one table per node       *)
(* family, read by `from_known_name` when an event is decoded and written  *)
(* by `as_str` when a command is encoded.                                  *)
(*                                                                         *)
(* Each table is cut down to a representative or two, and to the names it  *)
(* shares with another one: `channelInputSource`, `faderLevel` and six     *)
(* properties of a mix cell.                                               *)
(***************************************************************************)
StripProps == {"channelOutputMute", "channelCueEnable", "channelInputSource"}

MixProps == {"mixMute", "mixLink", "mixDisabled", "mixLevelWithAnchor",
             "mixLinkRequest", "mixUnlinkRequest"}

ChannelParam == {"eqOn"}
InputSourceParam == {"inputColour"}
MasterParam == {"masterCompellorOn"}
OutputParam == {"outputMonLevel"}
DuckerParam == {"duckerDepth"}
RecorderParam == {"recordState"}
PlayerParam == {"playerState"}
HeadphoneParam == {"headphoneColour"}
EffectsParam == {"reverbOn", "channelInputSource"}
GuiParam == {"lang"}
PadParam == {"padIdx"}
SystemParam == {"powerOffRequest", "systemDateTimezone", "systemDateTime24h",
                "systemDateTimeOnHome", "systemChannelSelected",
                "disableAllPhysicalButtons", "disableAllLineoutOutputs",
                "disableAllHeadphoneOutputs"}
MeterParam == {"faderLevel", "meterLevelL"}
RcSyncMixParam == MixProps \cup {"mixRcSyncLevelRequest"}
MixMinusesParam == {"outputMixMinus"}
NetworkParam == {"btVisible"}
AudioParam == {"audioBufferSize"}
BuildParam == {"buildGuiVersion"}
AppParam == {"appCompression"}
ThemeParam == {"themeId"}
TestParam == {"toneGeneration"}
FxPresetParam == {"fxPresetIdx"}
PadRecorderParam == {"padRecordIdx"}
StorageVolumeParam == {"storageVolumeFree"}
WifiScanResultParam == {"wifiScanResultSSID"}

ShowParams == [SHOW |-> {"showName"}, CURRENTSHOW |-> {"currentShowName"},
               SHOWCONTROL |-> {"showControlNewFromDefaultMuted"}]

RecordingParams == [RECORDINGS |-> {"recordingTotalCount"},
                    RECORDING |-> {"recordingUID"}]

SipParams == [SIPCALLING |-> {"sipLicenceMode"},
              SIPREGISTRATION |-> {"sipRegistrationIndex"},
              SIPCALLSLOTS |-> {"sipCallSlotId"},
              SIPADVANCED |-> {"dtmfMode"}]

RadioParams == [RADIO |-> {"radioPair"}, RADIOTX |-> {"txConnected"},
                RADIORX |-> {"rxRadioId"}]

StreamerXParams == [STREAMERXMIXPRESET |-> {"streamerXPresetName"},
                    STREAMERXSTREAMMIX |-> {"streammixmixLevel"}]

(* The table of each family.                                               *)
Tables ==
  [CHANNEL |-> ChannelParam, INPUTSOURCE |-> InputSourceParam,
   MASTERCHANNEL |-> MasterParam, OUTPUT |-> OutputParam,
   DUCKER |-> DuckerParam, RECORDER |-> RecorderParam,
   PLAYER |-> PlayerParam, HEADPHONE |-> HeadphoneParam,
   EFFECTS_PARAMETERS |-> EffectsParam, GUI |-> GuiParam, PAD |-> PadParam,
   SYSTEM |-> SystemParam, METER |-> MeterParam,
   RCSYNCMIX |-> RcSyncMixParam, MIXMINUSES |-> MixMinusesParam,
   NETWORK |-> NetworkParam, AUDIO |-> AudioParam, BUILD |-> BuildParam,
   APP |-> AppParam, THEME |-> ThemeParam, TEST |-> TestParam,
   FXPRESET |-> FxPresetParam, PADRECORDER |-> PadRecorderParam,
   STORAGEVOLUME |-> StorageVolumeParam,
   WIFISCANRESULT |-> WifiScanResultParam,
   SHOW |-> ShowParams.SHOW, CURRENTSHOW |-> ShowParams.CURRENTSHOW,
   SHOWCONTROL |-> ShowParams.SHOWCONTROL,
   RECORDINGS |-> RecordingParams.RECORDINGS,
   RECORDING |-> RecordingParams.RECORDING,
   SIPCALLING |-> SipParams.SIPCALLING,
   SIPREGISTRATION |-> SipParams.SIPREGISTRATION,
   SIPCALLSLOTS |-> SipParams.SIPCALLSLOTS,
   SIPADVANCED |-> SipParams.SIPADVANCED,
   RADIO |-> RadioParams.RADIO, RADIOTX |-> RadioParams.RADIOTX,
   RADIORX |-> RadioParams.RADIORX,
   STREAMERXMIXPRESET |-> StreamerXParams.STREAMERXMIXPRESET,
   STREAMERXSTREAMMIX |-> StreamerXParams.STREAMERXSTREAMMIX]

Params(family) == IF family \in DOMAIN Tables THEN Tables[family] ELSE {}

(* Properties of the front panel's hardware, by the node that carries them.*)
HardwareParams == [POT |-> {"potLevel"}, PADBUTTON |-> {"padButtonPressed"},
                   SOLOMUTEBUTTON |-> {"mutePressed", "soloPressed"},
                   ENCODER |-> {"encoderPressed"},
                   RECBUTTON |-> {"recButtonPressed"}]

(* What the console's nodes of a name carry.                               *)
Carried(name) ==
  CASE name = "CHANNEL" -> StripProps \cup ChannelParam
    [] name = "FADER" -> {"faderLevel"}
    [] name = "MIX" -> MixProps
    [] name = "EMERGENCYMUTE" -> {"emergencyMuteActive"}
    [] name \in DOMAIN HardwareParams -> HardwareParams[name]
    [] OTHER -> Params(name)
=============================================================================

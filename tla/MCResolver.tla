------------------------------ MODULE MCResolver ------------------------------
(***************************************************************************)
(* A small SDK with one header of each shape the code provides for: the    *)
(* platform's and the common headers, an interface with types of its own,  *)
(* two that share the anti-cheat types, one whose enums come from an       *)
(* include, one reached through another interface, one with handles of its *)
(* own beside the interface's, a file transfer interface, and one with a   *)
(* deprecated include.                                                     *)
(***************************************************************************)
EXTENDS EOSHandleResolver

Inc(h) == [kind |-> "include", of |-> h]
Doc(h) == [kind |-> "interface doc", of |-> h]
Api(m) == [kind |-> "latest", of |-> m]
Enum(n) == [kind |-> "enum start", of |-> n]
Old_(n) == [kind |-> "declare", of |-> n, deprecated |-> TRUE]
D(n) == [kind |-> "declare", of |-> n, deprecated |-> FALSE]
Ds(ns) == [k \in DOMAIN ns |-> D(ns[k])]

TheLines ==
    "common.h" :> Ds(<<"EpicAccountId", "EpicAccountId_ToString",
                       "EpicAccountId_FromString", "ELoginStatus", "INVALID",
                       "Platform_Create", "Initialize", "EUIDetailsMode", "IPT_FLAGS",
                       "UI_LIMIT">>)
 @@ "types.h" :> Ds(<<"HPlatform", "PLATFORM_TICK", "EPlatformStatus",
                      "ERTCBackground", "Platform_Options">>)
 @@ "base.h" :> Ds(<<"BASE">>)
 @@ "sdk.h" :> <<Inc("types.h"), Inc("ui.h"), Inc("rtc.h"), Doc("HPlatform"),
                 D("Platform_Tick"), D("Platform_Release"), D("GetUI"), D("GetRTC"),
                 D("GetServer"), D("GetPlayer")>>
 @@ "cheatcommon_types.h" :> <<Inc("common.h"), D("ECheatType"), D("CHEATCOMMON_MAX"),
                               D("Cheat_Info")>>
 @@ "server.h" :> <<Inc("server_types.h"), Doc("HServer"), D("Server_Kick")>>
 @@ "server_types.h" :> <<Inc("cheatcommon_types.h"), D("HServer"), Api("SERVER_LATEST"),
                          D("OnKick"), D("EServerMode")>>
 @@ "ui.h" :> <<Inc("ui_types.h"), Inc("rtc_types.h"), Inc("gone.h"), Doc("HUI"),
                D("UI_Show"), D("OnShow"), D("Details_Release"), D("Details_Copy"),
                D("Info_Release")>>
 @@ "ui_types.h" :> <<Inc("keys.h"), D("HUI"), D("HUIDetails"), D("UI_MAX"), Old_("EUIOld"),
                      Enum("EUIKey"), D("UI_SKIPPED")>>
 @@ "keys.h" :> <<D("EKeys"), D("UI_Struct")>>
 @@ "rtc.h" :> <<Inc("rtc_types.h"), Inc("rtc_audio_types.h"), Doc("HRTC"), D("GetAudio"), D("RTC_Join"), D("OnJoin")>>
 @@ "rtc_types.h" :> Ds(<<"HRTC", "ERTCState">>)
 @@ "rtc_audio_types.h" :> Ds(<<"HRTCAudio", "ERTCAudioLevel">>)
 @@ "rtc_audio.h" :> <<Inc("rtc_audio_types.h"), Inc("rtc_types.h"), Inc("old.inl"),
                       Doc("HRTCAudio")>>
 @@ "old.inl" :> <<Doc("HRTCAudio"), D("Audio_Old"), D("AUDIO_OLD"), D("HRTCAudioOld")>>
 @@ "player.h" :> <<Doc("HPlayer"), D("HPlayer"), D("HPlayerRequest"), D("Player_Read"),
                    D("OnPlayerRead"), D("Player_Write"), D("OnPlayerWrite"),
                    D("OnPlayerData"), D("Request_Release")>>

(* Headers by what their name and their text tell.                         *)
About_(il, main, common, dep, direct) ==
    [il |-> il, main |-> main, common |-> common, deprecated |-> dep, direct |-> direct]
Main(il) == About_(il, None, FALSE, FALSE, TRUE)
TypesOf(il, main) == About_(il, main, FALSE, FALSE, FALSE)
TheAbout ==
    "common.h" :> About_("common", None, TRUE, FALSE, TRUE)
 @@ "types.h" :> TypesOf("platform", "none.h")
 @@ "base.h" :> About_("base", None, TRUE, FALSE, TRUE)
 @@ "sdk.h" :> About_("platform", None, TRUE, FALSE, TRUE)
 @@ "cheatcommon_types.h" :> TypesOf("anticheatcommon", "cheatcommon.h")
 @@ "server.h" :> Main("server") @@ "server_types.h" :> TypesOf("server", "server.h")
 @@ "ui.h" :> Main("ui") @@ "ui_types.h" :> TypesOf("ui", "ui.h")
 @@ "keys.h" :> About_("keys", None, FALSE, FALSE, FALSE)
 @@ "rtc.h" :> Main("rtc") @@ "rtc_types.h" :> TypesOf("rtc", "rtc.h")
 @@ "rtc_audio.h" :> Main("rtc_audio")
 @@ "rtc_audio_types.h" :> TypesOf("rtc_audio", "rtc_audio.h")
 @@ "old.inl" :> About_("old", None, FALSE, TRUE, FALSE)
 @@ "player.h" :> Main("player")

TheHeaders == DOMAIN TheLines
TheFirst == <<"types.h", "cheatcommon_types.h">>
TheClasses ==
    "common" :> "" @@ "platform" :> "Platform" @@ "anticheatcommon" :> "CheatCommon"
 @@ "server" :> "Server" @@ "ui" :> "UI" @@ "rtc" :> "RTC" @@ "rtc_audio" :> "RTCAudio"
 @@ "player" :> "Player" @@ "keys" :> "Keys" @@ "base" :> "Base"
 @@ "old" :> "Old"
TheHandleOf ==
    "Platform" :> "HPlatform" @@ "Server" :> "HServer" @@ "UI" :> "HUI" @@ "RTC" :> "HRTC"
 @@ "RTCAudio" :> "HRTCAudio" @@ "Player" :> "HPlayer"
TheSpecial == "anticheatcommon" :> "HCheatCommon"

(* Declarations by kind.                                                   *)
Plain(kind) == [kind |-> kind, skip |-> FALSE, deprecated |-> FALSE, prefix |-> None]
Method(first, taken, release, getter, prefix) ==
    [kind |-> "method", skip |-> FALSE, deprecated |-> FALSE, prefix |-> prefix,
     first |-> first, taken |-> taken, release |-> release, getter |-> getter]
With(kind, prefix) == [Plain(kind) EXCEPT !.prefix = prefix]
All_(ns, f) == [n \in ns |-> f]
Call_(h) == Method(h, None, FALSE, None, h)
TheFacts ==
    All_({"HPlatform", "HServer", "HUI", "HUIDetails", "HRTC", "HRTCAudio", "HRTCAudioOld",
          "HPlayer", "HPlayerRequest", "EpicAccountId"},
         Plain("handle"))
 @@ All_({"Platform_Options", "Cheat_Info", "UI_Struct"}, Plain("struct"))
 @@ All_({"EUIDetailsMode", "ELoginStatus", "EPlatformStatus", "ERTCBackground", "ECheatType", "EServerMode",
          "EUIOld", "EUIKey", "EKeys", "ERTCState", "ERTCAudioLevel"}, Plain("enum"))
 @@ "PLATFORM_TICK" :> With("constant", "HPLATFORM") @@ "INVALID" :> Plain("constant")
 @@ "CHEATCOMMON_MAX" :> With("constant", "HCheatCommon")
 @@ "UI_MAX" :> With("constant", "HUI") @@ "AUDIO_OLD" :> With("constant", "HAUDIO")
 @@ "IPT_FLAGS" :> With("constant", "HIPT") @@ "UI_LIMIT" :> With("constant", "HUI")
 @@ "UI_SKIPPED" :> [Plain("constant") EXCEPT !.skip = TRUE]
 @@ "BASE" :> Plain("constant")
 @@ "EpicAccountId_ToString" :> Call_("EpicAccountId")
 @@ "EpicAccountId_FromString" :> Call_(None) @@ "Platform_Create" :> Call_(None)
 @@ "Initialize" :> Call_(None)
 @@ "Platform_Tick" :> Call_("HPlatform")
 @@ "Platform_Release" :> Method("HPlatform", None, TRUE, None, "HPlatform")
 @@ "GetUI" :> Method("HPlatform", None, FALSE, "UI", None)
 @@ "GetRTC" :> Method("HPlatform", None, FALSE, "RTC", None)
 @@ "GetServer" :> Method("HPlatform", None, FALSE, "Server", None)
 @@ "GetPlayer" :> Method("HPlatform", None, FALSE, "Player", None)
 @@ "GetAudio" :> Method("HRTC", None, FALSE, "RTCAudio", None)
 @@ "Server_Kick" :> Method("HServer", "OnKick", FALSE, None, "HServer")
 @@ "UI_Show" :> Method("HUI", "OnShow", FALSE, None, "HUI")
 @@ "Details_Release" :> Method("HUIDetails", None, TRUE, None, "HUIDetails")
 @@ "Details_Copy" :> Call_("HUIDetails")
 @@ "Info_Release" :> Method(None, None, TRUE, None, "HInfo")
 @@ "RTC_Join" :> Method("HRTC", "OnJoin", FALSE, None, "HRTC")
 @@ "Audio_Old" :> Method(None, None, FALSE, None, "HRTCAudio")
 @@ "Request_Release" :> Method("HPlayerRequest", None, TRUE, None, "HPlayerRequest")
 @@ "Player_Read" :> Method("HPlayer", "OnPlayerRead", FALSE, None, "HPlayer")
 @@ "Player_Write" :> Method("HPlayer", "OnPlayerWrite", FALSE, None, "HPlayer")
 @@ All_({"OnKick", "OnShow", "OnJoin"}, Plain("callback"))
 @@ "OnPlayerData" :> With("callback", "HPlayer")
 @@ "OnPlayerRead" :> With("callback", "HPlayer") @@ "OnPlayerWrite" :> With("callback", "HPlayer")

TheWords ==
    "HPlatform" :> <<"Platform">> @@ "HServer" :> <<"Server">> @@ "HUI" :> <<"UI">>
 @@ "HUIDetails" :> <<"UI", "Details">> @@ "HRTC" :> <<"RTC">> @@ "HRTCAudio" :> <<"RTC", "Audio">>
 @@ "HRTCAudioOld" :> <<"RTC", "Audio", "Old">> @@ "HPlayer" :> <<"Player">>
 @@ "HPlayerRequest" :> <<"Player", "Request">> @@ "EpicAccountId" :> <<"Epic", "Account", "Id">>
 @@ "HCheatCommon" :> <<"CheatCommon">>
 @@ "EUIDetailsMode" :> <<"UI", "Details", "Mode">> @@ "ELoginStatus" :> <<"Login", "Status">> @@ "EPlatformStatus" :> <<"Platform", "Status">>
 @@ "ERTCBackground" :> <<"RTC", "Background">> @@ "ECheatType" :> <<"CheatCommon", "Type">>
 @@ "EServerMode" :> <<"Server", "Mode">> @@ "EUIOld" :> <<"UI", "Old">>
 @@ "EUIKey" :> <<"UI", "Key">> @@ "EKeys" :> <<"Keys">> @@ "ERTCState" :> <<"RTC", "State">>
 @@ "ERTCAudioLevel" :> <<"RTC", "Audio", "Level">>

TheCheats == "EpicAccountId_FromString" :> "EpicAccountId" @@ "Platform_Create" :> "HPlatform"
          @@ "OnPlayerData" :> "HPlayerRequest" @@ "IPT_FLAGS" :> "HPlayerRequest"
TheCopies == {[from |-> "HPlayer", to |-> "HPlayerRequest", callback |-> "OnPlayerRead"],
              [from |-> "HPlayer", to |-> "HPlayerRequest", callback |-> "OnPlayerWrite"]}
TheUnlisted == {"base.h"}
TheGlobalEnums == {"platform", "common"}
TheGlobalConstants == {"common"}
ThePreset == {"EOS", "HCheatCommon"}
===============================================================================
